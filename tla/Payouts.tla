-------------------------------- MODULE Payouts --------------------------------
(***************************************************************************)
(* Payout requests: a creator asks for earnings, an administrator approves *)
(* or rejects the request, pays through PayPal outside the system and marks*)
(* it processed. Each handler reads a PayoutRequest, checks its status and *)
(* saves its edit after an await; save() writes only the edited paths and  *)
(* does not look at the status again. PayoutRequests are never deleted.    *)
(***************************************************************************)
EXTENDS Naturals, FiniteSets, FiniteSetsExt

CONSTANTS Creators,
          Transactions,   \* Transaction documents
          Payee,          \* Transaction.creator
          Earning,        \* Transaction.creatorEarnings
          PayoutIds,      \* ObjectIds of PayoutRequest documents
          Amounts,        \* amounts a creator may ask for
          MinimumPayout,  \* payoutSettings.minimumPayout, or 50
          Requests,       \* HTTP requests being served at the same time
          Absent, Idle

ASSUME FiniteAssumption == IsFiniteSet(PayoutIds) /\ IsFiniteSet(Requests)
ASSUME PayeeAssumption == Payee \in [Transactions -> Creators]
ASSUME EarningAssumption == Earning \in [Transactions -> Nat]
ASSUME AmountsAssumption == Amounts \subseteq Nat \ {0} /\ MinimumPayout \in Nat \ {0}

VARIABLES payouts,    \* the PayoutRequest collection: _id -> document
          completed,  \* the transactions with status 'completed'
          processed,  \* the transactions with payoutProcessed true
          req         \* what each request has in memory

vars == <<payouts, completed, processed, req>>

-----------------------------------------------------------------------------
(* Documents.                                                              *)

Statuses == {"pending", "approved", "processed", "rejected", "cancelled"}

\* adminNotes and rejectionReason: whether the path has been set; only an
\* approval sets the first and only a rejection the second. The flag
\* adminNotificationSent, which no code reads, is left out.
PayoutRequest ==
  [creator: Creators, requestedAmount: Amounts, transactions: SUBSET Transactions,
   status: Statuses, adminNotes: BOOLEAN, rejectionReason: BOOLEAN]

Live == {p \in PayoutIds : payouts[p] # Absent}

TotalEarnings(S) == MapThenSumSet(LAMBDA t : Earning[t], S)

\* The aggregation over completed transactions not yet paid out.
Eligible(c) == {t \in completed \ processed : Payee[t] = c}

Pending(c) == {p \in Live : payouts[p].creator = c /\ payouts[p].status = "pending"}

-----------------------------------------------------------------------------
(* Requests.                                                               *)

CreateRequest ==
  [pc: {"create_sum", "create_save"}, creator: Creators, amount: Amounts,
   transactions: SUBSET Transactions]

BatchRequest == [pc: {"batch_save"}, transactions: SUBSET Transactions]

DocSteps == {"create_notify", "cancel_save", "approve_save", "reject_save",
             "process_mark", "process_save"}

DocRequest == [pc: DocSteps, id: PayoutIds]

At(r, step) == req[r] # Idle /\ req[r].pc = step

Goto(r, q) == req' = [req EXCEPT ![r] = q]

TypeOK ==
  /\ payouts \in [PayoutIds -> PayoutRequest \cup {Absent}]
  /\ completed \subseteq Transactions
  /\ processed \subseteq Transactions
  /\ req \in [Requests -> {Idle} \cup CreateRequest \cup BatchRequest \cup DocRequest]

ASSUME SentinelsAssumption ==
  Absent \notin PayoutRequest /\ Idle \notin CreateRequest \cup BatchRequest \cup DocRequest

Init ==
  /\ payouts = [p \in PayoutIds |-> Absent]
  /\ completed = {}
  /\ processed = {}
  /\ req = [r \in Requests |-> Idle]

-----------------------------------------------------------------------------
(* POST /payouts/request: createPayoutRequest.                             *)

\* The bound on PayoutRequest documents: every create under way can be saved.
RoomForCreate ==
  Cardinality({r \in Requests : At(r, "create_sum") \/ At(r, "create_save")})
    < Cardinality(PayoutIds \ Live)

\* Mutant: a creator who has a pending request may make another one.
CreateUnchecked(r, c, amount) ==
  /\ req[r] = Idle
  /\ RoomForCreate
  /\ Goto(r, [pc |-> "create_sum", creator |-> c, amount |-> amount, transactions |-> {}])
  /\ UNCHANGED <<payouts, completed, processed>>

CreateCheck(r, c, amount) ==
  /\ req[r] = Idle
  /\ RoomForCreate
  /\ Pending(c) = {}
  /\ Goto(r, [pc |-> "create_sum", creator |-> c, amount |-> amount, transactions |-> {}])
  /\ UNCHANGED <<payouts, completed, processed>>

\* The request covers every eligible transaction, whatever amount is asked.
CreateSum(r) ==
  /\ At(r, "create_sum")
  /\ LET S == Eligible(req[r].creator)
     IN  IF TotalEarnings(S) >= req[r].amount /\ req[r].amount >= MinimumPayout
           THEN Goto(r, [req[r] EXCEPT !.pc = "create_save", !.transactions = S])
           ELSE Goto(r, Idle)
  /\ UNCHANGED <<payouts, completed, processed>>

CreateSave(r) ==
  /\ At(r, "create_save")
  /\ \E p \in PayoutIds \ Live :
       /\ payouts' = [payouts EXCEPT ![p] =
            [creator |-> req[r].creator, requestedAmount |-> req[r].amount,
             transactions |-> req[r].transactions, status |-> "pending",
             adminNotes |-> FALSE, rejectionReason |-> FALSE]]
       /\ Goto(r, [pc |-> "create_notify", id |-> p])
  /\ UNCHANGED <<completed, processed>>

\* sendAdminNotification: the mail is sent or not, and the save() that follows
\* writes the flag and no other path.
CreateNotify(r) ==
  /\ At(r, "create_notify")
  /\ Goto(r, Idle)
  /\ UNCHANGED <<payouts, completed, processed>>

-----------------------------------------------------------------------------
(* Decisions: load and check the status, then save the edit.               *)

Load(r, p, status, step) ==
  /\ req[r] = Idle
  /\ p \in Live
  /\ payouts[p].status = status
  /\ Goto(r, [pc |-> step, id |-> p])
  /\ UNCHANGED <<payouts, completed, processed>>

Save(r, step, doc) ==
  /\ At(r, step)
  /\ payouts' = [payouts EXCEPT ![req[r].id] = doc]
  /\ Goto(r, Idle)
  /\ UNCHANGED <<completed, processed>>

CancelLoad(r, p) == Load(r, p, "pending", "cancel_save")

CancelSave(r) ==
  Save(r, "cancel_save", [payouts[req[r].id] EXCEPT !.status = "cancelled"])

ApproveLoad(r, p) == Load(r, p, "pending", "approve_save")

ApproveSave(r) ==
  Save(r, "approve_save", [payouts[req[r].id] EXCEPT !.status = "approved",
                                                     !.adminNotes = TRUE])

RejectLoad(r, p) == Load(r, p, "pending", "reject_save")

\* Mutant: a rejection writes a status outside the enum.
RejectSaveDeclined(r) ==
  Save(r, "reject_save", [payouts[req[r].id] EXCEPT !.status = "declined",
                                                    !.rejectionReason = TRUE])

RejectSave(r) ==
  Save(r, "reject_save", [payouts[req[r].id] EXCEPT !.status = "rejected",
                                                    !.rejectionReason = TRUE])

\* Mutant: a pending request can be marked processed.
ProcessLoadAny(r, p) == \E s \in {"pending", "approved"} : Load(r, p, s, "process_mark")

ProcessLoad(r, p) == Load(r, p, "approved", "process_mark")

\* Mutant: the request is saved before its transactions are marked.
ProcessSaveFirst(r) ==
  /\ At(r, "process_mark")
  /\ payouts' = [payouts EXCEPT ![req[r].id].status = "processed"]
  /\ Goto(r, [req[r] EXCEPT !.pc = "process_save"])
  /\ UNCHANGED <<completed, processed>>

ProcessMark(r) ==
  /\ At(r, "process_mark")
  /\ processed' = processed \cup payouts[req[r].id].transactions
  /\ Goto(r, [req[r] EXCEPT !.pc = "process_save"])
  /\ UNCHANGED <<payouts, completed>>

ProcessSave(r) ==
  Save(r, "process_save", [payouts[req[r].id] EXCEPT !.status = "processed"])

-----------------------------------------------------------------------------
(* POST /admin/financials/process-payouts: the batch payout of a creator.  *)

RequiredPaths == {"transactionId", "memberId", "creatorId", "creator", "type", "amount"}

\* The paths of the 'payout' transaction the batch saves first.
BatchPaths == {"creator", "type", "amount", "status", "paymentMethod"}

\* Its amount is -total, and the schema's minimum is 0.
BatchValid(total) == RequiredPaths \subseteq BatchPaths /\ total = 0

BatchFind(r, c) ==
  /\ req[r] = Idle
  /\ TotalEarnings(Eligible(c)) >= MinimumPayout
  /\ Goto(r, [pc |-> "batch_save", transactions |-> Eligible(c)])
  /\ UNCHANGED <<payouts, completed, processed>>

\* When the save throws, the creator is reported as failed.
BatchSave(r) ==
  /\ At(r, "batch_save")
  /\ processed' = IF BatchValid(TotalEarnings(req[r].transactions))
                    THEN processed \cup req[r].transactions ELSE processed
  /\ Goto(r, Idle)
  /\ UNCHANGED <<payouts, completed>>

-----------------------------------------------------------------------------
(* The webhooks of the payment processor. Each loads a transaction and     *)
(* writes its status without looking at the one it replaces.               *)

\* A member's payment to a creator completes; a repeated webhook completes it
\* again after a refund.
handleNewSale(t) ==
  /\ t \notin completed
  /\ completed' = completed \cup {t}
  /\ UNCHANGED <<payouts, processed, req>>

\* The payment is taken back, also when it is part of a payout request.
handleRefund(t) ==
  /\ t \in completed
  /\ completed' = completed \ {t}
  /\ UNCHANGED <<payouts, processed, req>>

-----------------------------------------------------------------------------

\* The Node process restarts: requests in flight are gone, the database stays.
Restart ==
  /\ \E r \in Requests : req[r] # Idle
  /\ req' = [r \in Requests |-> Idle]
  /\ UNCHANGED <<payouts, completed, processed>>

Continue(r) ==
  \/ CreateSum(r) \/ CreateSave(r) \/ CreateNotify(r)
  \/ CancelSave(r) \/ ApproveSave(r) \/ RejectSave(r)
  \/ ProcessMark(r) \/ ProcessSave(r) \/ BatchSave(r)

Arrive(r) ==
  \/ \E c \in Creators : BatchFind(r, c) \/ \E amount \in Amounts : CreateCheck(r, c, amount)
  \/ \E p \in PayoutIds :
       CancelLoad(r, p) \/ ApproveLoad(r, p) \/ RejectLoad(r, p) \/ ProcessLoad(r, p)

Serve ==
  \/ \E r \in Requests : Continue(r) \/ Arrive(r)
  \/ \E t \in Transactions : handleNewSale(t) \/ handleRefund(t)

Next == Serve \/ Restart

Spec == Init /\ [][Next]_vars

-----------------------------------------------------------------------------
(* Properties.                                                             *)

\* No transaction counts as paid out unless an administrator approved, at
\* some time, a request of its creator that covers it: neither a restart, a
\* stale save nor the batch endpoint bypasses the approval.
PaidOnlyIfApproved ==
  \A t \in processed :
    \E p \in Live : /\ t \in payouts[p].transactions
                    /\ payouts[p].creator = Payee[t]
                    /\ payouts[p].adminNotes

\* A request recorded as processed has all its transactions settled, whatever
\* interrupted or raced markProcessed between its two writes.
ProcessedIsSettled ==
  \A p \in Live : payouts[p].status = "processed" =>
    payouts[p].adminNotes /\ payouts[p].transactions \subseteq processed

\* The createPayoutRequest calls of a creator that have passed the check for a
\* pending request and have not inserted theirs.
Creating(c) ==
  {r \in Requests : (At(r, "create_sum") \/ At(r, "create_save")) /\ req[r].creator = c}

\* The check for a pending request and the insert are two database calls, so
\* overlapping calls of a creator may all pass. No more than those: a creator's
\* pending requests, stored or still to be inserted, are at most as many as are
\* served at the same time, however they are decided meanwhile.
PendingWithinOverlap ==
  \A c \in Creators :
    Cardinality(Pending(c)) + Cardinality(Creating(c)) <= Cardinality(Requests)

\* What a request holds in memory still agrees with the collection when it
\* is written: the inductive strengthening of the invariants on settlement.
HeldConsistent(q) ==
  /\ q.pc = "create_save" => \A t \in q.transactions : Payee[t] = q.creator
  /\ q.pc \in DocSteps => q.id \in Live
  /\ q.pc \in {"process_mark", "process_save"} => payouts[q.id].adminNotes
  /\ q.pc = "process_save" => payouts[q.id].transactions \subseteq processed

SettlementInv ==
  /\ PaidOnlyIfApproved
  /\ ProcessedIsSettled
  /\ \A p \in Live : /\ \A t \in payouts[p].transactions : Payee[t] = payouts[p].creator
                     /\ payouts[p].status = "approved" => payouts[p].adminNotes
  /\ \A r \in Requests : req[r] # Idle => HeldConsistent(req[r])

PaidTo(c) ==
  {p \in Live : payouts[p].creator = c /\ payouts[p].status = "processed"}

\* "Insufficient funds": the payouts processed for a creator do not exceed
\* what all the transactions with the creator earn together.
NoOverpayment ==
  \A c \in Creators :
    MapThenSumSet(LAMBDA p : payouts[p].requestedAmount, PaidTo(c))
      <= TotalEarnings({t \in Transactions : Payee[t] = c})

=============================================================================
