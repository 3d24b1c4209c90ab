---------------------------- MODULE PayoutsProofs ----------------------------
(***************************************************************************)
(* Proofs about Payouts for any number of creators, transactions, payout   *)
(* requests and concurrent HTTP requests: nothing is paid without approval,*)
(* a processed request is settled, and a creator never has more requests   *)
(* pending than are served at the same time.                               *)
(***************************************************************************)
EXTENDS Payouts, FiniteSetTheorems, TLAPS

-----------------------------------------------------------------------------
(* Type correctness.                                                       *)

\* A request at a step has the shape of that step.
LEMMA RequestShape ==
  ASSUME TypeOK, NEW r \in Requests
  PROVE  /\ At(r, "create_sum") \/ At(r, "create_save") => req[r] \in CreateRequest
         /\ At(r, "batch_save") => req[r] \in BatchRequest
         /\ \A step \in DocSteps : At(r, step) => req[r] \in DocRequest
<1>1. req[r] \in {Idle} \cup CreateRequest \cup BatchRequest \cup DocRequest
  BY DEF TypeOK
<1>2. /\ req[r] \in CreateRequest => req[r].pc \in {"create_sum", "create_save"}
      /\ req[r] \in BatchRequest => req[r].pc = "batch_save"
      /\ req[r] \in DocRequest => req[r].pc \in DocSteps
  BY DEF CreateRequest, BatchRequest, DocRequest
<1> QED
  BY <1>1, <1>2 DEF At, DocSteps

\* A stored payout request is a document of the schema.
LEMMA LiveType ==
  ASSUME TypeOK, NEW p \in Live PROVE p \in PayoutIds /\ payouts[p] \in PayoutRequest
BY DEF TypeOK, Live

\* The _id a request holds names a stored document.
LEMMA HeldIsLive ==
  ASSUME TypeOK, SettlementInv, NEW r \in Requests, NEW step \in DocSteps, At(r, step)
  PROVE  /\ req[r].id \in Live
         /\ payouts[req[r].id] \in PayoutRequest
         /\ req[r].id \in PayoutIds
<1>1. req[r] # Idle /\ req[r].pc \in DocSteps
  BY DEF At
<1>2. req[r].id \in Live
  BY <1>1 DEF SettlementInv, HeldConsistent
<1> QED
  BY <1>2, LiveType

\* Saving an edited document keeps the types.
LEMMA SaveTypes ==
  ASSUME TypeOK, NEW r \in Requests, NEW step, NEW doc \in PayoutRequest,
         Save(r, step, doc)
  PROVE  TypeOK'
BY Zenon DEF TypeOK, Save, Goto

\* Loading keeps the types.
LEMMA LoadTypes ==
  ASSUME TypeOK, NEW r \in Requests, NEW p, NEW status, NEW step \in DocSteps,
         Load(r, p, status, step)
  PROVE  TypeOK'
<1>1. [pc |-> step, id |-> p] \in DocRequest
  BY DEF Load, Live, DocRequest
<1> QED
  BY <1>1 DEF TypeOK, Load, Goto

\* Every step keeps the types, given that held _ids name stored documents.
LEMMA TypeStep == TypeOK /\ SettlementInv /\ [Next]_vars => TypeOK'
<1> SUFFICES ASSUME TypeOK, SettlementInv, [Next]_vars PROVE TypeOK'
  OBVIOUS
<1>1. ASSUME NEW r \in Requests, Continue(r) PROVE TypeOK'
  <2>1. CASE CreateSum(r)
    <3>1. req[r] \in CreateRequest
      BY <2>1, RequestShape DEF CreateSum
    <3>2. [req[r] EXCEPT !.pc = "create_save", !.transactions = Eligible(req[r].creator)]
            \in CreateRequest
      BY Zenon, <3>1 DEF CreateRequest, Eligible, TypeOK
    <3> QED
      BY <2>1, <3>2 DEF CreateSum, Goto, TypeOK
  <2>2. CASE CreateSave(r)
    <3>1. req[r] \in CreateRequest
      BY <2>2, RequestShape DEF CreateSave
    <3> DEFINE doc == [creator |-> req[r].creator, requestedAmount |-> req[r].amount,
                       transactions |-> req[r].transactions, status |-> "pending",
                       adminNotes |-> FALSE, rejectionReason |-> FALSE]
    <3>2. doc \in PayoutRequest
      BY <3>1 DEF CreateRequest, PayoutRequest, Statuses
    <3>3. PICK p \in PayoutIds : /\ payouts' = [payouts EXCEPT ![p] = doc]
                                 /\ Goto(r, [pc |-> "create_notify", id |-> p])
      BY Zenon, <2>2 DEF CreateSave
    <3>4. [pc |-> "create_notify", id |-> p] \in DocRequest
      BY DEF DocRequest, DocSteps
    <3> HIDE DEF doc
    <3> QED
      BY Zenon, <2>2, <3>2, <3>3, <3>4 DEF CreateSave, Goto, TypeOK
  <2>3. CASE CreateNotify(r)
    BY <2>3 DEF CreateNotify, Goto, TypeOK
  <2>4. CASE CancelSave(r)
    <3>1. payouts[req[r].id] \in PayoutRequest
      BY <2>4, HeldIsLive DEF CancelSave, Save, DocSteps
    <3>2. [payouts[req[r].id] EXCEPT !.status = "cancelled"] \in PayoutRequest
      BY <3>1 DEF PayoutRequest, Statuses
    <3> QED
      BY <2>4, <3>2, SaveTypes DEF CancelSave
  <2>5. CASE ApproveSave(r)
    <3>1. payouts[req[r].id] \in PayoutRequest
      BY <2>5, HeldIsLive DEF ApproveSave, Save, DocSteps
    <3>2. [payouts[req[r].id] EXCEPT !.status = "approved", !.adminNotes = TRUE] \in PayoutRequest
      BY Zenon, <3>1 DEF PayoutRequest, Statuses
    <3> QED
      BY <2>5, <3>2, SaveTypes DEF ApproveSave
  <2>6. CASE RejectSave(r)
    <3>1. payouts[req[r].id] \in PayoutRequest
      BY <2>6, HeldIsLive DEF RejectSave, Save, DocSteps
    <3>2. [payouts[req[r].id] EXCEPT !.status = "rejected", !.rejectionReason = TRUE]
            \in PayoutRequest
      BY Zenon, <3>1 DEF PayoutRequest, Statuses
    <3> QED
      BY <2>6, <3>2, SaveTypes DEF RejectSave
  <2>7. CASE ProcessMark(r)
    <3>1. payouts[req[r].id] \in PayoutRequest /\ req[r] \in DocRequest
      BY <2>7, HeldIsLive, RequestShape DEF ProcessMark, DocSteps
    <3>2. [req[r] EXCEPT !.pc = "process_save"] \in DocRequest
      BY <3>1 DEF DocRequest, DocSteps
    <3>3. payouts[req[r].id].transactions \subseteq Transactions
      BY <3>1 DEF PayoutRequest
    <3> QED
      BY <2>7, <3>2, <3>3 DEF ProcessMark, Goto, TypeOK
  <2>8. CASE ProcessSave(r)
    <3>1. payouts[req[r].id] \in PayoutRequest
      BY <2>8, HeldIsLive DEF ProcessSave, Save, DocSteps
    <3>2. [payouts[req[r].id] EXCEPT !.status = "processed"] \in PayoutRequest
      BY <3>1 DEF PayoutRequest, Statuses
    <3> QED
      BY <2>8, <3>2, SaveTypes DEF ProcessSave
  <2>9. CASE BatchSave(r)
    <3>1. req[r].transactions \subseteq Transactions
      BY <2>9, RequestShape DEF BatchSave, BatchRequest
    <3> QED
      BY <2>9, <3>1 DEF BatchSave, Goto, TypeOK
  <2> QED
    BY <1>1, <2>1, <2>2, <2>3, <2>4, <2>5, <2>6, <2>7, <2>8, <2>9 DEF Continue
<1>2. ASSUME NEW r \in Requests, Arrive(r) PROVE TypeOK'
  <2>1. ASSUME NEW c \in Creators, BatchFind(r, c) PROVE TypeOK'
    <3>1. [pc |-> "batch_save", transactions |-> Eligible(c)] \in BatchRequest
      BY DEF BatchRequest, Eligible, TypeOK
    <3> QED
      BY <2>1, <3>1 DEF BatchFind, Goto, TypeOK
  <2>2. ASSUME NEW c \in Creators, NEW amount \in Amounts, CreateCheck(r, c, amount)
        PROVE  TypeOK'
    <3>1. [pc |-> "create_sum", creator |-> c, amount |-> amount, transactions |-> {}]
            \in CreateRequest
      BY DEF CreateRequest
    <3> QED
      BY <2>2, <3>1 DEF CreateCheck, Goto, TypeOK
  <2>3. ASSUME NEW p \in PayoutIds,
               CancelLoad(r, p) \/ ApproveLoad(r, p) \/ RejectLoad(r, p) \/ ProcessLoad(r, p)
        PROVE  TypeOK'
    BY <2>3, LoadTypes DEF CancelLoad, ApproveLoad, RejectLoad, ProcessLoad, DocSteps
  <2> QED
    BY <1>2, <2>1, <2>2, <2>3 DEF Arrive
<1>3. ASSUME NEW t \in Transactions, handleNewSale(t) \/ handleRefund(t) PROVE TypeOK'
  BY <1>3 DEF handleNewSale, handleRefund, TypeOK
<1>4. CASE Restart \/ UNCHANGED vars
  BY <1>4 DEF Restart, vars, TypeOK
<1> QED
  BY <1>1, <1>2, <1>3, <1>4 DEF Next, Serve

-----------------------------------------------------------------------------
(* Settlement.                                                             *)

\* A request may change what it holds, if that agrees with the collection.
LEMMA HoldSettled ==
  ASSUME TypeOK, SettlementInv, NEW r \in Requests, NEW q,
         q = Idle \/ HeldConsistent(q),
         payouts' = payouts, processed' = processed, Goto(r, q)
  PROVE  SettlementInv'
<1>1. Live' = Live
  BY DEF Live
<1>2. \A s \in Requests : req'[s] = IF s = r THEN q ELSE req[s]
  BY DEF Goto, TypeOK
<1>3. \A s \in Requests : req'[s] # Idle => HeldConsistent(req[s])'
  BY <1>1, <1>2 DEF SettlementInv, HeldConsistent
<1>4. PaidOnlyIfApproved' /\ ProcessedIsSettled'
  BY <1>1 DEF SettlementInv, PaidOnlyIfApproved, ProcessedIsSettled
<1> QED
  BY <1>1, <1>3, <1>4 DEF SettlementInv

\* Saving an edit of a stored request that keeps what it covers and never
\* takes an approval back.
LEMMA EditSettled ==
  ASSUME TypeOK, SettlementInv, NEW r \in Requests, NEW p \in Live, NEW doc \in PayoutRequest,
         doc.creator = payouts[p].creator,
         doc.requestedAmount = payouts[p].requestedAmount,
         doc.transactions = payouts[p].transactions,
         payouts[p].adminNotes => doc.adminNotes,
         doc.status \in {"approved", "processed"} => doc.adminNotes,
         doc.status = "processed" => doc.transactions \subseteq processed,
         payouts' = [payouts EXCEPT ![p] = doc], processed' = processed, Goto(r, Idle)
  PROVE  SettlementInv'
<1>1. p \in PayoutIds /\ payouts'[p] = doc
  BY LiveType DEF TypeOK
<1>2. \A e \in Live : e # p => payouts'[e] = payouts[e]
  BY DEF TypeOK, Live
<1>3. Live' = Live
  BY <1>1, SentinelsAssumption DEF Live, TypeOK
<1>4. /\ \A e \in Live : /\ payouts'[e].creator = payouts[e].creator
                         /\ payouts'[e].requestedAmount = payouts[e].requestedAmount
                         /\ payouts'[e].transactions = payouts[e].transactions
                         /\ payouts[e].adminNotes => payouts'[e].adminNotes
  BY <1>1, <1>2
<1>5. \A s \in Requests : req'[s] # Idle => HeldConsistent(req[s])'
  <2>1. ASSUME NEW s \in Requests, req'[s] # Idle PROVE HeldConsistent(req[s])'
    <3>1. req'[s] = req[s] /\ HeldConsistent(req[s])
      BY <2>1 DEF Goto, TypeOK, SettlementInv
    <3> QED
      BY <3>1, <1>3, <1>4 DEF HeldConsistent, DocSteps
  <2> QED
    BY <2>1
<1>6. PaidOnlyIfApproved'
  BY <1>3, <1>4 DEF SettlementInv, PaidOnlyIfApproved
<1>7. ProcessedIsSettled'
  BY <1>1, <1>2, <1>3 DEF SettlementInv, ProcessedIsSettled
<1>8. \A e \in Live' : /\ \A t \in payouts'[e].transactions : Payee[t] = payouts'[e].creator
                       /\ payouts'[e].status = "approved" => payouts'[e].adminNotes
  BY <1>1, <1>2, <1>3, <1>4 DEF SettlementInv
<1> QED
  BY <1>5, <1>6, <1>7, <1>8 DEF SettlementInv

\* Inserting a request that covers its creator's transactions.
LEMMA InsertSettled ==
  ASSUME TypeOK, SettlementInv, NEW r \in Requests, CreateSave(r)
  PROVE  SettlementInv'
<1> DEFINE doc == [creator |-> req[r].creator, requestedAmount |-> req[r].amount,
                   transactions |-> req[r].transactions, status |-> "pending",
                   adminNotes |-> FALSE, rejectionReason |-> FALSE]
<1>1. req[r] \in CreateRequest /\ HeldConsistent(req[r]) /\ req[r].pc = "create_save"
  BY RequestShape DEF CreateSave, At, SettlementInv
<1>2. /\ \A t \in doc.transactions : Payee[t] = doc.creator
      /\ doc.status = "pending"
  BY <1>1 DEF HeldConsistent
<1>3. doc \in PayoutRequest
  BY <1>1 DEF CreateRequest, PayoutRequest, Statuses
<1>4. PICK p \in PayoutIds \ Live : /\ payouts' = [payouts EXCEPT ![p] = doc]
                                    /\ Goto(r, [pc |-> "create_notify", id |-> p])
  BY Zenon DEF CreateSave
<1> HIDE DEF doc
<1>5. payouts'[p] = doc /\ \A e \in Live : payouts'[e] = payouts[e]
  BY <1>4 DEF TypeOK, Live
<1>6. Live' = Live \cup {p}
  BY <1>3, <1>4, SentinelsAssumption DEF Live, TypeOK
<1>7. processed' = processed
  BY DEF CreateSave
<1>8. \A s \in Requests : req'[s] # Idle => HeldConsistent(req[s])'
  <2>1. ASSUME NEW s \in Requests, req'[s] # Idle PROVE HeldConsistent(req[s])'
    <3>1. CASE s = r
      BY <3>1, <1>4, <1>6 DEF Goto, TypeOK, HeldConsistent, DocSteps
    <3>2. CASE s # r
      <4>1. req'[s] = req[s] /\ HeldConsistent(req[s])
        BY <2>1, <3>2, <1>4 DEF Goto, TypeOK, SettlementInv
      <4> QED
        BY <4>1, <1>5, <1>6, <1>7 DEF HeldConsistent, DocSteps
    <3> QED
      BY <3>1, <3>2
  <2> QED
    BY <2>1
<1>9. PaidOnlyIfApproved'
  BY <1>5, <1>6, <1>7 DEF SettlementInv, PaidOnlyIfApproved
<1>10. ProcessedIsSettled'
  BY <1>2, <1>5, <1>6, <1>7 DEF SettlementInv, ProcessedIsSettled
<1>11. \A e \in Live' : /\ \A t \in payouts'[e].transactions : Payee[t] = payouts'[e].creator
                        /\ payouts'[e].status = "approved" => payouts'[e].adminNotes
  BY <1>2, <1>5, <1>6 DEF SettlementInv
<1> QED
  BY <1>8, <1>9, <1>10, <1>11 DEF SettlementInv

\* Marking the transactions of an approved request.
LEMMA MarkSettled ==
  ASSUME TypeOK, SettlementInv, NEW r \in Requests, ProcessMark(r)
  PROVE  SettlementInv'
<1> DEFINE p == req[r].id
<1>1. req[r] \in DocRequest /\ p \in Live /\ payouts[p].adminNotes
  BY RequestShape, HeldIsLive DEF ProcessMark, At, SettlementInv, HeldConsistent, DocSteps
<1>2. /\ processed' = processed \cup payouts[p].transactions /\ payouts' = payouts
      /\ Live' = Live
  BY DEF ProcessMark, Live
<1>3. \A s \in Requests : req'[s] # Idle => HeldConsistent(req[s])'
  <2>1. ASSUME NEW s \in Requests, req'[s] # Idle PROVE HeldConsistent(req[s])'
    <3>1. CASE s = r
      <4>1. req'[r].pc = "process_save" /\ req'[r].id = p
        BY <1>1 DEF ProcessMark, Goto, TypeOK, DocRequest
      <4> QED
        BY <3>1, <4>1, <1>1, <1>2 DEF HeldConsistent, DocSteps
    <3>2. CASE s # r
      <4>1. req'[s] = req[s] /\ HeldConsistent(req[s])
        BY <2>1, <3>2 DEF ProcessMark, Goto, TypeOK, SettlementInv
      <4> QED
        BY <4>1, <1>2 DEF HeldConsistent, DocSteps
    <3> QED
      BY <3>1, <3>2
  <2> QED
    BY <2>1
<1>4. PaidOnlyIfApproved'
  BY <1>1, <1>2 DEF SettlementInv, PaidOnlyIfApproved
<1>5. ProcessedIsSettled'
  BY <1>2 DEF SettlementInv, ProcessedIsSettled
<1> QED
  BY <1>2, <1>3, <1>4, <1>5 DEF SettlementInv

\* Every step keeps the settlement invariant.
LEMMA SettlementStep == TypeOK /\ SettlementInv /\ [Next]_vars => SettlementInv'
<1> SUFFICES ASSUME TypeOK, SettlementInv, [Next]_vars PROVE SettlementInv'
  OBVIOUS
<1>1. ASSUME NEW r \in Requests, Continue(r) PROVE SettlementInv'
  <2>1. CASE CreateSum(r)
    <3>1. req[r] \in CreateRequest
      BY <2>1, RequestShape DEF CreateSum
    <3> DEFINE q == [req[r] EXCEPT !.pc = "create_save",
                                   !.transactions = Eligible(req[r].creator)]
    <3>2. /\ q.pc = "create_save" /\ q.creator = req[r].creator
          /\ q.transactions = Eligible(req[r].creator)
      BY <3>1 DEF CreateRequest
    <3>3. HeldConsistent(q)
      BY <3>2 DEF HeldConsistent, DocSteps, Eligible
    <3>4. Goto(r, Idle) \/ Goto(r, q)
      BY <2>1 DEF CreateSum
    <3> HIDE DEF q
    <3> QED
      BY <2>1, <3>3, <3>4, HoldSettled DEF CreateSum
  <2>2. CASE CreateSave(r)
    BY <2>2, InsertSettled
  <2>3. CASE CreateNotify(r)
    BY <2>3, HoldSettled DEF CreateNotify
  <2>4. CASE CancelSave(r)
    <3>1. req[r].id \in Live /\ payouts[req[r].id] \in PayoutRequest
      BY <2>4, HeldIsLive DEF CancelSave, Save, DocSteps
    <3> DEFINE doc == [payouts[req[r].id] EXCEPT !.status = "cancelled"]
    <3>2. /\ doc \in PayoutRequest
          /\ doc.creator = payouts[req[r].id].creator
          /\ doc.requestedAmount = payouts[req[r].id].requestedAmount
          /\ doc.transactions = payouts[req[r].id].transactions
          /\ doc.adminNotes = payouts[req[r].id].adminNotes
          /\ doc.status = "cancelled"
      BY <3>1 DEF PayoutRequest, Statuses
    <3>3. Save(r, "cancel_save", doc)
      BY <2>4 DEF CancelSave
    <3> HIDE DEF doc
    <3> QED
      BY Zenon, <3>1, <3>2, <3>3, EditSettled DEF Save
  <2>5. CASE ApproveSave(r)
    <3>1. req[r].id \in Live /\ payouts[req[r].id] \in PayoutRequest
      BY <2>5, HeldIsLive DEF ApproveSave, Save, DocSteps
    <3> DEFINE doc == [payouts[req[r].id] EXCEPT !.status = "approved", !.adminNotes = TRUE]
    <3>2. /\ doc \in PayoutRequest
          /\ doc.creator = payouts[req[r].id].creator
          /\ doc.requestedAmount = payouts[req[r].id].requestedAmount
          /\ doc.transactions = payouts[req[r].id].transactions
          /\ doc.adminNotes /\ doc.status = "approved"
      BY Zenon, <3>1 DEF PayoutRequest, Statuses
    <3>3. Save(r, "approve_save", doc)
      BY <2>5 DEF ApproveSave
    <3> HIDE DEF doc
    <3> QED
      BY Zenon, <3>1, <3>2, <3>3, EditSettled DEF Save
  <2>6. CASE RejectSave(r)
    <3>1. req[r].id \in Live /\ payouts[req[r].id] \in PayoutRequest
      BY <2>6, HeldIsLive DEF RejectSave, Save, DocSteps
    <3> DEFINE doc == [payouts[req[r].id] EXCEPT !.status = "rejected", !.rejectionReason = TRUE]
    <3>2. /\ doc \in PayoutRequest
          /\ doc.creator = payouts[req[r].id].creator
          /\ doc.requestedAmount = payouts[req[r].id].requestedAmount
          /\ doc.transactions = payouts[req[r].id].transactions
          /\ doc.adminNotes = payouts[req[r].id].adminNotes
          /\ doc.status = "rejected"
      BY Zenon, <3>1 DEF PayoutRequest, Statuses
    <3>3. Save(r, "reject_save", doc)
      BY <2>6 DEF RejectSave
    <3> HIDE DEF doc
    <3> QED
      BY Zenon, <3>1, <3>2, <3>3, EditSettled DEF Save
  <2>7. CASE ProcessMark(r)
    BY <2>7, MarkSettled
  <2>8. CASE ProcessSave(r)
    <3>1. req[r].id \in Live /\ payouts[req[r].id] \in PayoutRequest
      BY <2>8, HeldIsLive DEF ProcessSave, Save, DocSteps
    <3>2. /\ payouts[req[r].id].adminNotes
          /\ payouts[req[r].id].transactions \subseteq processed
      BY <2>8 DEF ProcessSave, Save, At, SettlementInv, HeldConsistent
    <3> DEFINE doc == [payouts[req[r].id] EXCEPT !.status = "processed"]
    <3>3. /\ doc \in PayoutRequest
          /\ doc.creator = payouts[req[r].id].creator
          /\ doc.requestedAmount = payouts[req[r].id].requestedAmount
          /\ doc.transactions = payouts[req[r].id].transactions
          /\ doc.adminNotes /\ doc.status = "processed"
      BY <3>1, <3>2 DEF PayoutRequest, Statuses
    <3>4. Save(r, "process_save", doc)
      BY <2>8 DEF ProcessSave
    <3> HIDE DEF doc
    <3> QED
      BY Zenon, <3>1, <3>2, <3>3, <3>4, EditSettled DEF Save
  <2>9. CASE BatchSave(r)
    <3>1. ~BatchValid(TotalEarnings(req[r].transactions))
      BY DEF BatchValid, RequiredPaths, BatchPaths
    <3> QED
      BY <2>9, <3>1, HoldSettled DEF BatchSave
  <2> QED
    BY <1>1, <2>1, <2>2, <2>3, <2>4, <2>5, <2>6, <2>7, <2>8, <2>9 DEF Continue
<1>2. ASSUME NEW r \in Requests, Arrive(r) PROVE SettlementInv'
  <2>1. ASSUME NEW c \in Creators, BatchFind(r, c) PROVE SettlementInv'
    <3>1. HeldConsistent([pc |-> "batch_save", transactions |-> Eligible(c)])
      BY DEF HeldConsistent, DocSteps
    <3> QED
      BY <2>1, <3>1, HoldSettled DEF BatchFind
  <2>2. ASSUME NEW c \in Creators, NEW amount \in Amounts, CreateCheck(r, c, amount)
        PROVE  SettlementInv'
    <3>1. HeldConsistent([pc |-> "create_sum", creator |-> c, amount |-> amount,
                          transactions |-> {}])
      BY DEF HeldConsistent, DocSteps
    <3> QED
      BY <2>2, <3>1, HoldSettled DEF CreateCheck
  <2>3. ASSUME NEW p \in PayoutIds, NEW step \in {"cancel_save", "approve_save", "reject_save"},
               Load(r, p, "pending", step)
        PROVE  SettlementInv'
    <3>1. HeldConsistent([pc |-> step, id |-> p])
      BY <2>3 DEF HeldConsistent, Load
    <3> QED
      BY <2>3, <3>1, HoldSettled DEF Load
  <2>4. ASSUME NEW p \in PayoutIds, ProcessLoad(r, p) PROVE SettlementInv'
    <3>1. HeldConsistent([pc |-> "process_mark", id |-> p])
      BY <2>4 DEF HeldConsistent, ProcessLoad, Load, SettlementInv
    <3> QED
      BY <2>4, <3>1, HoldSettled DEF ProcessLoad, Load
  <2> QED
    BY <1>2, <2>1, <2>2, <2>3, <2>4 DEF Arrive, CancelLoad, ApproveLoad, RejectLoad
<1>3. ASSUME NEW t \in Transactions, handleNewSale(t) \/ handleRefund(t) PROVE SettlementInv'
  BY <1>3 DEF handleNewSale, handleRefund, SettlementInv, PaidOnlyIfApproved,
     ProcessedIsSettled, HeldConsistent, Live
<1>4. CASE Restart
  BY <1>4 DEF Restart, SettlementInv, PaidOnlyIfApproved, ProcessedIsSettled, Live
<1>5. CASE UNCHANGED vars
  BY <1>5 DEF vars, SettlementInv, PaidOnlyIfApproved, ProcessedIsSettled, HeldConsistent, Live
<1> QED
  BY <1>1, <1>2, <1>3, <1>4, <1>5 DEF Next, Serve

\* Types and settlement hold together in every reachable state.
LEMMA Invariance == Spec => [](TypeOK /\ SettlementInv)
<1>1. Init => TypeOK /\ SettlementInv
  BY DEF Init, TypeOK, SettlementInv, PaidOnlyIfApproved, ProcessedIsSettled, Live
<1> QED
  BY <1>1, TypeStep, SettlementStep, PTL DEF Spec

\* Payout requests keep the types of the schema.
THEOREM TypeCorrect == Spec => []TypeOK
BY Invariance, PTL

\* SettlementInv holds in every reachable state: a handler of markProcessed cut
\* off or overtaken between its writes leaves nothing it cannot be repeated on.
THEOREM SettlementInvariant == Spec => []SettlementInv
BY Invariance, PTL

\* Nothing is paid out without an administrator's approval of a request of
\* the right creator, however handlers interleave, fail or are cut off.
THEOREM ApprovalBeforePayout == Spec => []PaidOnlyIfApproved
BY Invariance, PTL DEF SettlementInv

\* A request recorded as processed was approved and has all its transactions
\* settled, also when markProcessed is interrupted or overtaken.
THEOREM ProcessedSettled == Spec => []ProcessedIsSettled
BY Invariance, PTL DEF SettlementInv

-----------------------------------------------------------------------------
(* Pending requests.                                                       *)

\* The sets that are counted are finite.
LEMMA FiniteCounts ==
  ASSUME NEW c
  PROVE  /\ IsFiniteSet(Pending(c)) /\ Cardinality(Pending(c)) \in Nat
         /\ IsFiniteSet(Creating(c)) /\ Cardinality(Creating(c)) \in Nat
         /\ Cardinality(Creating(c)) <= Cardinality(Requests)
         /\ Cardinality(Requests) \in Nat
<1>1. Pending(c) \subseteq PayoutIds /\ Creating(c) \subseteq Requests
  BY DEF Pending, Live, Creating
<1> QED
  BY <1>1, FiniteAssumption, FS_Subset, FS_CardinalityType

\* A step that adds neither a pending request of a creator nor a call that is
\* to insert one keeps the bound for that creator.
LEMMA FewerPending ==
  ASSUME NEW c \in Creators, PendingWithinOverlap,
         Pending(c)' \subseteq Pending(c), Creating(c)' \subseteq Creating(c)
  PROVE  Cardinality(Pending(c)') + Cardinality(Creating(c)') <= Cardinality(Requests)
<1>1. /\ Cardinality(Pending(c)') <= Cardinality(Pending(c))
      /\ Cardinality(Creating(c)') <= Cardinality(Creating(c))
      /\ Cardinality(Pending(c)') \in Nat /\ Cardinality(Creating(c)') \in Nat
  BY FiniteCounts, FS_Subset, FS_CardinalityType
<1>2. Cardinality(Pending(c)) + Cardinality(Creating(c)) <= Cardinality(Requests)
  BY DEF PendingWithinOverlap
<1> QED
  BY <1>1, <1>2, FiniteCounts

\* A request that goes on without a call to insert left, while no document
\* becomes pending.
LEMMA DecidedOverlap ==
  ASSUME TypeOK, PendingWithinOverlap, NEW r \in Requests, NEW q, Goto(r, q),
         q # Idle /\ q.pc \in {"create_sum", "create_save"} =>
           req[r] # Idle /\ req[r].pc \in {"create_sum", "create_save"}
                         /\ req[r].creator = q.creator,
         \A c \in Creators : Pending(c)' \subseteq Pending(c)
  PROVE  PendingWithinOverlap'
<1>1. \A s \in Requests : req'[s] = IF s = r THEN q ELSE req[s]
  BY DEF Goto, TypeOK
<1>2. ASSUME NEW c \in Creators PROVE Creating(c)' \subseteq Creating(c)
  BY <1>1 DEF Creating, At
<1> QED
  BY <1>2, FewerPending DEF PendingWithinOverlap

\* Saving a decision, after which the request is not pending.
LEMMA SaveOverlap ==
  ASSUME TypeOK, PendingWithinOverlap, NEW r \in Requests, NEW step, NEW doc,
         doc.status # "pending", req[r].id \in PayoutIds, Save(r, step, doc)
  PROVE  PendingWithinOverlap'
<1>1. /\ Goto(r, Idle)
      /\ \A e \in PayoutIds : payouts'[e] = IF e = req[r].id THEN doc ELSE payouts[e]
  BY DEF Save, TypeOK
<1>2. ASSUME NEW c \in Creators PROVE Pending(c)' \subseteq Pending(c)
  BY <1>1 DEF Pending, Live
<1> QED
  BY <1>1, <1>2, DecidedOverlap

\* A call that finds no pending request of its creator starts: all those to be
\* inserted belong to requests now served.
LEMMA CheckOverlap ==
  ASSUME TypeOK, PendingWithinOverlap, NEW r \in Requests, NEW d \in Creators,
         NEW amount \in Amounts, CreateCheck(r, d, amount)
  PROVE  PendingWithinOverlap'
<1> DEFINE q == [pc |-> "create_sum", creator |-> d, amount |-> amount, transactions |-> {}]
<1>1. \A s \in Requests : req'[s] = IF s = r THEN q ELSE req[s]
  BY DEF CreateCheck, Goto, TypeOK
<1>2. \A c : Pending(c)' = Pending(c)
  BY DEF CreateCheck, Pending, Live
<1>3. ASSUME NEW c \in Creators
      PROVE  Cardinality(Pending(c)') + Cardinality(Creating(c)') <= Cardinality(Requests)
  <2>1. CASE c = d
    <3>1. Pending(c)' = {}
      BY <1>2, <2>1 DEF CreateCheck
    <3>2. Cardinality(Pending(c)') = 0
      BY <3>1, FS_EmptySet
    <3>3. Creating(c)' \subseteq Requests
      BY DEF Creating
    <3>4. /\ Cardinality(Creating(c)') <= Cardinality(Requests)
          /\ Cardinality(Creating(c)') \in Nat /\ Cardinality(Requests) \in Nat
      BY <3>3, FiniteAssumption, FS_Subset, FS_CardinalityType
    <3> QED
      BY <3>2, <3>4
  <2>2. CASE c # d
    <3>1. Creating(c)' \subseteq Creating(c)
      BY <1>1, <2>2 DEF Creating, At
    <3> QED
      BY <3>1, <1>2, FewerPending
  <2> QED
    BY <2>1, <2>2
<1> QED
  BY <1>3 DEF PendingWithinOverlap

\* An insert takes a call from those that have passed the check and adds a
\* pending request of the same creator.
LEMMA InsertOverlap ==
  ASSUME TypeOK, PendingWithinOverlap, NEW r \in Requests, CreateSave(r)
  PROVE  PendingWithinOverlap'
<1> DEFINE d == req[r].creator
<1> DEFINE doc == [creator |-> req[r].creator, requestedAmount |-> req[r].amount,
                   transactions |-> req[r].transactions, status |-> "pending",
                   adminNotes |-> FALSE, rejectionReason |-> FALSE]
<1>1. PICK p \in PayoutIds \ Live : /\ payouts' = [payouts EXCEPT ![p] = doc]
                                    /\ Goto(r, [pc |-> "create_notify", id |-> p])
  BY Zenon DEF CreateSave
<1>2. doc.creator = d
  OBVIOUS
<1> HIDE DEF doc
<1>3. \A e \in PayoutIds : payouts'[e] = IF e = p THEN doc ELSE payouts[e]
  BY <1>1 DEF TypeOK
<1>4. \A s \in Requests :
        req'[s] = IF s = r THEN [pc |-> "create_notify", id |-> p] ELSE req[s]
  BY <1>1 DEF Goto, TypeOK
<1>5. ASSUME NEW c \in Creators
      PROVE  Cardinality(Pending(c)') + Cardinality(Creating(c)') <= Cardinality(Requests)
  <2>1. CASE c = d
    <3>1. Pending(c)' \subseteq Pending(c) \cup {p}
      BY <1>3 DEF Pending, Live
    <3>2. Creating(c)' \subseteq Creating(c) \ {r}
      BY <1>4 DEF Creating, At
    <3>3. r \in Creating(c)
      BY <2>1 DEF CreateSave, Creating
    <3>4. p \notin Pending(c)
      BY <1>1 DEF Pending
    <3>5. /\ IsFiniteSet(Pending(c) \cup {p})
          /\ Cardinality(Pending(c) \cup {p}) = Cardinality(Pending(c)) + 1
      BY <3>4, FiniteCounts, FS_AddElement
    <3>6. /\ IsFiniteSet(Creating(c) \ {r})
          /\ Cardinality(Creating(c) \ {r}) = Cardinality(Creating(c)) - 1
      BY <3>3, FiniteCounts, FS_RemoveElement
    <3>7. /\ Cardinality(Pending(c)') <= Cardinality(Pending(c)) + 1
          /\ Cardinality(Pending(c)') \in Nat
      BY <3>1, <3>5, FS_Subset, FS_CardinalityType
    <3>8. /\ Cardinality(Creating(c)') <= Cardinality(Creating(c)) - 1
          /\ Cardinality(Creating(c)') \in Nat
      BY <3>2, <3>6, FS_Subset, FS_CardinalityType
    <3>9. Cardinality(Pending(c)) + Cardinality(Creating(c)) <= Cardinality(Requests)
      BY DEF PendingWithinOverlap
    <3> QED
      BY <3>7, <3>8, <3>9, FiniteCounts
  <2>2. CASE c # d
    <3>1. Pending(c)' \subseteq Pending(c)
      BY <1>2, <1>3, <2>2 DEF Pending, Live
    <3>2. Creating(c)' \subseteq Creating(c)
      BY <1>4 DEF Creating, At
    <3> QED
      BY <3>1, <3>2, FewerPending
  <2> QED
    BY <2>1, <2>2
<1> QED
  BY <1>5 DEF PendingWithinOverlap

\* Every step keeps a creator's pending requests within the overlap.
LEMMA OverlapStep ==
  TypeOK /\ SettlementInv /\ PendingWithinOverlap /\ [Next]_vars => PendingWithinOverlap'
<1> SUFFICES ASSUME TypeOK, SettlementInv, PendingWithinOverlap, [Next]_vars
             PROVE  PendingWithinOverlap'
  OBVIOUS
<1>1. ASSUME payouts' = payouts, NEW c PROVE Pending(c)' = Pending(c)
  BY <1>1 DEF Pending, Live
<1>2. ASSUME NEW r \in Requests, Continue(r) PROVE PendingWithinOverlap'
  <2>1. CASE CreateSum(r)
    <3> DEFINE q == [req[r] EXCEPT !.pc = "create_save",
                                   !.transactions = Eligible(req[r].creator)]
    <3>1. req[r] \in CreateRequest /\ req[r] # Idle
      BY <2>1, RequestShape DEF CreateSum, At
    <3>2. req[r].pc \in {"create_sum", "create_save"} /\ req[r].creator = q.creator
      BY <3>1 DEF CreateRequest
    <3>3. payouts' = payouts /\ (Goto(r, Idle) \/ Goto(r, q))
      BY <2>1 DEF CreateSum
    <3> HIDE DEF q
    <3> QED
      BY <3>1, <3>2, <3>3, <1>1, DecidedOverlap
  <2>2. CASE CreateSave(r)
    BY <2>2, InsertOverlap
  <2>3. CASE CreateNotify(r) \/ BatchSave(r)
    BY <2>3, <1>1, DecidedOverlap DEF CreateNotify, BatchSave
  <2>4. CASE CancelSave(r) \/ ApproveSave(r) \/ RejectSave(r) \/ ProcessSave(r)
    <3>1. payouts[req[r].id] \in PayoutRequest /\ req[r].id \in PayoutIds
      BY <2>4, HeldIsLive DEF CancelSave, ApproveSave, RejectSave, ProcessSave, Save, DocSteps
    <3> DEFINE d == payouts[req[r].id]
    <3>2. /\ [d EXCEPT !.status = "cancelled"].status = "cancelled"
          /\ [d EXCEPT !.status = "approved", !.adminNotes = TRUE].status = "approved"
          /\ [d EXCEPT !.status = "rejected", !.rejectionReason = TRUE].status = "rejected"
          /\ [d EXCEPT !.status = "processed"].status = "processed"
      BY <3>1 DEF PayoutRequest
    <3> QED
      BY <2>4, <3>1, <3>2, SaveOverlap DEF CancelSave, ApproveSave, RejectSave, ProcessSave
  <2>5. CASE ProcessMark(r)
    <3>1. req[r] \in DocRequest
      BY <2>5, RequestShape DEF ProcessMark, DocSteps
    <3>2. [req[r] EXCEPT !.pc = "process_save"].pc = "process_save"
      BY <3>1 DEF DocRequest
    <3> QED
      BY <2>5, <3>2, <1>1, DecidedOverlap DEF ProcessMark
  <2> QED
    BY <1>2, <2>1, <2>2, <2>3, <2>4, <2>5 DEF Continue
<1>3. ASSUME NEW r \in Requests, Arrive(r) PROVE PendingWithinOverlap'
  <2>1. ASSUME NEW c \in Creators, BatchFind(r, c) PROVE PendingWithinOverlap'
    BY <2>1, <1>1, DecidedOverlap DEF BatchFind
  <2>2. ASSUME NEW c \in Creators, NEW amount \in Amounts, CreateCheck(r, c, amount)
        PROVE  PendingWithinOverlap'
    BY <2>2, CheckOverlap
  <2>3. ASSUME NEW p \in PayoutIds, NEW status, NEW step \in DocSteps, Load(r, p, status, step)
        PROVE  PendingWithinOverlap'
    BY <2>3, <1>1, DecidedOverlap DEF Load, DocSteps
  <2> QED
    BY <1>3, <2>1, <2>2, <2>3
       DEF Arrive, CancelLoad, ApproveLoad, RejectLoad, ProcessLoad, DocSteps
<1>4. CASE \/ \E t \in Transactions : handleNewSale(t) \/ handleRefund(t)
           \/ Restart \/ UNCHANGED vars
  <2>1. payouts' = payouts /\ \A r \in Requests : req'[r] = req[r] \/ req'[r] = Idle
    BY <1>4 DEF handleNewSale, handleRefund, Restart, vars
  <2>2. ASSUME NEW c \in Creators
        PROVE  Pending(c)' \subseteq Pending(c) /\ Creating(c)' \subseteq Creating(c)
    BY <2>1, <1>1 DEF Creating, At
  <2> QED
    BY <2>2, FewerPending DEF PendingWithinOverlap
<1> QED
  BY <1>2, <1>3, <1>4 DEF Next, Serve

\* A creator's pending payout requests, with those that have passed the check
\* of createPayoutRequest and are still to be inserted, are never more than the
\* requests served at the same time.
THEOREM PendingBounded == Spec => []PendingWithinOverlap
<1>1. Init => PendingWithinOverlap
  <2> SUFFICES ASSUME Init, NEW c \in Creators
               PROVE  Cardinality(Pending(c)) + Cardinality(Creating(c)) <= Cardinality(Requests)
    BY DEF PendingWithinOverlap
  <2>1. Pending(c) = {} /\ Creating(c) = {}
    BY DEF Init, Pending, Live, Creating, At
  <2>2. Cardinality(Pending(c)) = 0 /\ Cardinality(Creating(c)) = 0
    BY <2>1, FS_EmptySet
  <2> QED
    BY <2>2, FiniteCounts
<1> QED
  BY <1>1, Invariance, OverlapStep, PTL DEF Spec

=============================================================================
