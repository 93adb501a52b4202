------------------------ MODULE AssessmentLedgerProofs ------------------------
(***************************************************************************)
(* PostgreSQL and MongoDB agree about the evidence of an assessment, and   *)
(* what is displayed is backed by both, for any number of assessments,     *)
(* payloads, collectors, consumers, owners and crashes.                    *)
(***************************************************************************)
EXTENDS AssessmentLedger, TLAPS

-----------------------------------------------------------------------------
(* Types, one variable at a time.                                          *)

LedgerRow == [status : {"none", "collecting", "frozen", "committed", "needs_review"},
              boundTo : {"run", "request"}, token : Nat, fence : Nat,
              lease : {"valid", "expired"}, manifest : SUBSET Payloads]
StagingRow == [owner : Nat, status :
                  {"none", "pending", "committed", "pending_compensation", "compensated"}]
DocumentRow == [owner : Nat, state : {"absent", "pending", "committed", "pending_compensation"}]
EventRow == [state : {"none", "pending", "published", "dead"}, tries : Nat]
CallSteps == {"collect", "reserve", "stage", "check", "freeze", "abort", "score", "commit"}
CallRow == [at : CallSteps, on : Assessments, token : Nat, fence : Nat, found : SUBSET Payloads,
            rest : SUBSET Payloads]
DeliverySteps == {"read", "verify", "commit", "show", "show_alert", "find", "compensate",
                  "remove", "mark", "done", "raise"}
DeliveryRow == [at : DeliverySteps, on : Assessments, kind : Kinds, rest : SUBSET Payloads,
                now : SUBSET Payloads]

LedgerTyped   == ledger \in [Assessments -> LedgerRow]
StagingTyped  == staging \in [Assessments -> [Payloads -> StagingRow]]
DocumentTyped == document \in [Assessments -> [Payloads -> DocumentRow]]
ShownTyped    == shown \in [Assessments -> [{"snapshot", "alert"} -> SUBSET Payloads]]
EventTyped    == event \in [Assessments -> [Kinds -> EventRow]]
RunTyped      == run \in [open : BOOLEAN, held : BOOLEAN, fence : Nat]
CallTyped     == call \in [Collectors -> {NoCall} \cup CallRow]
DeliveryTyped == delivery \in [Consumers -> {NoDelivery} \cup DeliveryRow]

LEMMA TypeParts ==
    TypeOK <=> /\ LedgerTyped /\ StagingTyped /\ DocumentTyped /\ ShownTyped /\ EventTyped
               /\ RunTyped /\ CallTyped /\ DeliveryTyped
BY DEF TypeOK, LedgerTyped, StagingTyped, DocumentTyped, ShownTyped, EventTyped, RunTyped,
       CallTyped, DeliveryTyped, LedgerRow, StagingRow, DocumentRow, EventRow, CallSteps, CallRow,
       DeliverySteps, DeliveryRow

-----------------------------------------------------------------------------
(* The invariant.                                                          *)

Backed(a, p) == document[a][p].state = "committed" /\ staging[a][p].status = "committed"

\* What a collector is about to store is reserved for it, and what it is about
\* to freeze is there, unless its assessment was given up meanwhile.
CallInOrder(c) ==
    LET a == call[c].on
    IN  /\ call[c].at \in {"reserve", "stage", "check", "freeze"} => call[c].found # {}
        /\ call[c].at = "stage" => \A p \in call[c].rest :
              staging[a][p].status # "none" /\ staging[a][p].owner = call[c].token
        /\ call[c].at = "freeze" =>
              ledger[a].status = "needs_review" \/ Verified(a, call[c].found, call[c].token)

\* A consumer works on an assessment whose status is final; what it has
\* committed so far is committed.
DeliveryInOrder(d) ==
    LET a == delivery[d].on
    IN  /\ delivery[d].at \in {"verify", "commit", "show", "show_alert"} =>
              ledger[a].status = "committed"
        /\ delivery[d].at \in {"find", "compensate", "remove", "mark"} =>
              ledger[a].status = "needs_review"
        /\ delivery[d].at = "commit" => \A p \in ledger[a].manifest \ delivery[d].rest :
              document[a][p].state = "committed"
        /\ delivery[d].at \in {"show", "show_alert"} => \A p \in ledger[a].manifest : Backed(a, p)

RemovalIsDue == \A a \in Assessments, p \in Payloads :
    document[a][p].state = "pending_compensation" => ledger[a].status = "needs_review"

Ordered == (\A c \in Collectors : CallInOrder(c)) /\ (\A d \in Consumers : DeliveryInOrder(d))

Inv == TypeOK /\ Ordered /\ RemovalIsDue /\ StoresAgree /\ DisplayIsBacked

LEMMA Initially == Init => Inv
<1> SUFFICES ASSUME Init PROVE Inv
    OBVIOUS
<1>1. TypeOK
  BY DEF Init, TypeOK, NoCall, NoDelivery, Absent, Kinds
<1>2. Ordered
  BY DEF Init, Ordered, CallInOrder, DeliveryInOrder, NoCall, NoDelivery
<1>3. RemovalIsDue /\ StoresAgree /\ DisplayIsBacked
  BY DEF Init, RemovalIsDue, StoresAgree, Registered, EvidenceIsKept, DisplayIsBacked, Stored, Absent
<1>4. QED  BY <1>1, <1>2, <1>3 DEF Inv

-----------------------------------------------------------------------------
(* How the local state of a process moves.                                 *)

LEMMA CallHasRow ==
    ASSUME CallTyped, NEW c \in Collectors, call[c].at # "idle"
    PROVE  call[c] \in CallRow
BY DEF CallTyped, NoCall

LEMMA DeliveryHasRow ==
    ASSUME DeliveryTyped, NEW d \in Consumers, delivery[d].at # "idle"
    PROVE  delivery[d] \in DeliveryRow
BY DEF DeliveryTyped, NoDelivery

\* A collector's step leaves the others alone.
LEMMA CallMoves ==
    ASSUME CallTyped, NEW c \in Collectors, NEW r \in {NoCall} \cup CallRow,
           call' = [call EXCEPT ![c] = r]
    PROVE  CallTyped' /\ call'[c] = r /\ \A x \in Collectors \ {c} : call'[x] = call[x]
BY DEF CallTyped

LEMMA DeliveryMoves ==
    ASSUME DeliveryTyped, NEW d \in Consumers, NEW r \in {NoDelivery} \cup DeliveryRow,
           delivery' = [delivery EXCEPT ![d] = r]
    PROVE  DeliveryTyped' /\ delivery'[d] = r /\ \A x \in Consumers \ {d} : delivery'[x] = delivery[x]
BY DEF DeliveryTyped

LEMMA GoesMoves ==
    ASSUME CallTyped, NEW c \in Collectors, call[c].at # "idle", NEW at \in CallSteps, Goes(c, at)
    PROVE  /\ CallTyped' /\ \A x \in Collectors \ {c} : call'[x] = call[x]
           /\ call'[c] = [call[c] EXCEPT !.at = at] /\ call'[c] \in CallRow
<1>1. call[c] \in CallRow  BY CallHasRow
<1>2. [call[c] EXCEPT !.at = at] \in CallRow  BY <1>1 DEF CallRow
<1>3. call' = [call EXCEPT ![c] = [call[c] EXCEPT !.at = at]]  BY DEF Goes
<1>4. QED  BY <1>2, <1>3, CallMoves

LEMMA TurnsMoves ==
    ASSUME DeliveryTyped, NEW d \in Consumers, delivery[d].at # "idle", NEW at \in DeliverySteps,
           Turns(d, at)
    PROVE  /\ DeliveryTyped' /\ \A x \in Consumers \ {d} : delivery'[x] = delivery[x]
           /\ delivery'[d] = [delivery[d] EXCEPT !.at = at] /\ delivery'[d] \in DeliveryRow
<1>1. delivery[d] \in DeliveryRow  BY DeliveryHasRow
<1>2. [delivery[d] EXCEPT !.at = at] \in DeliveryRow  BY <1>1 DEF DeliveryRow
<1>3. delivery' = [delivery EXCEPT ![d] = [delivery[d] EXCEPT !.at = at]]  BY DEF Turns
<1>4. QED  BY <1>2, <1>3, DeliveryMoves

-----------------------------------------------------------------------------
(* Types are kept.                                                         *)

Typed == /\ LedgerTyped /\ StagingTyped /\ DocumentTyped /\ ShownTyped /\ EventTyped
         /\ RunTyped /\ CallTyped /\ DeliveryTyped

LEMMA MarkedTyped ==
    ASSUME StagingTyped, NEW a \in Assessments,
           NEW status \in {"committed", "pending_compensation", "compensated"}, MarkedAs(a, status)
    PROVE  StagingTyped'
<1>1. \A p \in Payloads : /\ staging[a][p] \in StagingRow
                          /\ [staging[a][p] EXCEPT !.status = status] \in StagingRow
  BY DEF StagingTyped, StagingRow
<1>2. QED  BY <1>1 DEF StagingTyped, MarkedAs

LEMMA GivenUpTyped ==
    ASSUME LedgerTyped, StagingTyped, EventTyped, NEW a \in Assessments, GivenUp(a)
    PROVE  LedgerTyped' /\ StagingTyped' /\ EventTyped'
<1>1. StagingTyped'
  <2>1. MarkedAs(a, "pending_compensation")  BY DEF GivenUp, MarkedAs
  <2>2. QED  BY <2>1, MarkedTyped
<1>2. LedgerTyped'
  <2>1. [ledger[a] EXCEPT !.status = "needs_review"] \in LedgerRow  BY DEF LedgerTyped, LedgerRow
  <2>2. QED  BY <2>1 DEF LedgerTyped, GivenUp
<1>3. EventTyped'
  <2>1. [event[a]["reconcile"] EXCEPT !.state = "pending"] \in EventRow
    BY DEF EventTyped, EventRow, Kinds
  <2>2. QED  BY <2>1 DEF EventTyped, GivenUp, Kinds
<1>4. QED  BY <1>1, <1>2, <1>3

LEMMA BegunMoves ==
    ASSUME CallTyped, NEW c \in Collectors, NEW a \in Assessments, NEW token \in Nat,
           NEW fence \in Nat, Begun(c, a, token, fence)
    PROVE  /\ CallTyped' /\ \A x \in Collectors \ {c} : call'[x] = call[x]
           /\ call'[c] \in CallRow /\ call'[c].at = "collect" /\ call'[c].on = a
<1> DEFINE r == [at |-> "collect", on |-> a, token |-> token, fence |-> fence,
                 found |-> {}, rest |-> {}]
<1>1. r \in CallRow /\ r.at = "collect" /\ r.on = a  BY DEF CallRow, CallSteps
<1>2. call' = [call EXCEPT ![c] = r]  BY DEF Begun
<1> HIDE DEF r
<1>3. QED  BY <1>1, <1>2, CallMoves

LEMMA CollectingTyped ==
    ASSUME Typed, NEW c \in Collectors, Collecting(c)
    PROVE  Typed'
<1> USE DEF postgres, mongo
<1>1. ASSUME NEW a \in Assessments, BeginNew(c, a) PROVE Typed'
  <2>1. PICK b \in {"run", "request"} :
           /\ ledger' = [ledger EXCEPT ![a] =
                 [status |-> "collecting", boundTo |-> b, token |-> 1,
                  fence |-> IF b = "run" THEN run.fence ELSE 0, lease |-> "valid", manifest |-> {}]]
           /\ Begun(c, a, 1, IF b = "run" THEN run.fence ELSE 0)
    BY <1>1 DEF BeginNew
  <2>2. (IF b = "run" THEN run.fence ELSE 0) \in Nat  BY DEF Typed, RunTyped
  <2>3. LedgerTyped'  BY <2>1, <2>2 DEF Typed, LedgerTyped, LedgerRow
  <2>4. CallTyped'  BY <2>1, <2>2, BegunMoves DEF Typed
  <2>5. UNCHANGED <<staging, event, run, document, shown, delivery>>  BY <1>1 DEF BeginNew
  <2>6. QED  BY <2>3, <2>4, <2>5 DEF Typed, StagingTyped, DocumentTyped, ShownTyped, EventTyped, RunTyped, DeliveryTyped
<1>2. ASSUME NEW a \in Assessments, BeginTakeover(c, a) PROVE Typed'
  <2>1. ledger[a] \in LedgerRow /\ run.fence \in Nat  BY DEF Typed, LedgerTyped, RunTyped
  <2>2. [ledger[a] EXCEPT !.token = ledger[a].token + 1, !.fence = run.fence] \in LedgerRow
    <3>1. ledger[a].token + 1 \in Nat  BY <2>1 DEF LedgerRow
    <3>2. QED  BY <2>1, <3>1 DEF LedgerRow
  <2>3. LedgerTyped'
    <3>1. ledger' = [ledger EXCEPT ![a] =
             [ledger[a] EXCEPT !.token = ledger[a].token + 1, !.fence = run.fence]]
      BY <1>2 DEF BeginTakeover
    <3>2. QED  BY <2>2, <3>1 DEF Typed, LedgerTyped
  <2>4. CallTyped'
    <3>1. ledger[a].token + 1 \in Nat  BY <2>1 DEF LedgerRow
    <3>2. Begun(c, a, ledger[a].token + 1, run.fence)  BY <1>2 DEF BeginTakeover
    <3>3. QED  BY <2>1, <3>1, <3>2, BegunMoves DEF Typed
  <2>5. UNCHANGED <<staging, event, run, document, shown, delivery>>  BY <1>2 DEF BeginTakeover
  <2>6. QED  BY <2>3, <2>4, <2>5 DEF Typed, StagingTyped, DocumentTyped, ShownTyped, EventTyped, RunTyped, DeliveryTyped
<1>3. ASSUME NEW a \in Assessments, BeginFrozen(c, a) PROVE Typed'
  <2> DEFINE r == [at |-> "score", on |-> a, token |-> ledger[a].token, fence |-> run.fence,
                   found |-> ledger[a].manifest, rest |-> {}]
  <2>1. ledger[a] \in LedgerRow /\ run.fence \in Nat  BY DEF Typed, LedgerTyped, RunTyped
  <2>2. r \in CallRow  BY <2>1 DEF CallRow, CallSteps, LedgerRow
  <2>3. call' = [call EXCEPT ![c] = r]  BY <1>3 DEF BeginFrozen
  <2> HIDE DEF r
  <2>4. CallTyped'  BY <2>2, <2>3, CallMoves DEF Typed
  <2>5. UNCHANGED <<ledger, staging, event, run, document, shown, delivery>>  BY <1>3 DEF BeginFrozen
  <2>6. QED  BY <2>4, <2>5 DEF Typed, LedgerTyped, StagingTyped, DocumentTyped, ShownTyped, EventTyped, RunTyped, DeliveryTyped
<1>4. CASE Collect(c)
  <2>1. PICK found \in SUBSET Payloads :
           call' = [call EXCEPT ![c] = [call[c] EXCEPT !.at = "reserve", !.found = found]]
    BY <1>4 DEF Collect
  <2>2. call[c] \in CallRow  BY <1>4, CallHasRow DEF Collect, Typed
  <2>3. [call[c] EXCEPT !.at = "reserve", !.found = found] \in CallRow  BY <2>2 DEF CallRow, CallSteps
  <2>4. CallTyped'  BY <2>1, <2>3, CallMoves DEF Typed
  <2>5. UNCHANGED <<ledger, staging, event, run, document, shown, delivery>>  BY <1>4 DEF Collect
  <2>6. QED  BY <2>4, <2>5 DEF Typed, LedgerTyped, StagingTyped, DocumentTyped, ShownTyped, EventTyped, RunTyped, DeliveryTyped
<1>5. CASE ReservePayloads(c)
  <2>1. call[c] \in CallRow  BY <1>5, CallHasRow DEF ReservePayloads, Typed
  <2>2. [call[c] EXCEPT !.at = "stage", !.rest = call[c].found] \in CallRow
    BY <2>1 DEF CallRow, CallSteps
  <2>3. call' = [call EXCEPT ![c] = [call[c] EXCEPT !.at = "stage", !.rest = call[c].found]]
    BY <1>5 DEF ReservePayloads
  <2>4. CallTyped'  BY <2>2, <2>3, CallMoves DEF Typed
  <2>5. StagingTyped'
    <3>1. [owner |-> call[c].token, status |-> "pending"] \in StagingRow
      BY <2>1 DEF CallRow, StagingRow
    <3>2. QED  BY <1>5, <2>1, <3>1 DEF ReservePayloads, Typed, StagingTyped, CallRow
  <2>6. UNCHANGED <<ledger, event, run, document, shown, delivery>>  BY <1>5 DEF ReservePayloads
  <2>7. QED  BY <2>4, <2>5, <2>6 DEF Typed, LedgerTyped, DocumentTyped, ShownTyped, EventTyped, RunTyped, DeliveryTyped
<1>6. ASSUME NEW p \in Payloads, StagePayload(c, p) PROVE Typed'
  <2>1. call[c] \in CallRow  BY <1>6, CallHasRow DEF StagePayload, Typed
  <2>2. [call[c] EXCEPT !.rest = call[c].rest \ {p}] \in CallRow  BY <2>1 DEF CallRow
  <2>3. call' = [call EXCEPT ![c] = [call[c] EXCEPT !.rest = call[c].rest \ {p}]]
    BY <1>6 DEF StagePayload
  <2>4. CallTyped'  BY <2>2, <2>3, CallMoves DEF Typed
  <2>5. DocumentTyped'
    <3>1. [state |-> "pending", owner |-> call[c].token] \in DocumentRow
      BY <2>1 DEF CallRow, DocumentRow
    <3>2. QED  BY <1>6, <2>1, <3>1 DEF StagePayload, Typed, DocumentTyped, CallRow
  <2>6. UNCHANGED <<ledger, staging, event, run, shown, delivery>>  BY <1>6 DEF StagePayload
  <2>7. QED  BY <2>4, <2>5, <2>6 DEF Typed, LedgerTyped, StagingTyped, ShownTyped, EventTyped, RunTyped, DeliveryTyped
<1>7. CASE AllStaged(c) \/ CheckPayloads(c) \/ CollectionRaises(c)
  <2>1. call[c].at # "idle"  BY <1>7 DEF AllStaged, CheckPayloads, CollectionRaises
  <2>2. PICK at \in CallSteps : Goes(c, at)
    BY <1>7 DEF AllStaged, CheckPayloads, CollectionRaises, CallSteps
  <2>3. CallTyped'  BY <2>1, <2>2, GoesMoves DEF Typed
  <2>4. UNCHANGED <<ledger, staging, event, run, document, shown, delivery>>
    BY <1>7 DEF AllStaged, CheckPayloads, CollectionRaises
  <2>5. QED  BY <2>3, <2>4 DEF Typed, LedgerTyped, StagingTyped, DocumentTyped, ShownTyped, EventTyped, RunTyped, DeliveryTyped
<1>8. CASE FreezeAssessment(c)
  <2>1. call[c] \in CallRow /\ call[c].at # "idle"  BY <1>8, CallHasRow DEF FreezeAssessment, Typed
  <2>2. CallTyped'  BY <1>8, <2>1, GoesMoves DEF FreezeAssessment, Typed, CallSteps
  <2>3. [ledger[call[c].on] EXCEPT !.status = "frozen", !.manifest = call[c].found] \in LedgerRow
    BY <2>1 DEF CallRow, Typed, LedgerTyped, LedgerRow
  <2>4. LedgerTyped'  BY <1>8, <2>1, <2>3 DEF FreezeAssessment, Typed, LedgerTyped, CallRow
  <2>5. UNCHANGED <<staging, event, run, document, shown, delivery>>  BY <1>8 DEF FreezeAssessment
  <2>6. QED  BY <2>2, <2>4, <2>5 DEF Typed, StagingTyped, DocumentTyped, ShownTyped, EventTyped, RunTyped, DeliveryTyped
<1>9. CASE AbortCollection(c)
  <2>1. call[c] \in CallRow  BY <1>9, CallHasRow DEF AbortCollection, Typed
  <2>2. CallTyped'  BY <1>9, CallMoves DEF AbortCollection, Typed
  <2>3. LedgerTyped' /\ StagingTyped' /\ EventTyped'
    <3>1. CASE Collects(c)
      BY <1>9, <2>1, <3>1, GivenUpTyped DEF AbortCollection, Typed, CallRow
    <3>2. CASE ~Collects(c)
      BY <1>9, <3>2 DEF AbortCollection, Typed, LedgerTyped, StagingTyped, EventTyped
    <3>3. QED  BY <3>1, <3>2
  <2>4. UNCHANGED <<run, document, shown, delivery>>  BY <1>9 DEF AbortCollection
  <2>5. QED  BY <2>2, <2>3, <2>4 DEF Typed, DocumentTyped, ShownTyped, RunTyped, DeliveryTyped
<1>10. CASE Score(c)
  <2>1. call[c] \in CallRow  BY <1>10, CallHasRow DEF Score, Typed
  <2>2. [call[c] EXCEPT !.at = "commit"] \in CallRow  BY <2>1 DEF CallRow, CallSteps
  <2>3. \/ call' = [call EXCEPT ![c] = [call[c] EXCEPT !.at = "commit"]]
        \/ call' = [call EXCEPT ![c] = NoCall]
    BY <1>10 DEF Score
  <2>4. CallTyped'  BY <2>2, <2>3, CallMoves DEF Typed
  <2>5. UNCHANGED <<ledger, staging, event, run, document, shown, delivery>>  BY <1>10 DEF Score
  <2>6. QED  BY <2>4, <2>5 DEF Typed, LedgerTyped, StagingTyped, DocumentTyped, ShownTyped, EventTyped, RunTyped, DeliveryTyped
<1>11. CASE CommitAssessment(c)
  <2> DEFINE a == call[c].on
  <2>1. a \in Assessments  BY <1>11, CallHasRow DEF CommitAssessment, Typed, CallRow
  <2>2. CallTyped'  BY <1>11, CallMoves DEF CommitAssessment, Typed
  <2>3. LedgerTyped' /\ EventTyped'
    <3>1. [ledger[a] EXCEPT !.status = "committed"] \in LedgerRow
      BY <2>1 DEF Typed, LedgerTyped, LedgerRow
    <3>2. [event[a]["committed"] EXCEPT !.state = "pending"] \in EventRow
      BY <2>1 DEF Typed, EventTyped, EventRow, Kinds
    <3>3. CASE UNCHANGED <<ledger, event>>
      BY <3>3 DEF Typed, LedgerTyped, EventTyped
    <3>4. CASE /\ ledger' = [ledger EXCEPT ![a] = [ledger[a] EXCEPT !.status = "committed"]]
               /\ event' = [event EXCEPT ![a]["committed"] =
                     [event[a]["committed"] EXCEPT !.state = "pending"]]
      <4> HIDE DEF a
      <4>1. LedgerTyped'  BY <3>1, <3>4 DEF Typed, LedgerTyped
      <4>2. EventTyped'  BY <2>1, <3>2, <3>4 DEF Typed, EventTyped, Kinds
      <4>3. QED  BY <4>1, <4>2
    <3>5. QED  BY <1>11, <3>3, <3>4 DEF CommitAssessment
  <2>4. UNCHANGED <<staging, run, document, shown, delivery>>  BY <1>11 DEF CommitAssessment
  <2>5. QED  BY <2>2, <2>3, <2>4 DEF Typed, StagingTyped, DocumentTyped, ShownTyped, RunTyped, DeliveryTyped
<1>12. CASE CollectorDies(c)
  BY <1>12, CallMoves DEF CollectorDies, Typed, LedgerTyped, StagingTyped, DocumentTyped, ShownTyped, EventTyped, RunTyped, DeliveryTyped
<1>13. QED
  BY <1>1, <1>2, <1>3, <1>4, <1>5, <1>6, <1>7, <1>8, <1>9, <1>10, <1>11, <1>12 DEF Collecting

LEMMA ConsumingTyped ==
    ASSUME Typed, NEW d \in Consumers,
           DeliveryProgress(d) \/ ConsumerRaises(d) \/ ConsumerDies(d)
    PROVE  Typed'
<1> USE DEF postgres, mongo
<1>1. ASSUME NEW a \in Assessments, NEW k \in Kinds, DeliverEvent(d, a, k) PROVE Typed'
  <2> DEFINE r == [at |-> "read", on |-> a, kind |-> k, rest |-> {}, now |-> {}]
  <2>1. r \in DeliveryRow  BY DEF DeliveryRow, DeliverySteps
  <2>2. delivery' = [delivery EXCEPT ![d] = r]  BY <1>1 DEF DeliverEvent
  <2> HIDE DEF r
  <2>3. DeliveryTyped'  BY <2>1, <2>2, DeliveryMoves DEF Typed
  <2>4. UNCHANGED <<ledger, staging, event, run, document, shown, call>>  BY <1>1 DEF DeliverEvent
  <2>5. QED  BY <2>3, <2>4 DEF Typed, LedgerTyped, StagingTyped, DocumentTyped, ShownTyped, EventTyped, RunTyped, CallTyped
<1>2. CASE \/ ReadAssessment(d) \/ NoAlertSnapshot(d) \/ RemovalFails(d) \/ LookAgain(d)
           \/ ConsumerRaises(d)
  <2>1. delivery[d].at # "idle"
    BY <1>2 DEF ReadAssessment, NoAlertSnapshot, RemovalFails, LookAgain, ConsumerRaises
  <2>2. PICK at \in DeliverySteps : Turns(d, at)
    BY <1>2 DEF ReadAssessment, NoAlertSnapshot, RemovalFails, LookAgain, ConsumerRaises, DeliverySteps
  <2>3. DeliveryTyped'  BY <2>1, <2>2, TurnsMoves DEF Typed
  <2>4. UNCHANGED <<ledger, staging, event, run, document, shown, call>>
    BY <1>2 DEF ReadAssessment, NoAlertSnapshot, RemovalFails, LookAgain, ConsumerRaises
  <2>5. QED  BY <2>3, <2>4 DEF Typed, LedgerTyped, StagingTyped, DocumentTyped, ShownTyped, EventTyped, RunTyped, CallTyped
<1>3. CASE VerifyPayloads(d)
  <2>1. delivery[d] \in DeliveryRow  BY <1>3, DeliveryHasRow DEF VerifyPayloads, Typed
  <2>2. ledger[delivery[d].on].manifest \in SUBSET Payloads
    BY <2>1 DEF Typed, LedgerTyped, LedgerRow, DeliveryRow
  <2>3. PICK at \in {"commit", "raise"} : delivery' = [delivery EXCEPT ![d] =
           [delivery[d] EXCEPT !.at = at, !.rest = ledger[delivery[d].on].manifest]]
    BY <1>3 DEF VerifyPayloads
  <2>4. [delivery[d] EXCEPT !.at = at, !.rest = ledger[delivery[d].on].manifest] \in DeliveryRow
    BY <2>1, <2>2 DEF DeliveryRow, DeliverySteps
  <2>5. DeliveryTyped'  BY <2>3, <2>4, DeliveryMoves DEF Typed
  <2>6. UNCHANGED <<ledger, staging, event, run, document, shown, call>>  BY <1>3 DEF VerifyPayloads
  <2>7. QED  BY <2>5, <2>6 DEF Typed, LedgerTyped, StagingTyped, DocumentTyped, ShownTyped, EventTyped, RunTyped, CallTyped
<1>4. ASSUME NEW p \in Payloads, CommitPayload(d, p) PROVE Typed'
  <2> DEFINE a == delivery[d].on
  <2>1. delivery[d] \in DeliveryRow /\ a \in Assessments /\ delivery[d].at # "idle"
    BY <1>4, DeliveryHasRow DEF CommitPayload, Typed, DeliveryRow
  <2>2. UNCHANGED <<ledger, staging, event, run, shown, call>>  BY <1>4 DEF CommitPayload
  <2>3. DocumentTyped' /\ DeliveryTyped'
    <3>1. CASE Turns(d, "raise") /\ UNCHANGED document
      BY <2>1, <3>1, TurnsMoves DEF Typed, DocumentTyped, DeliverySteps
    <3>2. CASE /\ document' = [document EXCEPT ![a][p] = [document[a][p] EXCEPT !.state = "committed"]]
               /\ delivery' = [delivery EXCEPT ![d] = [delivery[d] EXCEPT !.rest = delivery[d].rest \ {p}]]
      <4>1. [document[a][p] EXCEPT !.state = "committed"] \in DocumentRow
        BY <2>1 DEF Typed, DocumentTyped, DocumentRow
      <4>2. [delivery[d] EXCEPT !.rest = delivery[d].rest \ {p}] \in DeliveryRow
        BY <2>1 DEF DeliveryRow
      <4>3. DeliveryTyped'  BY <3>2, <4>2, DeliveryMoves DEF Typed
      <4> HIDE DEF a
      <4>4. DocumentTyped'  BY <2>1, <3>2, <4>1 DEF Typed, DocumentTyped
      <4>5. QED  BY <4>3, <4>4
    <3>3. QED  BY <1>4, <3>1, <3>2 DEF CommitPayload
  <2>4. QED  BY <2>2, <2>3 DEF Typed, LedgerTyped, StagingTyped, ShownTyped, EventTyped, RunTyped, CallTyped
<1>5. CASE MarkCommitted(d) \/ MarkCompensated(d)
  <2>1. delivery[d] \in DeliveryRow /\ delivery[d].at # "idle"
    BY <1>5, DeliveryHasRow DEF MarkCommitted, MarkCompensated, Typed
  <2>2. PICK status \in {"committed", "compensated"} : MarkedAs(delivery[d].on, status)
    BY <1>5 DEF MarkCommitted, MarkCompensated
  <2>3. StagingTyped'  BY <2>1, <2>2, MarkedTyped DEF Typed, DeliveryRow
  <2>4. PICK at \in DeliverySteps : Turns(d, at)
    BY <1>5 DEF MarkCommitted, MarkCompensated, DeliverySteps
  <2>5. DeliveryTyped'  BY <2>1, <2>4, TurnsMoves DEF Typed
  <2>6. UNCHANGED <<ledger, event, run, document, shown, call>>
    BY <1>5 DEF MarkCommitted, MarkCompensated
  <2>7. QED  BY <2>3, <2>5, <2>6 DEF Typed, LedgerTyped, DocumentTyped, ShownTyped, EventTyped, RunTyped, CallTyped
<1>6. CASE ShowSnapshot(d) \/ ShowAlertSnapshot(d)
  <2>1. PICK at \in {"show", "show_alert"}, view \in {"snapshot", "alert"},
             next \in {"show_alert", "done"} : Show(d, at, view, next)
    BY <1>6 DEF ShowSnapshot, ShowAlertSnapshot
  <2>2. delivery[d] \in DeliveryRow /\ delivery[d].at # "idle"
    BY <2>1, DeliveryHasRow DEF Show, Typed
  <2>3. DeliveryTyped'  BY <2>1, <2>2, TurnsMoves DEF Show, Typed, DeliverySteps
  <2>4. ShownTyped'
    <3>1. ledger[delivery[d].on].manifest \in SUBSET Payloads
      BY <2>2 DEF Typed, LedgerTyped, LedgerRow, DeliveryRow
    <3>2. QED  BY <2>1, <2>2, <3>1 DEF Show, Typed, ShownTyped, DeliveryRow
  <2>5. UNCHANGED <<ledger, staging, event, run, document, call>>  BY <2>1 DEF Show
  <2>6. QED  BY <2>3, <2>4, <2>5 DEF Typed, LedgerTyped, StagingTyped, DocumentTyped, EventTyped, RunTyped, CallTyped
<1>7. CASE FindPayloads(d)
  <2> DEFINE found == Reserved(delivery[d].on) \cap Stored(delivery[d].on)
  <2>1. delivery[d] \in DeliveryRow /\ delivery[d].at # "idle"
    BY <1>7, DeliveryHasRow DEF FindPayloads, Typed
  <2>2. found \in SUBSET Payloads  BY DEF Reserved, Stored
  <2>3. CASE Turns(d, "raise")
    BY <1>7, <2>1, <2>3, TurnsMoves DEF FindPayloads, Typed, DeliverySteps, LedgerTyped, StagingTyped, DocumentTyped, ShownTyped, EventTyped, RunTyped, CallTyped
  <2>4. CASE delivery' = [delivery EXCEPT ![d] = [delivery[d] EXCEPT !.at = "compensate", !.rest = found]]
    <3>1. [delivery[d] EXCEPT !.at = "compensate", !.rest = found] \in DeliveryRow
      BY <2>1, <2>2 DEF DeliveryRow, DeliverySteps
    <3> HIDE DEF found
    <3>2. DeliveryTyped'  BY <2>4, <3>1, DeliveryMoves DEF Typed
    <3>3. QED  BY <1>7, <3>2 DEF FindPayloads, Typed, LedgerTyped, StagingTyped, DocumentTyped, ShownTyped, EventTyped, RunTyped, CallTyped
  <2>5. QED  BY <1>7, <2>3, <2>4 DEF FindPayloads
<1>8. ASSUME NEW p \in Payloads, MarkForRemoval(d, p) PROVE Typed'
  <2> DEFINE a == delivery[d].on
  <2>1. delivery[d] \in DeliveryRow /\ a \in Assessments
    BY <1>8, DeliveryHasRow DEF MarkForRemoval, Typed, DeliveryRow
  <2>2. [delivery[d] EXCEPT !.at = "remove", !.now = {p}, !.rest = delivery[d].rest \ {p}] \in DeliveryRow
    BY <2>1 DEF DeliveryRow, DeliverySteps
  <2>3. delivery' = [delivery EXCEPT ![d] =
           [delivery[d] EXCEPT !.at = "remove", !.now = {p}, !.rest = delivery[d].rest \ {p}]]
    BY <1>8 DEF MarkForRemoval
  <2>4. DeliveryTyped'  BY <2>2, <2>3, DeliveryMoves DEF Typed
  <2>5. DocumentTyped'
    <3> DEFINE state == IF document[a][p].state = "pending" THEN "pending_compensation"
                        ELSE document[a][p].state
    <3>1. document' = [document EXCEPT ![a][p] = [document[a][p] EXCEPT !.state = state]]
      BY <1>8 DEF MarkForRemoval
    <3>2. [document[a][p] EXCEPT !.state = state] \in DocumentRow
      BY <2>1 DEF Typed, DocumentTyped, DocumentRow
    <3> HIDE DEF a, state
    <3>3. QED  BY <2>1, <3>1, <3>2 DEF Typed, DocumentTyped
  <2>6. UNCHANGED <<ledger, staging, event, run, shown, call>>  BY <1>8 DEF MarkForRemoval
  <2>7. QED  BY <2>4, <2>5, <2>6 DEF Typed, LedgerTyped, StagingTyped, ShownTyped, EventTyped, RunTyped, CallTyped
<1>9. CASE RemovePayload(d)
  <2>1. delivery[d] \in DeliveryRow /\ delivery[d].at # "idle"
    BY <1>9, DeliveryHasRow DEF RemovePayload, Typed
  <2>2. DeliveryTyped'  BY <1>9, <2>1, TurnsMoves DEF RemovePayload, Typed, DeliverySteps
  <2>3. DocumentTyped'
    <3>1. Absent \in DocumentRow  BY DEF Absent, DocumentRow
    <3>2. QED  BY <1>9, <2>1, <3>1 DEF RemovePayload, Typed, DocumentTyped
  <2>4. UNCHANGED <<ledger, staging, event, run, shown, call>>  BY <1>9 DEF RemovePayload
  <2>5. QED  BY <2>2, <2>3, <2>4 DEF Typed, LedgerTyped, StagingTyped, ShownTyped, EventTyped, RunTyped, CallTyped
<1>10. CASE PublishEvent(d) \/ MarkFailed(d)
  <2> DEFINE a == delivery[d].on  k == delivery[d].kind
  <2>1. delivery[d] \in DeliveryRow /\ a \in Assessments /\ k \in Kinds
    BY <1>10, DeliveryHasRow DEF PublishEvent, MarkFailed, Typed, DeliveryRow
  <2>2. DeliveryTyped'  BY <1>10, DeliveryMoves DEF PublishEvent, MarkFailed, Typed
  <2>3. event[a][k] \in EventRow  BY <2>1 DEF Typed, EventTyped
  <2>4. EventTyped'
    <3>1. [event[a][k] EXCEPT !.state = "published"] \in EventRow  BY <2>3 DEF EventRow
    <3>2. \A state \in {"pending", "dead"} :
             [state |-> state, tries |-> event[a][k].tries + 1] \in EventRow  BY <2>3 DEF EventRow
    <3>3. \/ event' = event
          \/ event' = [event EXCEPT ![a][k] = [event[a][k] EXCEPT !.state = "published"]]
          \/ \E state \in {"pending", "dead"} :
                event' = [event EXCEPT ![a][k] = [state |-> state, tries |-> event[a][k].tries + 1]]
      BY <1>10 DEF PublishEvent, MarkFailed
    <3> HIDE DEF a, k
    <3>4. QED  BY <2>1, <3>1, <3>2, <3>3 DEF Typed, EventTyped
  <2>5. UNCHANGED <<ledger, staging, run, document, shown, call>>  BY <1>10 DEF PublishEvent, MarkFailed
  <2>6. QED  BY <2>2, <2>4, <2>5 DEF Typed, LedgerTyped, StagingTyped, DocumentTyped, ShownTyped, RunTyped, CallTyped
<1>11. CASE ConsumerDies(d)
  BY <1>11, DeliveryMoves DEF ConsumerDies, Typed, LedgerTyped, StagingTyped, DocumentTyped, ShownTyped, EventTyped, RunTyped, CallTyped
<1>12. QED
  BY <1>1, <1>2, <1>3, <1>4, <1>5, <1>6, <1>7, <1>8, <1>9, <1>10, <1>11 DEF DeliveryProgress

LEMMA EnvironmentTyped ==
    ASSUME Typed, Environment
    PROVE  Typed'
<1> USE DEF postgres, mongo
<1>1. CASE RunLosesOwner \/ RunChangesOwner \/ RunEnds
  <2>1. RunTyped'
    <3>1. run \in [open : BOOLEAN, held : BOOLEAN, fence : Nat]  BY DEF Typed, RunTyped
    <3>2. CASE RunLosesOwner  BY <3>1, <3>2 DEF RunLosesOwner, RunTyped
    <3>3. CASE RunChangesOwner
      <4>1. run.fence + 1 \in Nat  BY <3>1
      <4>2. QED  BY <3>1, <3>3, <4>1 DEF RunChangesOwner, RunTyped
    <3>4. CASE RunEnds  BY <3>1, <3>4 DEF RunEnds, RunTyped
    <3>5. QED  BY <1>1, <3>2, <3>3, <3>4
  <2>2. UNCHANGED <<ledger, staging, event, document, shown, call, delivery>>
    BY <1>1 DEF RunLosesOwner, RunChangesOwner, RunEnds
  <2>3. QED  BY <2>1, <2>2 DEF Typed, LedgerTyped, StagingTyped, DocumentTyped, ShownTyped, EventTyped, CallTyped, DeliveryTyped
<1>2. ASSUME NEW a \in Assessments, BeginAfterLoss(a) PROVE Typed'
  BY <1>2, GivenUpTyped DEF BeginAfterLoss, Typed, DocumentTyped, ShownTyped, RunTyped, CallTyped, DeliveryTyped
<1>3. ASSUME NEW a \in Assessments, CollectionLeaseExpires(a) PROVE Typed'
  <2>1. [ledger[a] EXCEPT !.lease = "expired"] \in LedgerRow  BY DEF Typed, LedgerTyped, LedgerRow
  <2>2. LedgerTyped'  BY <1>3, <2>1 DEF CollectionLeaseExpires, Typed, LedgerTyped
  <2>3. QED  BY <1>3, <2>2 DEF CollectionLeaseExpires, Typed, StagingTyped, DocumentTyped, ShownTyped, EventTyped, RunTyped, CallTyped, DeliveryTyped
<1>4. QED  BY <1>1, <1>2, <1>3 DEF Environment

LEMMA TypeStep ==
    ASSUME TypeOK, [Next]_vars
    PROVE  TypeOK'
<1>1. Typed  BY TypeParts DEF Typed
<1>2. Typed'
  <2>1. CASE UNCHANGED vars
    BY <1>1, <2>1 DEF vars, Typed, LedgerTyped, StagingTyped, DocumentTyped, ShownTyped, EventTyped, RunTyped, CallTyped, DeliveryTyped
  <2>2. CASE Next
    BY <1>1, <2>2, CollectingTyped, ConsumingTyped, EnvironmentTyped DEF Next
  <2>3. QED  BY <2>1, <2>2
<1>3. QED
  BY <1>2 DEF TypeOK, Typed, LedgerTyped, StagingTyped, DocumentTyped, ShownTyped, EventTyped,
       RunTyped, CallTyped, DeliveryTyped, LedgerRow, StagingRow, DocumentRow, EventRow, CallSteps,
       CallRow, DeliverySteps, DeliveryRow

-----------------------------------------------------------------------------
(* What a step may do to an assessment, whoever takes it.                  *)

\* A status only moves on; a frozen assessment keeps owner and manifest.
StatusMovesOn == \A a \in Assessments :
    /\ ledger[a].status \in {"committed", "needs_review"} =>
          ledger'[a].status = ledger[a].status /\ ledger'[a].manifest = ledger[a].manifest
    /\ ledger[a].status \in {"frozen", "committed"} =>
          /\ ledger'[a].status \in {"frozen", "committed"}
          /\ ledger'[a].token = ledger[a].token /\ ledger'[a].manifest = ledger[a].manifest

\* Only the evidence of an assessment that was given up is taken away.
EvidenceStays == \A a \in Assessments, p \in Payloads :
    /\ document[a][p].state = "committed" => document'[a][p] = document[a][p]
    /\ document[a][p].state = "pending" =>
          \/ /\ document'[a][p].state \in {"pending", "committed"}
             /\ document'[a][p].owner = document[a][p].owner
          \/ ledger[a].status = "needs_review"
    /\ document'[a][p].state = "pending_compensation" =>
          document[a][p].state = "pending_compensation" \/ ledger[a].status = "needs_review"

\* A reservation keeps its owner, that of a committed assessment its status.
ReservationStays == \A a \in Assessments, p \in Payloads :
    staging[a][p].status # "none" =>
        /\ staging'[a][p].status # "none" /\ staging'[a][p].owner = staging[a][p].owner
        /\ ledger[a].status = "committed" /\ staging[a][p].status = "committed" =>
              staging'[a][p].status = "committed"

Lawful == StatusMovesOn /\ EvidenceStays /\ ReservationStays

LEMMA StillIsLawful == UNCHANGED <<ledger, document, staging>> => Lawful
BY DEF Lawful, StatusMovesOn, EvidenceStays, ReservationStays

LEMMA MarkedLawful ==
    ASSUME Typed, NEW a \in Assessments,
           NEW status \in {"committed", "pending_compensation", "compensated"}, MarkedAs(a, status),
           status = "committed" \/ ledger[a].status # "committed"
    PROVE  ReservationStays
BY DEF Typed, StagingTyped, StagingRow, MarkedAs, ReservationStays

LEMMA GivenUpLawful ==
    ASSUME Typed, NEW a \in Assessments, ledger[a].status = "collecting", GivenUp(a)
    PROVE  StatusMovesOn /\ ReservationStays
<1>1. MarkedAs(a, "pending_compensation")  BY DEF GivenUp, MarkedAs
<1>2. ReservationStays  BY <1>1, MarkedLawful
<1>3. StatusMovesOn  BY DEF GivenUp, Typed, LedgerTyped, LedgerRow, StatusMovesOn
<1>4. QED  BY <1>2, <1>3

LEMMA CollectingLawful ==
    ASSUME Typed, NEW c \in Collectors, Collecting(c)
    PROVE  Lawful
<1> USE DEF postgres, mongo
<1>1. ASSUME NEW a \in Assessments, BeginNew(c, a) \/ BeginTakeover(c, a) PROVE Lawful
  <2>1. UNCHANGED <<staging, document>>  BY <1>1 DEF BeginNew, BeginTakeover
  <2>2. StatusMovesOn  BY <1>1 DEF BeginNew, BeginTakeover, Typed, LedgerTyped, LedgerRow, StatusMovesOn
  <2>3. QED  BY <2>1, <2>2 DEF Lawful, EvidenceStays, ReservationStays
<1>2. ASSUME NEW a \in Assessments, BeginFrozen(c, a) PROVE Lawful
  BY <1>2, StillIsLawful DEF BeginFrozen
<1>3. CASE \/ Collect(c) \/ AllStaged(c) \/ CheckPayloads(c) \/ CollectionRaises(c) \/ Score(c)
           \/ CollectorDies(c)
  BY <1>3, StillIsLawful DEF Collect, AllStaged, CheckPayloads, CollectionRaises, Score, CollectorDies
<1>4. CASE ReservePayloads(c)
  <2>1. UNCHANGED <<ledger, document>>  BY <1>4 DEF ReservePayloads
  <2>2. call[c] \in CallRow  BY <1>4, CallHasRow DEF ReservePayloads, Typed
  <2>3. ReservationStays
    BY <1>4, <2>2 DEF ReservePayloads, Collects, Typed, StagingTyped, StagingRow, CallRow, ReservationStays
  <2>4. QED  BY <2>1, <2>3 DEF Lawful, StatusMovesOn, EvidenceStays
<1>5. ASSUME NEW p \in Payloads, StagePayload(c, p) PROVE Lawful
  <2>1. UNCHANGED <<ledger, staging>>  BY <1>5 DEF StagePayload
  <2>2. call[c] \in CallRow  BY <1>5, CallHasRow DEF StagePayload, Typed
  <2>3. EvidenceStays
    BY <1>5, <2>2 DEF StagePayload, Typed, DocumentTyped, DocumentRow, CallRow, EvidenceStays
  <2>4. QED  BY <2>1, <2>3 DEF Lawful, StatusMovesOn, ReservationStays
<1>6. CASE FreezeAssessment(c)
  <2>1. UNCHANGED <<staging, document>>  BY <1>6 DEF FreezeAssessment
  <2>2. StatusMovesOn
    BY <1>6 DEF FreezeAssessment, Collects, Typed, LedgerTyped, LedgerRow, StatusMovesOn
  <2>3. QED  BY <2>1, <2>2 DEF Lawful, EvidenceStays, ReservationStays
<1>7. CASE AbortCollection(c)
  <2>1. UNCHANGED document  BY <1>7 DEF AbortCollection
  <2>2. CASE Collects(c)
    <3>1. call[c].on \in Assessments  BY <1>7, CallHasRow DEF AbortCollection, Typed, CallRow
    <3>2. StatusMovesOn /\ ReservationStays
      BY <1>7, <2>2, <3>1, GivenUpLawful DEF AbortCollection, Collects
    <3>3. QED  BY <2>1, <3>2 DEF Lawful, EvidenceStays
  <2>3. CASE ~Collects(c)
    BY <1>7, <2>1, <2>3, StillIsLawful DEF AbortCollection
  <2>4. QED  BY <2>2, <2>3
<1>8. CASE CommitAssessment(c)
  <2>1. UNCHANGED <<staging, document>>  BY <1>8 DEF CommitAssessment
  <2>2. StatusMovesOn
    BY <1>8 DEF CommitAssessment, Typed, LedgerTyped, LedgerRow, StatusMovesOn
  <2>3. QED  BY <2>1, <2>2 DEF Lawful, EvidenceStays, ReservationStays
<1>9. QED
  BY <1>1, <1>2, <1>3, <1>4, <1>5, <1>6, <1>7, <1>8 DEF Collecting

LEMMA ConsumingLawful ==
    ASSUME Typed, Ordered, NEW d \in Consumers,
           DeliveryProgress(d) \/ ConsumerRaises(d) \/ ConsumerDies(d)
    PROVE  Lawful
<1> USE DEF postgres, mongo
<1> DEFINE a == delivery[d].on
<1>1. ASSUME NEW b \in Assessments, NEW k \in Kinds, DeliverEvent(d, b, k) PROVE Lawful
  BY <1>1, StillIsLawful DEF DeliverEvent
<1>2. CASE \/ ReadAssessment(d) \/ VerifyPayloads(d) \/ NoAlertSnapshot(d) \/ FindPayloads(d)
           \/ RemovalFails(d) \/ LookAgain(d) \/ PublishEvent(d) \/ MarkFailed(d)
           \/ ConsumerRaises(d) \/ ConsumerDies(d)
  BY <1>2, StillIsLawful DEF ReadAssessment, VerifyPayloads, NoAlertSnapshot, FindPayloads,
     RemovalFails, LookAgain, PublishEvent, MarkFailed, ConsumerRaises, ConsumerDies
<1>3. CASE ShowSnapshot(d) \/ ShowAlertSnapshot(d)
  BY <1>3, StillIsLawful DEF ShowSnapshot, ShowAlertSnapshot, Show
<1>4. ASSUME NEW p \in Payloads, CommitPayload(d, p) PROVE Lawful
  <2>1. UNCHANGED <<ledger, staging>>  BY <1>4 DEF CommitPayload
  <2>2. a \in Assessments  BY <1>4, DeliveryHasRow DEF CommitPayload, Typed, DeliveryRow
  <2>3. EvidenceStays
    <3>1. CASE UNCHANGED document  BY <3>1 DEF EvidenceStays
    <3>2. CASE /\ document[a][p].state \in {"pending", "committed"}
               /\ document' = [document EXCEPT ![a][p] = [document[a][p] EXCEPT !.state = "committed"]]
      <4> HIDE DEF a
      <4>1. document[a][p] \in DocumentRow  BY <2>2 DEF Typed, DocumentTyped
      <4>2. document[a][p].state = "committed" =>
               [document[a][p] EXCEPT !.state = "committed"] = document[a][p]
        BY <4>1 DEF DocumentRow
      <4>3. QED  BY <2>2, <3>2, <4>1, <4>2 DEF Typed, DocumentTyped, DocumentRow, EvidenceStays
    <3>3. QED  BY <1>4, <3>1, <3>2 DEF CommitPayload
  <2>4. QED  BY <2>1, <2>3 DEF Lawful, StatusMovesOn, ReservationStays
<1>5. CASE MarkCommitted(d)
  <2>1. UNCHANGED <<ledger, document>> /\ MarkedAs(a, "committed")  BY <1>5 DEF MarkCommitted
  <2>2. a \in Assessments  BY <1>5, DeliveryHasRow DEF MarkCommitted, Typed, DeliveryRow
  <2>3. ReservationStays  BY <2>1, <2>2, MarkedLawful
  <2>4. QED  BY <2>1, <2>3 DEF Lawful, StatusMovesOn, EvidenceStays
<1>6. CASE MarkCompensated(d)
  <2>1. UNCHANGED <<ledger, document>> /\ MarkedAs(a, "compensated")  BY <1>6 DEF MarkCompensated
  <2>2. a \in Assessments /\ ledger[a].status = "needs_review"
    BY <1>6, DeliveryHasRow DEF MarkCompensated, Typed, DeliveryRow, Ordered, DeliveryInOrder
  <2>3. ReservationStays  BY <2>1, <2>2, MarkedLawful
  <2>4. QED  BY <2>1, <2>3 DEF Lawful, StatusMovesOn, EvidenceStays
<1>7. ASSUME NEW p \in Payloads, MarkForRemoval(d, p) PROVE Lawful
  <2>1. UNCHANGED <<ledger, staging>>  BY <1>7 DEF MarkForRemoval
  <2>2. a \in Assessments /\ ledger[a].status = "needs_review"
    BY <1>7, DeliveryHasRow DEF MarkForRemoval, Typed, DeliveryRow, Ordered, DeliveryInOrder
  <2> DEFINE state == IF document[a][p].state = "pending" THEN "pending_compensation"
                      ELSE document[a][p].state
  <2>3. document' = [document EXCEPT ![a][p] = [document[a][p] EXCEPT !.state = state]]
    BY <1>7 DEF MarkForRemoval
  <2>4. document[a][p] \in DocumentRow  BY <2>2 DEF Typed, DocumentTyped
  <2>5. document[a][p].state = "committed" => [document[a][p] EXCEPT !.state = state] = document[a][p]
    BY <2>4 DEF DocumentRow
  <2> HIDE DEF a, state
  <2>6. EvidenceStays  BY <2>2, <2>3, <2>4, <2>5 DEF Typed, DocumentTyped, DocumentRow, EvidenceStays
  <2>7. QED  BY <2>1, <2>6 DEF Lawful, StatusMovesOn, ReservationStays
<1>8. CASE RemovePayload(d)
  <2>1. UNCHANGED <<ledger, staging>>  BY <1>8 DEF RemovePayload
  <2>2. EvidenceStays
    BY <1>8 DEF RemovePayload, Typed, DocumentTyped, DocumentRow, EvidenceStays, Absent
  <2>3. QED  BY <2>1, <2>2 DEF Lawful, StatusMovesOn, ReservationStays
<1>9. QED
  BY <1>1, <1>2, <1>3, <1>4, <1>5, <1>6, <1>7, <1>8 DEF DeliveryProgress

LEMMA LawfulStep ==
    ASSUME Inv, [Next]_vars
    PROVE  Lawful
<1>1. Typed /\ Ordered  BY TypeParts DEF Typed, Inv
<1>2. CASE UNCHANGED vars  BY <1>2, StillIsLawful DEF vars
<1>3. ASSUME Environment PROVE Lawful
  <2>1. CASE RunLosesOwner \/ RunChangesOwner \/ RunEnds
    BY <2>1, StillIsLawful DEF RunLosesOwner, RunChangesOwner, RunEnds, mongo
  <2>2. ASSUME NEW a \in Assessments, BeginAfterLoss(a) PROVE Lawful
    BY <1>1, <2>2, GivenUpLawful DEF BeginAfterLoss, Lawful, EvidenceStays, mongo
  <2>3. ASSUME NEW a \in Assessments, CollectionLeaseExpires(a) PROVE Lawful
    <3>1. UNCHANGED <<staging, document>>  BY <2>3 DEF CollectionLeaseExpires, mongo
    <3>2. StatusMovesOn
      BY <1>1, <2>3 DEF CollectionLeaseExpires, Typed, LedgerTyped, LedgerRow, StatusMovesOn
    <3>3. QED  BY <3>1, <3>2 DEF Lawful, EvidenceStays, ReservationStays
  <2>4. QED  BY <1>3, <2>1, <2>2, <2>3 DEF Environment
<1>4. CASE Next  BY <1>1, <1>3, <1>4, CollectingLawful, ConsumingLawful DEF Next
<1>5. QED  BY <1>2, <1>4

-----------------------------------------------------------------------------
(* The parts of the invariant that only their owner can disturb.           *)

LEMMA OrderKept ==
    ASSUME Inv, Lawful
    PROVE  /\ \A c \in Collectors : call'[c] = call[c] => CallInOrder(c)'
           /\ \A d \in Consumers : delivery'[d] = delivery[d] => DeliveryInOrder(d)'
<1>1. Typed  BY TypeParts DEF Typed, Inv
<1>2. ASSUME NEW c \in Collectors, call'[c] = call[c] PROVE CallInOrder(c)'
  <2>1. CASE call[c].at = "idle"  BY <1>2, <2>1 DEF CallInOrder
  <2>2. CASE call[c].at # "idle"
    <3>1. call[c] \in CallRow  BY <1>1, <2>2, CallHasRow DEF Typed
    <3>2. CallInOrder(c)  BY DEF Inv, Ordered
    <3>3. QED
      BY <1>2, <3>1, <3>2 DEF CallInOrder, CallRow, Verified, Lawful, StatusMovesOn, EvidenceStays, ReservationStays
  <2>3. QED  BY <2>1, <2>2
<1>3. ASSUME NEW d \in Consumers, delivery'[d] = delivery[d] PROVE DeliveryInOrder(d)'
  <2>1. CASE delivery[d].at = "idle"  BY <1>3, <2>1 DEF DeliveryInOrder
  <2>2. CASE delivery[d].at # "idle"
    <3>1. delivery[d] \in DeliveryRow  BY <1>1, <2>2, DeliveryHasRow DEF Typed
    <3>2. DeliveryInOrder(d)  BY DEF Inv, Ordered
    <3>3. ledger[delivery[d].on].manifest \in SUBSET Payloads
      BY <1>1, <3>1 DEF Typed, LedgerTyped, LedgerRow, DeliveryRow
    <3>4. QED
      BY <1>3, <3>1, <3>2, <3>3 DEF DeliveryInOrder, DeliveryRow, Backed, Lawful, StatusMovesOn, EvidenceStays, ReservationStays
  <2>3. QED  BY <2>1, <2>2
<1>4. QED  BY <1>2, <1>3

LEMMA CollectorOrdered ==
    ASSUME Inv, Typed', Lawful, NEW c \in Collectors, Collecting(c)
    PROVE  Ordered'
<1> USE DEF postgres, mongo
<1>1. Typed /\ CallInOrder(c)  BY TypeParts DEF Typed, Inv, Ordered
<1>2. UNCHANGED delivery
  BY DEF Collecting, BeginNew, BeginTakeover, BeginFrozen, Collect, ReservePayloads, StagePayload,
     AllStaged, CheckPayloads, FreezeAssessment, CollectionRaises, AbortCollection, Score,
     CommitAssessment, CollectorDies
<1>3. ASSUME CallInOrder(c)', \A x \in Collectors \ {c} : call'[x] = call[x] PROVE Ordered'
  BY <1>2, <1>3, OrderKept DEF Ordered
<1>4. ASSUME call'[c].at \in {"idle", "collect", "abort", "score", "commit"} PROVE CallInOrder(c)'
  BY <1>4 DEF CallInOrder
<1>5. ASSUME NEW a \in Assessments, BeginNew(c, a) \/ BeginTakeover(c, a) PROVE Ordered'
  <2>1. PICK token \in Nat, fence \in Nat : Begun(c, a, token, fence)
    <3>1. run.fence \in Nat /\ ledger[a].token + 1 \in Nat
      BY <1>1 DEF Typed, RunTyped, LedgerTyped, LedgerRow
    <3>2. QED  BY <1>5, <3>1 DEF BeginNew, BeginTakeover
  <2>2. QED  BY <1>1, <1>3, <1>4, <2>1, BegunMoves DEF Typed
<1>6. ASSUME NEW a \in Assessments, BeginFrozen(c, a) PROVE Ordered'
  BY <1>1, <1>3, <1>4, <1>6 DEF BeginFrozen, Typed, CallTyped
<1>7. CASE Collect(c)
  <2>1. call[c] \in CallRow  BY <1>1, <1>7, CallHasRow DEF Collect, Typed
  <2>2. call'[c].at = "reserve" /\ call'[c].found # {}
    <3>1. PICK found \in (SUBSET Payloads) \ {{}} :
             call' = [call EXCEPT ![c] = [call[c] EXCEPT !.at = "reserve", !.found = found]]
      BY <1>7 DEF Collect
    <3>2. call'[c] = [call[c] EXCEPT !.at = "reserve", !.found = found]
      BY <1>1, <3>1 DEF Typed, CallTyped
    <3>3. call'[c].at = "reserve" /\ call'[c].found = found  BY <2>1, <3>2 DEF CallRow
    <3>4. found # {}  OBVIOUS
    <3>5. QED  BY <3>3, <3>4
  <2>3. \A x \in Collectors \ {c} : call'[x] = call[x]  BY <1>1, <1>7 DEF Collect, Typed, CallTyped
  <2>4. QED  BY <1>3, <2>2, <2>3 DEF CallInOrder
<1>8. CASE ReservePayloads(c)
  <2>1. call[c] \in CallRow  BY <1>1, <1>8, CallHasRow DEF ReservePayloads, Typed
  <2>2. /\ call'[c].at = "stage" /\ call'[c].rest = call[c].found /\ call'[c].found = call[c].found
        /\ call'[c].on = call[c].on /\ call'[c].token = call[c].token
        /\ \A x \in Collectors \ {c} : call'[x] = call[x]
    BY <1>1, <1>8, <2>1 DEF ReservePayloads, Typed, CallTyped, CallRow
  <2>3. \A p \in call[c].found : staging'[call[c].on][p] = [owner |-> call[c].token, status |-> "pending"]
    BY <1>1, <1>8, <2>1 DEF ReservePayloads, Typed, StagingTyped, CallRow
  <2>4. call[c].found # {}  BY <1>1, <1>8 DEF CallInOrder, ReservePayloads
  <2>5. QED  BY <1>3, <2>2, <2>3, <2>4 DEF CallInOrder
<1>9. ASSUME NEW p \in Payloads, StagePayload(c, p) PROVE Ordered'
  <2>1. call[c] \in CallRow  BY <1>1, <1>9, CallHasRow DEF StagePayload, Typed
  <2>2. /\ call'[c].at = "stage" /\ call'[c].rest = call[c].rest \ {p} /\ call'[c].found = call[c].found
        /\ call'[c].on = call[c].on /\ call'[c].token = call[c].token
        /\ \A x \in Collectors \ {c} : call'[x] = call[x]
    BY <1>1, <1>9, <2>1 DEF StagePayload, Typed, CallTyped, CallRow
  <2>3. UNCHANGED staging /\ call[c].at = "stage"  BY <1>9 DEF StagePayload
  <2>4. QED  BY <1>1, <1>3, <2>2, <2>3 DEF CallInOrder
<1>10. CASE AllStaged(c) \/ CheckPayloads(c) \/ CollectionRaises(c)
  <2>1. call[c].at # "idle"  BY <1>10 DEF AllStaged, CheckPayloads, CollectionRaises
  <2>2. PICK at \in CallSteps : Goes(c, at) /\ at \in {"check", "freeze", "abort"}
    BY <1>10 DEF AllStaged, CheckPayloads, CollectionRaises, CallSteps
  <2>3. /\ call'[c] = [call[c] EXCEPT !.at = at] /\ call[c] \in CallRow
        /\ \A x \in Collectors \ {c} : call'[x] = call[x]
    BY <1>1, <2>1, <2>2, GoesMoves, CallHasRow DEF Typed
  <2>4. CASE at = "abort"  BY <1>3, <1>4, <2>3, <2>4 DEF CallRow
  <2>5. CASE at = "check"
    <3>1. AllStaged(c)
      BY <1>1, <1>10, <2>3, <2>5 DEF AllStaged, CheckPayloads, CollectionRaises, Goes, CallRow, Typed, CallTyped
    <3>2. call[c].at = "stage"  BY <3>1 DEF AllStaged
    <3>3. QED  BY <1>1, <1>3, <2>3, <2>5, <3>2 DEF CallInOrder, CallRow
  <2>6. CASE at = "freeze"
    <3>1. CheckPayloads(c)
      BY <1>1, <1>10, <2>3, <2>6 DEF AllStaged, CheckPayloads, CollectionRaises, Goes, CallRow, Typed, CallTyped
    <3>2. call[c].at = "check" /\ Verified(call[c].on, call[c].found, call[c].token)
      BY <1>1, <2>3, <2>6, <3>1 DEF CheckPayloads, Goes, CallRow, Typed, CallTyped
    <3>3. UNCHANGED document  BY <3>1 DEF CheckPayloads
    <3>4. QED  BY <1>1, <1>3, <2>3, <2>6, <3>2, <3>3 DEF CallInOrder, CallRow, Verified
  <2>7. QED  BY <2>2, <2>4, <2>5, <2>6
<1>11. CASE FreezeAssessment(c)
  <2>1. call[c].at # "idle" /\ Goes(c, "score")  BY <1>11 DEF FreezeAssessment
  <2>2. call[c] \in CallRow  BY <1>1, <2>1, CallHasRow DEF Typed
  <2>3. QED  BY <1>1, <1>3, <1>4, <2>1, <2>2, GoesMoves DEF Typed, CallSteps, CallRow
<1>12. CASE AbortCollection(c) \/ CollectorDies(c)
  BY <1>1, <1>3, <1>4, <1>12 DEF AbortCollection, CollectorDies, Typed, CallTyped, NoCall
<1>13. CASE CommitAssessment(c)
  BY <1>1, <1>3, <1>4, <1>13 DEF CommitAssessment, Typed, CallTyped, NoCall
<1>14. CASE Score(c)
  <2>1. call[c] \in CallRow  BY <1>1, <1>14, CallHasRow DEF Score, Typed
  <2>2. call'[c].at \in {"commit", "idle"} /\ \A x \in Collectors \ {c} : call'[x] = call[x]
    BY <1>1, <1>14, <2>1 DEF Score, Typed, CallTyped, CallRow, NoCall
  <2>3. QED  BY <1>3, <1>4, <2>2
<1>15. QED
  BY <1>5, <1>6, <1>7, <1>8, <1>9, <1>10, <1>11, <1>12, <1>13, <1>14 DEF Collecting

LEMMA ConsumerOrdered ==
    ASSUME Inv, Typed', Lawful, NEW d \in Consumers,
           DeliveryProgress(d) \/ ConsumerRaises(d) \/ ConsumerDies(d)
    PROVE  Ordered'
<1> USE DEF postgres, mongo
<1> DEFINE a == delivery[d].on
<1>1. Typed /\ DeliveryInOrder(d)  BY TypeParts DEF Typed, Inv, Ordered
<1>2. UNCHANGED call
  BY DEF DeliveryProgress, DeliverEvent, ReadAssessment, VerifyPayloads, CommitPayload, MarkCommitted,
     ShowSnapshot, ShowAlertSnapshot, Show, NoAlertSnapshot, FindPayloads, MarkForRemoval, RemovePayload,
     RemovalFails, LookAgain, MarkCompensated, PublishEvent, MarkFailed, ConsumerRaises, ConsumerDies
<1>3. ASSUME DeliveryInOrder(d)', \A x \in Consumers \ {d} : delivery'[x] = delivery[x] PROVE Ordered'
  BY <1>2, <1>3, OrderKept DEF Ordered
<1>4. ASSUME delivery'[d].at \in {"idle", "read", "raise", "done"} PROVE DeliveryInOrder(d)'
  BY <1>4 DEF DeliveryInOrder
<1>5. ASSUME NEW b \in Assessments, NEW k \in Kinds, DeliverEvent(d, b, k) PROVE Ordered'
  BY <1>1, <1>3, <1>4, <1>5 DEF DeliverEvent, Typed, DeliveryTyped
<1>6. CASE PublishEvent(d) \/ MarkFailed(d) \/ ConsumerDies(d)
  BY <1>1, <1>3, <1>4, <1>6 DEF PublishEvent, MarkFailed, ConsumerDies, Typed, DeliveryTyped, NoDelivery
\* A step that only turns to a position which promises nothing, or that holds.
<1>7. ASSUME NEW at \in DeliverySteps, delivery[d].at # "idle", Turns(d, at)
      PROVE  /\ \A x \in Consumers \ {d} : delivery'[x] = delivery[x]
             /\ delivery'[d].at = at /\ delivery'[d].on = a /\ delivery'[d].rest = delivery[d].rest
             /\ delivery[d] \in DeliveryRow
  BY <1>1, <1>7, TurnsMoves, DeliveryHasRow DEF Typed, DeliveryRow
<1>8. CASE ConsumerRaises(d) \/ NoAlertSnapshot(d) \/ MarkCompensated(d)
  <2>1. delivery[d].at # "idle"  BY <1>8 DEF ConsumerRaises, NoAlertSnapshot, MarkCompensated
  <2>2. PICK at \in {"raise", "done"} : Turns(d, at)
    BY <1>8 DEF ConsumerRaises, NoAlertSnapshot, MarkCompensated
  <2>3. QED  BY <1>3, <1>4, <1>7, <2>1, <2>2 DEF DeliverySteps
<1>9. CASE ReadAssessment(d)
  <2>1. delivery[d].at # "idle" /\ UNCHANGED ledger  BY <1>9 DEF ReadAssessment
  <2>2. CASE ledger[a].status = "committed"
    <3>1. Turns(d, "verify")  BY <1>9, <2>2 DEF ReadAssessment
    <3>2. QED  BY <1>3, <1>7, <2>1, <2>2, <3>1 DEF DeliverySteps, DeliveryInOrder
  <2>3. CASE ledger[a].status = "needs_review" /\ delivery[d].kind = "reconcile"
    <3>1. Turns(d, "find")  BY <1>9, <2>3 DEF ReadAssessment
    <3>2. QED  BY <1>3, <1>7, <2>1, <2>3, <3>1 DEF DeliverySteps, DeliveryInOrder
  <2>4. CASE ~(ledger[a].status = "committed")
             /\ ~(ledger[a].status = "needs_review" /\ delivery[d].kind = "reconcile")
    <3>1. Turns(d, "raise")  BY <1>9, <2>4 DEF ReadAssessment
    <3>2. QED  BY <1>3, <1>4, <1>7, <2>1, <3>1 DEF DeliverySteps
  <2>5. QED  BY <2>2, <2>3, <2>4
<1>10. CASE VerifyPayloads(d)
  <2>1. delivery[d] \in DeliveryRow  BY <1>1, <1>10, DeliveryHasRow DEF VerifyPayloads, Typed
  <2>2. PICK at \in {"commit", "raise"} : delivery' = [delivery EXCEPT ![d] =
           [delivery[d] EXCEPT !.at = at, !.rest = ledger[a].manifest]]
    BY <1>10 DEF VerifyPayloads
  <2>3. /\ delivery'[d] = [delivery[d] EXCEPT !.at = at, !.rest = ledger[a].manifest]
        /\ \A x \in Consumers \ {d} : delivery'[x] = delivery[x]
    BY <1>1, <2>2 DEF Typed, DeliveryTyped
  <2>4. /\ delivery'[d].at = at /\ delivery'[d].on = a /\ delivery'[d].rest = ledger[a].manifest
    BY <2>1, <2>3 DEF DeliveryRow
  <2>5. delivery[d].at = "verify" /\ UNCHANGED ledger  BY <1>10 DEF VerifyPayloads
  <2>6. DeliveryInOrder(d)'  BY <1>1, <2>4, <2>5 DEF DeliveryInOrder
  <2>7. QED  BY <1>3, <2>3, <2>6
<1>11. ASSUME NEW p \in Payloads, CommitPayload(d, p) PROVE Ordered'
  <2>1. delivery[d] \in DeliveryRow /\ delivery[d].at = "commit" /\ a \in Assessments
    BY <1>1, <1>11, DeliveryHasRow DEF CommitPayload, Typed, DeliveryRow
  <2>2. CASE Turns(d, "raise")
    BY <1>3, <1>4, <1>7, <2>1, <2>2 DEF DeliverySteps
  <2>3. CASE /\ document' = [document EXCEPT ![a][p] = [document[a][p] EXCEPT !.state = "committed"]]
             /\ delivery' = [delivery EXCEPT ![d] = [delivery[d] EXCEPT !.rest = delivery[d].rest \ {p}]]
    <3>1. /\ delivery'[d] = [delivery[d] EXCEPT !.rest = delivery[d].rest \ {p}]
          /\ \A x \in Consumers \ {d} : delivery'[x] = delivery[x]
      BY <1>1, <2>3 DEF Typed, DeliveryTyped
    <3>2. /\ delivery'[d].at = "commit" /\ delivery'[d].on = a
          /\ delivery'[d].rest = delivery[d].rest \ {p}
      BY <2>1, <3>1 DEF DeliveryRow
    <3>3. UNCHANGED ledger /\ ledger[a].manifest \in SUBSET Payloads
      BY <1>1, <1>11, <2>1 DEF CommitPayload, Typed, LedgerTyped, LedgerRow
    <3> HIDE DEF a
    <3>4. document'[a][p].state = "committed"
      BY <1>1, <2>1, <2>3 DEF Typed, DocumentTyped, DocumentRow
    <3>5. \A q \in Payloads \ {p} : document'[a][q] = document[a][q]
      BY <1>1, <2>1, <2>3 DEF Typed, DocumentTyped
    <3>6. DeliveryInOrder(d)'
      BY <1>1, <2>1, <3>2, <3>3, <3>4, <3>5 DEF DeliveryInOrder, a
    <3>7. QED  BY <1>3, <3>1, <3>6
  <2>4. QED  BY <1>11, <2>2, <2>3 DEF CommitPayload
<1>12. CASE MarkCommitted(d)
  <2>1. delivery[d].at = "commit" /\ delivery[d].rest = {} /\ Turns(d, "show") /\ UNCHANGED <<ledger, document>>
    BY <1>12 DEF MarkCommitted
  <2>2. /\ \A x \in Consumers \ {d} : delivery'[x] = delivery[x]
        /\ delivery'[d].at = "show" /\ delivery'[d].on = a /\ a \in Assessments
    BY <1>7, <2>1 DEF DeliverySteps, DeliveryRow
  <2>3. ledger[a].manifest \in SUBSET Payloads  BY <1>1, <2>2 DEF Typed, LedgerTyped, LedgerRow
  <2>4. \A p \in ledger[a].manifest : document[a][p].state = "committed"
    BY <1>1, <2>1 DEF DeliveryInOrder
  <2>5. \A p \in ledger[a].manifest : staging[a][p].status # "none"
    BY <2>2, <2>3, <2>4 DEF Inv, StoresAgree, Registered, Stored
  <2>6. \A p \in ledger[a].manifest : staging'[a][p].status = "committed"
    BY <1>1, <1>12, <2>2, <2>3, <2>5 DEF MarkCommitted, MarkedAs, Typed, StagingTyped, StagingRow
  <2>7. ledger[a].status = "committed"  BY <1>1, <2>1 DEF DeliveryInOrder
  <2>8. DeliveryInOrder(d)'  BY <2>1, <2>2, <2>4, <2>6, <2>7 DEF DeliveryInOrder, Backed
  <2>9. QED  BY <1>3, <2>2, <2>8
<1>13. CASE ShowSnapshot(d) \/ ShowAlertSnapshot(d)
  <2>1. PICK at \in {"show", "show_alert"}, next \in {"show_alert", "done"} :
           delivery[d].at = at /\ Turns(d, next) /\ UNCHANGED <<ledger, document, staging>>
    BY <1>13 DEF ShowSnapshot, ShowAlertSnapshot, Show
  <2>2. /\ \A x \in Consumers \ {d} : delivery'[x] = delivery[x]
        /\ delivery'[d].at = next /\ delivery'[d].on = a
    BY <1>7, <2>1 DEF DeliverySteps
  <2>3. DeliveryInOrder(d)'  BY <1>1, <2>1, <2>2 DEF DeliveryInOrder, Backed
  <2>4. QED  BY <1>3, <2>2, <2>3
<1>14. CASE FindPayloads(d)
  <2> DEFINE found == Reserved(a) \cap Stored(a)
  <2>1. delivery[d].at = "find" /\ delivery[d] \in DeliveryRow /\ UNCHANGED ledger
    BY <1>1, <1>14, DeliveryHasRow DEF FindPayloads, Typed
  <2>2. CASE Turns(d, "raise")
    BY <1>3, <1>4, <1>7, <2>1, <2>2 DEF DeliverySteps
  <2>3. CASE delivery' = [delivery EXCEPT ![d] = [delivery[d] EXCEPT !.at = "compensate", !.rest = found]]
    <3> HIDE DEF found
    <3>1. /\ delivery'[d] = [delivery[d] EXCEPT !.at = "compensate", !.rest = found]
          /\ \A x \in Consumers \ {d} : delivery'[x] = delivery[x]
      BY <1>1, <2>3 DEF Typed, DeliveryTyped
    <3>2. delivery'[d].at = "compensate" /\ delivery'[d].on = a  BY <2>1, <3>1 DEF DeliveryRow
    <3>3. DeliveryInOrder(d)'  BY <1>1, <2>1, <3>2 DEF DeliveryInOrder
    <3>4. QED  BY <1>3, <3>1, <3>3
  <2>4. QED  BY <1>14, <2>2, <2>3 DEF FindPayloads
<1>15. ASSUME NEW p \in Payloads, MarkForRemoval(d, p) PROVE Ordered'
  <2>1. delivery[d].at = "compensate" /\ delivery[d] \in DeliveryRow /\ UNCHANGED ledger
    BY <1>1, <1>15, DeliveryHasRow DEF MarkForRemoval, Typed
  <2>2. delivery' = [delivery EXCEPT ![d] =
           [delivery[d] EXCEPT !.at = "remove", !.now = {p}, !.rest = delivery[d].rest \ {p}]]
    BY <1>15 DEF MarkForRemoval
  <2>3. /\ delivery'[d] = [delivery[d] EXCEPT !.at = "remove", !.now = {p}, !.rest = delivery[d].rest \ {p}]
        /\ \A x \in Consumers \ {d} : delivery'[x] = delivery[x]
    BY <1>1, <2>2 DEF Typed, DeliveryTyped
  <2>4. delivery'[d].at = "remove" /\ delivery'[d].on = a  BY <2>1, <2>3 DEF DeliveryRow
  <2>5. DeliveryInOrder(d)'  BY <1>1, <2>1, <2>4 DEF DeliveryInOrder
  <2>6. QED  BY <1>3, <2>3, <2>5
<1>16. CASE RemovePayload(d) \/ RemovalFails(d) \/ LookAgain(d)
  <2>1. delivery[d].at \in {"remove", "compensate"} /\ UNCHANGED ledger
    BY <1>16 DEF RemovePayload, RemovalFails, LookAgain
  <2>2. PICK at \in {"compensate", "mark", "raise"} : Turns(d, at)
    BY <1>16 DEF RemovePayload, RemovalFails, LookAgain
  <2>3. /\ \A x \in Consumers \ {d} : delivery'[x] = delivery[x]
        /\ delivery'[d].at = at /\ delivery'[d].on = a
    BY <1>7, <2>1, <2>2 DEF DeliverySteps
  <2>4. DeliveryInOrder(d)'  BY <1>1, <2>1, <2>3 DEF DeliveryInOrder
  <2>5. QED  BY <1>3, <2>3, <2>4
<1>17. QED
  BY <1>5, <1>6, <1>8, <1>9, <1>10, <1>11, <1>12, <1>13, <1>14, <1>15, <1>16 DEF DeliveryProgress

-----------------------------------------------------------------------------
(* The two stores and the display.                                         *)

LEMMA RemovalKept ==
    ASSUME Inv, Lawful
    PROVE  RemovalIsDue'
BY DEF Inv, Lawful, EvidenceStays, StatusMovesOn, RemovalIsDue

\* A document is new only where a collector has just stored what it reserved.
LEMMA RegisteredKept ==
    ASSUME Inv, Typed', Lawful, [Next]_vars
    PROVE  Registered'
<1>1. Typed  BY TypeParts DEF Typed, Inv
<1>2. ASSUME NEW a \in Assessments, NEW p \in Payloads, document'[a][p].state # "absent",
             document[a][p].state # "absent", document'[a][p].owner = document[a][p].owner
      PROVE  staging'[a][p].status # "none" /\ staging'[a][p].owner = document'[a][p].owner
  BY <1>2 DEF Inv, StoresAgree, Registered, Stored, Lawful, ReservationStays
<1>3. CASE UNCHANGED document
  BY <1>2, <1>3 DEF Registered, Stored
<1>4. ASSUME NEW c \in Collectors, NEW q \in Payloads, StagePayload(c, q) PROVE Registered'
  <2> DEFINE b == call[c].on
  <2>1. call[c] \in CallRow /\ b \in Assessments
    BY <1>1, <1>4, CallHasRow DEF StagePayload, Typed, CallRow
  <2>2. staging[b][q].status # "none" /\ staging[b][q].owner = call[c].token
    BY <1>4 DEF Inv, Ordered, CallInOrder, StagePayload
  <2>3. document' = [document EXCEPT ![b][q] = [state |-> "pending", owner |-> call[c].token]]
    BY <1>4 DEF StagePayload
  <2>4. UNCHANGED staging  BY <1>4 DEF StagePayload, postgres
  <2> HIDE DEF b
  <2>5. document'[b][q].owner = call[c].token
    BY <1>1, <2>1, <2>3 DEF Typed, DocumentTyped
  <2>6. \A a \in Assessments, p \in Payloads : a # b \/ p # q => document'[a][p] = document[a][p]
    BY <1>1, <2>1, <2>3 DEF Typed, DocumentTyped
  <2>7. ASSUME NEW a \in Assessments, NEW p \in Payloads, document'[a][p].state # "absent"
        PROVE  staging'[a][p].status # "none" /\ staging'[a][p].owner = document'[a][p].owner
    <3>1. CASE a = b /\ p = q  BY <2>2, <2>4, <2>5, <3>1
    <3>2. CASE a # b \/ p # q  BY <1>2, <2>6, <2>7, <3>2
    <3>3. QED  BY <3>1, <3>2
  <2>8. QED  BY <2>7 DEF Registered, Stored
<1>5. ASSUME \A a \in Assessments, p \in Payloads : document'[a][p].state # "absent" =>
                document[a][p].state # "absent" /\ document'[a][p].owner = document[a][p].owner
      PROVE  Registered'
  BY <1>2, <1>5 DEF Registered, Stored
<1>6. ASSUME NEW d \in Consumers, NEW q \in Payloads, CommitPayload(d, q) \/ MarkForRemoval(d, q)
      PROVE  Registered'
  <2> DEFINE b == delivery[d].on
  <2>1. b \in Assessments
    BY <1>1, <1>6, DeliveryHasRow DEF CommitPayload, MarkForRemoval, Typed, DeliveryRow
  <2>2. CASE UNCHANGED document  BY <1>3, <2>2
  <2>3. CASE \E state : /\ document' = [document EXCEPT ![b][q] = [document[b][q] EXCEPT !.state = state]]
                        /\ state # "absent" => document[b][q].state # "absent"
    <3>1. PICK state : /\ document' = [document EXCEPT ![b][q] = [document[b][q] EXCEPT !.state = state]]
                       /\ state # "absent" => document[b][q].state # "absent"
      BY <2>3
    <3> HIDE DEF b
    <3>2. document[b][q] \in DocumentRow  BY <1>1, <2>1 DEF Typed, DocumentTyped
    <3>3. document'[b][q].state = state /\ document'[b][q].owner = document[b][q].owner
      BY <1>1, <2>1, <3>1, <3>2 DEF Typed, DocumentTyped, DocumentRow
    <3>4. \A a \in Assessments, p \in Payloads : a # b \/ p # q => document'[a][p] = document[a][p]
      BY <1>1, <2>1, <3>1 DEF Typed, DocumentTyped
    <3>5. QED  BY <1>5, <3>1, <3>3, <3>4
  <2>4. CASE CommitPayload(d, q)
    <3>1. \/ UNCHANGED document
          \/ /\ document[b][q].state \in {"pending", "committed"}
             /\ document' = [document EXCEPT ![b][q] = [document[b][q] EXCEPT !.state = "committed"]]
      BY <2>4 DEF CommitPayload
    <3>2. QED  BY <2>2, <2>3, <3>1
  <2>5. CASE MarkForRemoval(d, q)
    <3> DEFINE state == IF document[b][q].state = "pending" THEN "pending_compensation"
                        ELSE document[b][q].state
    <3>1. document' = [document EXCEPT ![b][q] = [document[b][q] EXCEPT !.state = state]]
      BY <2>5 DEF MarkForRemoval
    <3>2. state # "absent" => document[b][q].state # "absent"  OBVIOUS
    <3> HIDE DEF state
    <3>3. QED  BY <2>3, <3>1, <3>2
  <2>6. QED  BY <1>6, <2>4, <2>5
<1>7. ASSUME NEW d \in Consumers, RemovePayload(d) PROVE Registered'
  BY <1>1, <1>5, <1>7 DEF RemovePayload, Absent, Typed, DocumentTyped
<1>8. CASE UNCHANGED vars  BY <1>3, <1>8 DEF vars
<1>9. ASSUME NEW c \in Collectors, Collecting(c) PROVE Registered'
  BY <1>3, <1>4, <1>9 DEF Collecting, BeginNew, BeginTakeover, BeginFrozen, Collect, ReservePayloads,
     AllStaged, CheckPayloads, FreezeAssessment, CollectionRaises, AbortCollection, Score,
     CommitAssessment, CollectorDies, mongo
<1>10. ASSUME NEW d \in Consumers, DeliveryProgress(d) \/ ConsumerRaises(d) \/ ConsumerDies(d)
       PROVE Registered'
  BY <1>3, <1>6, <1>7, <1>10 DEF DeliveryProgress, DeliverEvent, ReadAssessment, VerifyPayloads,
     MarkCommitted, ShowSnapshot, ShowAlertSnapshot, Show, NoAlertSnapshot, FindPayloads,
     RemovalFails, LookAgain, MarkCompensated, PublishEvent, MarkFailed, ConsumerRaises, ConsumerDies, mongo
<1>11. CASE Environment
  BY <1>3, <1>11 DEF Environment, RunLosesOwner, RunChangesOwner, RunEnds, BeginAfterLoss,
     CollectionLeaseExpires, mongo
<1>12. QED  BY <1>8, <1>9, <1>10, <1>11 DEF Next

LEMMA EvidenceKept ==
    ASSUME Inv, Typed', Lawful, [Next]_vars
    PROVE  EvidenceIsKept'
<1>1. Typed  BY TypeParts DEF Typed, Inv
<1>2. ASSUME NEW a \in Assessments, ledger[a].status \in {"frozen", "committed"}
      PROVE  /\ ledger'[a].manifest # {}
             /\ Verified(a, ledger[a].manifest, ledger[a].token)'
  <2>1. ledger[a].manifest \in SUBSET Payloads  BY <1>1 DEF Typed, LedgerTyped, LedgerRow
  <2>2. ledger[a].manifest # {} /\ Verified(a, ledger[a].manifest, ledger[a].token)
    BY <1>2 DEF Inv, StoresAgree, EvidenceIsKept
  <2>3. ledger'[a].manifest = ledger[a].manifest /\ ledger'[a].token = ledger[a].token
    BY <1>2 DEF Lawful, StatusMovesOn
  <2>4. \A p \in ledger[a].manifest : /\ document'[a][p].state \in {"pending", "committed"}
                                      /\ document'[a][p].owner = ledger[a].token
    BY <1>2, <2>1, <2>2 DEF Verified, Lawful, EvidenceStays
  <2>5. QED  BY <2>2, <2>3, <2>4 DEF Verified
<1>3. ASSUME \A a \in Assessments : ledger'[a].status \in {"frozen", "committed"} =>
                ledger[a].status \in {"frozen", "committed"}
      PROVE  EvidenceIsKept'
  BY <1>2, <1>3 DEF EvidenceIsKept
<1>4. ASSUME NEW c \in Collectors, FreezeAssessment(c) PROVE EvidenceIsKept'
  <2>1. call[c] \in CallRow
    BY <1>1, <1>4, CallHasRow DEF FreezeAssessment, Typed
  <2> PICK b \in Assessments : b = call[c].on  BY <2>1 DEF CallRow
  <2>2. /\ call[c].found # {} /\ call[c].found \in SUBSET Payloads
        /\ ledger[b].status = "collecting" /\ ledger[b].token = call[c].token
        /\ Verified(b, call[c].found, call[c].token)
    BY <1>4, <2>1 DEF FreezeAssessment, Collects, Inv, Ordered, CallInOrder, CallRow
  <2>3. ledger' = [ledger EXCEPT ![b] = [ledger[b] EXCEPT !.status = "frozen", !.manifest = call[c].found]]
    BY <1>4 DEF FreezeAssessment
  <2>4. UNCHANGED document  BY <1>4 DEF FreezeAssessment, mongo
  <2>5. ledger'[b].manifest = call[c].found /\ ledger'[b].token = call[c].token
    BY <1>1, <2>1, <2>2, <2>3 DEF Typed, LedgerTyped, LedgerRow
  <2>6. \A a \in Assessments \ {b} : ledger'[a] = ledger[a]
    BY <1>1, <2>1, <2>3 DEF Typed, LedgerTyped
  <2>7. Verified(b, ledger[b].manifest, ledger[b].token)'  BY <2>2, <2>4, <2>5 DEF Verified
  <2>8. QED  BY <1>2, <2>2, <2>5, <2>6, <2>7 DEF EvidenceIsKept
<1>5. ASSUME NEW c \in Collectors, CommitAssessment(c) PROVE EvidenceIsKept'
  BY <1>1, <1>3, <1>5, CallHasRow DEF CommitAssessment, Typed, LedgerTyped, LedgerRow, CallRow
<1>6. ASSUME NEW c \in Collectors, NEW a \in Assessments, BeginNew(c, a) \/ BeginTakeover(c, a)
      PROVE  EvidenceIsKept'
  BY <1>1, <1>3, <1>6 DEF BeginNew, BeginTakeover, Typed, LedgerTyped, LedgerRow
<1>7. ASSUME NEW a \in Assessments, GivenUp(a) PROVE EvidenceIsKept'
  BY <1>1, <1>3, <1>7 DEF GivenUp, Typed, LedgerTyped, LedgerRow
<1>8. CASE UNCHANGED ledger  BY <1>3, <1>8
<1>9. ASSUME NEW c \in Collectors, Collecting(c) PROVE EvidenceIsKept'
  <2>1. CASE AbortCollection(c)
    BY <1>1, <1>7, <1>8, <2>1, CallHasRow DEF AbortCollection, Typed, CallRow
  <2>2. QED
    BY <1>4, <1>5, <1>6, <1>8, <1>9, <2>1 DEF Collecting, BeginFrozen, Collect, ReservePayloads,
       StagePayload, AllStaged, CheckPayloads, CollectionRaises, Score, CollectorDies, postgres
<1>10. ASSUME NEW d \in Consumers, DeliveryProgress(d) \/ ConsumerRaises(d) \/ ConsumerDies(d)
       PROVE EvidenceIsKept'
  BY <1>8, <1>10 DEF DeliveryProgress, DeliverEvent, ReadAssessment, VerifyPayloads, CommitPayload,
     MarkCommitted, ShowSnapshot, ShowAlertSnapshot, Show, NoAlertSnapshot, FindPayloads, MarkForRemoval,
     RemovePayload, RemovalFails, LookAgain, MarkCompensated, PublishEvent, MarkFailed, ConsumerRaises,
     ConsumerDies, postgres
<1>11. CASE Environment
  <2>1. ASSUME NEW a \in Assessments, CollectionLeaseExpires(a) PROVE EvidenceIsKept'
    BY <1>1, <1>3, <2>1 DEF CollectionLeaseExpires, Typed, LedgerTyped, LedgerRow
  <2>2. QED
    BY <1>7, <1>8, <1>11, <2>1 DEF Environment, RunLosesOwner, RunChangesOwner, RunEnds, BeginAfterLoss
<1>12. QED  BY <1>8, <1>9, <1>10, <1>11 DEF Next, vars

LEMMA DisplayKept ==
    ASSUME Inv, Typed', Lawful, [Next]_vars
    PROVE  DisplayIsBacked'
<1>1. Typed  BY TypeParts DEF Typed, Inv
<1>2. ASSUME NEW a \in Assessments, NEW v \in {"snapshot", "alert"}, shown[a][v] # {},
             shown'[a][v] = shown[a][v]
      PROVE  /\ ledger'[a].status = "committed" /\ shown'[a][v] = ledger'[a].manifest
             /\ \A p \in shown'[a][v] : Backed(a, p)'
  <2>1. shown[a][v] \in SUBSET Payloads  BY <1>1 DEF Typed, ShownTyped
  <2>2. /\ ledger[a].status = "committed" /\ shown[a][v] = ledger[a].manifest
        /\ \A p \in shown[a][v] : Backed(a, p)
    BY <1>2 DEF Inv, DisplayIsBacked, Backed
  <2>3. QED
    BY <1>2, <2>1, <2>2 DEF Backed, Lawful, StatusMovesOn, EvidenceStays, ReservationStays
<1>3. CASE UNCHANGED shown  BY <1>2, <1>3 DEF DisplayIsBacked, Backed
<1>4. ASSUME NEW d \in Consumers, ShowSnapshot(d) \/ ShowAlertSnapshot(d) PROVE DisplayIsBacked'
  <2> DEFINE b == delivery[d].on
  <2>1. PICK view \in {"snapshot", "alert"} :
           /\ delivery[d].at \in {"show", "show_alert"}
           /\ shown' = [shown EXCEPT ![b][view] = IF shown[b][view] = {} THEN ledger[b].manifest ELSE shown[b][view]]
           /\ UNCHANGED <<ledger, staging, document>>
    BY <1>4 DEF ShowSnapshot, ShowAlertSnapshot, Show, postgres
  <2>2. b \in Assessments  BY <1>1, <2>1, DeliveryHasRow DEF Typed, DeliveryRow
  <2>3. ledger[b].status = "committed" /\ \A p \in ledger[b].manifest : Backed(b, p)
    BY <2>1 DEF Inv, Ordered, DeliveryInOrder
  <2> HIDE DEF b
  <2>4. shown'[b][view] = IF shown[b][view] = {} THEN ledger[b].manifest ELSE shown[b][view]
    BY <1>1, <2>1, <2>2 DEF Typed, ShownTyped
  <2>5. \A a \in Assessments, v \in {"snapshot", "alert"} : a # b \/ v # view =>
           shown'[a][v] = shown[a][v]
    BY <1>1, <2>1, <2>2 DEF Typed, ShownTyped
  <2>6. ASSUME NEW a \in Assessments, NEW v \in {"snapshot", "alert"}, shown'[a][v] # {}
        PROVE  /\ ledger'[a].status = "committed" /\ shown'[a][v] = ledger'[a].manifest
               /\ \A p \in shown'[a][v] : Backed(a, p)'
    <3>1. CASE shown'[a][v] = shown[a][v]  BY <1>2, <2>6, <3>1
    <3>2. CASE a = b /\ v = view /\ shown'[a][v] = ledger[b].manifest
      BY <2>1, <2>3, <3>2 DEF Backed
    <3>3. QED  BY <2>4, <2>5, <3>1, <3>2
  <2>7. QED  BY <2>6 DEF DisplayIsBacked, Backed
<1>5. ASSUME NEW c \in Collectors, Collecting(c) PROVE DisplayIsBacked'
  BY <1>3, <1>5 DEF Collecting, BeginNew, BeginTakeover, BeginFrozen, Collect, ReservePayloads,
     StagePayload, AllStaged, CheckPayloads, FreezeAssessment, CollectionRaises, AbortCollection, Score,
     CommitAssessment, CollectorDies, mongo
<1>6. ASSUME NEW d \in Consumers, DeliveryProgress(d) \/ ConsumerRaises(d) \/ ConsumerDies(d)
      PROVE DisplayIsBacked'
  BY <1>3, <1>4, <1>6 DEF DeliveryProgress, DeliverEvent, ReadAssessment, VerifyPayloads, CommitPayload,
     MarkCommitted, NoAlertSnapshot, FindPayloads, MarkForRemoval, RemovePayload,
     RemovalFails, LookAgain, MarkCompensated, PublishEvent, MarkFailed, ConsumerRaises, ConsumerDies, mongo
<1>7. CASE Environment
  BY <1>3, <1>7 DEF Environment, RunLosesOwner, RunChangesOwner, RunEnds, BeginAfterLoss,
     CollectionLeaseExpires, mongo
<1>8. QED  BY <1>3, <1>5, <1>6, <1>7 DEF Next, vars

LEMMA InvStep == Inv /\ [Next]_vars => Inv'
<1> SUFFICES ASSUME Inv, [Next]_vars PROVE Inv'
    OBVIOUS
<1>1. TypeOK'  BY TypeStep DEF Inv
<1>2. Typed'
  BY <1>1 DEF TypeOK, Typed, LedgerTyped, StagingTyped, DocumentTyped, ShownTyped, EventTyped,
     RunTyped, CallTyped, DeliveryTyped, LedgerRow, StagingRow, DocumentRow, EventRow, CallSteps,
     CallRow, DeliverySteps, DeliveryRow
<1>3. Lawful  BY LawfulStep
<1>4. Ordered'
  <2>1. CASE UNCHANGED <<call, delivery>>  BY <1>3, <2>1, OrderKept DEF Ordered
  <2>2. CASE Environment
    BY <2>1, <2>2 DEF Environment, RunLosesOwner, RunChangesOwner, RunEnds, BeginAfterLoss,
       CollectionLeaseExpires
  <2>3. QED  BY <1>2, <1>3, <2>1, <2>2, CollectorOrdered, ConsumerOrdered DEF Next, vars
<1>5. RemovalIsDue' /\ Registered' /\ EvidenceIsKept' /\ DisplayIsBacked'
  BY <1>2, <1>3, RemovalKept, RegisteredKept, EvidenceKept, DisplayKept
<1>6. QED  BY <1>1, <1>4, <1>5 DEF Inv, StoresAgree

-----------------------------------------------------------------------------
(* The theorems.                                                           *)

\* The inductive invariant of the ledger, its stores and its processes
\* (assessment_repo.py, assessment_service.py, assessment_projection.py).
THEOREM InvHolds == Spec => []Inv
BY Initially, InvStep, PTL DEF Spec

\* Whatever dies between the two stores, every document has its reservation
\* and the evidence of a frozen assessment stays (reserve_payloads,
\* freeze_assessment, compensate_raw_payloads).
THEOREM StoresAlwaysAgree == Spec => []StoresAgree
<1>1. Inv => StoresAgree  BY DEF Inv
<1>2. QED  BY <1>1, InvHolds, PTL

\* Only committed assessments are displayed, with committed evidence, and both
\* views show the same (project_assessment).
THEOREM DisplaysAreBacked == Spec => []DisplayIsBacked
<1>1. Inv => DisplayIsBacked  BY DEF Inv
<1>2. QED  BY <1>1, InvHolds, PTL

\* Every reachable state of the ledger is well typed.
THEOREM TypesHold == Spec => []TypeOK
<1>1. Inv => TypeOK  BY DEF Inv
<1>2. QED  BY <1>1, InvHolds, PTL
=============================================================================
