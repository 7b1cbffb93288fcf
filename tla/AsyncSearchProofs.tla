------------------------- MODULE AsyncSearchProofs -------------------------
(***************************************************************************)
(* Proofs about AsyncSearch for every set of searches, pollers and limits. *)
(***************************************************************************)
EXTENDS AsyncSearch, TLAPS

-----------------------------------------------------------------------------
(* The inductive invariant.                                                *)

\* Who still has to read doneCh, and who has decided the search.
Control(s) ==
  /\ handler[s] = "idle" <=> worker[s] = "idle"
  /\ handler[s] \in {"idle", "waiting", "storing"} =>
       background[s] = "idle" /\ verdict[s] = Absent
  /\ handler[s] \in {"idle", "waiting"} => got[s] = Absent
  /\ handler[s] = "storing" => got[s] # Absent
  /\ handler[s] \in {"partial", "partialDelete"} => background[s] # "idle"
  /\ handler[s] \in {"returning", "done"} /\ background[s] = "idle" =>
       verdict[s] # Absent
  /\ background[s] = "receiving" => got[s] = Absent /\ verdict[s] = Absent
  /\ background[s] = "storing" => got[s] # Absent /\ verdict[s] = Absent
  /\ background[s] \in {"assignBody", "assignErr", "done"} => verdict[s] # Absent
  /\ verdict[s] # Absent => got[s] # Absent

\* An error is the first message the worker sends, and the one that is read.
FirstMessage(s) ==
  /\ worker[s] = "idle" => s \notin doomed
  /\ s \notin doomed /\ worker[s] # "done" => doneCh[s] = <<>> /\ got[s] = Absent
  /\ s \in doomed => doneCh[s] # <<>> \/ got[s] # Absent
  /\ s \in doomed /\ got[s] = Absent => doneCh[s] = <<"error">>
  /\ s \in doomed => got[s] # "ok" /\ verdict[s] # "ok"
  /\ worker[s] \in {"noHits", "respondError"} => s \in doomed

\* Every copy of the result is the verdict.
Copies(s) ==
  /\ stored[s] # Absent => stored[s] = verdict[s]
  /\ ret[s].body \in Outcomes => ret[s].body = verdict[s]
  /\ ret[s].err => verdict[s] = "error"
  /\ handler[s] \in {"partialDelete", "returning"} => ret[s].body # Absent
  /\ background[s] \in {"assignErr", "done"} => ret[s].body # Absent
  /\ told[s] \intersect Outcomes \subseteq {verdict[s]}
  /\ "completed" \in told[s] => verdict[s] # Absent

\* What the evictor collected has not been stored again since.
Evictable(s) ==
  /\ s \in oldResults => stored[s] # Absent
  /\ s \in toEvict => verdict[s] # Absent /\ (stored[s] # Absent => s \in oldResults)

\* A poller that loaded a result holds the verdict.
Held(p) ==
  poll[p].id # Absent => poll[p].res # Absent /\ poll[p].res = verdict[poll[p].id]

IInv ==
  /\ TypeOK
  /\ \A s \in Searches :
       Control(s) /\ FirstMessage(s) /\ Copies(s) /\ Evictable(s)
  /\ \A p \in Pollers : Held(p)

-----------------------------------------------------------------------------
(* Lemmas about the channel.                                               *)

\* A buffered channel of capacity one accepts a message only when it is empty.
LEMMA SendEffect ==
  ASSUME TypeOK, NEW s \in Searches, NEW m \in Outcomes, Send(s, m)
  PROVE  /\ doneCh[s] = <<>>
         /\ doneCh' = [doneCh EXCEPT ![s] = <<m>>]
<1>1. doneCh[s] = <<>>
  <2>1. doneCh[s] \in {<<>>} \union {<<o>> : o \in Outcomes}
    BY DEF TypeOK
  <2>2. \A o : Len(<<o>>) = 1
    OBVIOUS
  <2> QED BY <2>1, <2>2 DEF Send, DoneChCapacity
<1>2. Append(doneCh[s], m) = <<m>>
  BY <1>1
<1> QED BY <1>1, <1>2 DEF Send

\* A receive takes the only message and leaves the channel empty.
LEMMA ReceiveEffect ==
  ASSUME TypeOK, NEW s \in Searches, Receive(s)
  PROVE  /\ Head(doneCh[s]) \in Outcomes
         /\ doneCh[s] = <<Head(doneCh[s])>>
         /\ doneCh' = [doneCh EXCEPT ![s] = <<>>]
         /\ got' = [got EXCEPT ![s] = Head(doneCh[s])]
<1>1. PICK o \in Outcomes : doneCh[s] = <<o>>
  BY DEF TypeOK, Receive
<1>2. Head(<<o>>) = o /\ Tail(<<o>>) = <<>>
  OBVIOUS
<1> QED BY <1>1, <1>2 DEF Receive

-----------------------------------------------------------------------------
(* Init and the actions of the worker.                                     *)

LEMMA InitIInv == Init => IInv
<1> SUFFICES ASSUME Init PROVE IInv
  OBVIOUS
<1>1. TypeOK
  BY DEF Init, TypeOK, WorkerStates, HandlerStates, BackgroundStates,
         MaybeOutcomes, Absent
<1>2. ASSUME NEW s \in Searches
      PROVE  Control(s) /\ FirstMessage(s) /\ Copies(s) /\ Evictable(s)
  BY DEF Init, Control, FirstMessage, Copies, Evictable, Outcomes, Absent
<1>3. \A p \in Pollers : Held(p)
  BY DEF Init, Held, Absent
<1> QED BY <1>1, <1>2, <1>3 DEF IInv

\* A worker that reports an error keeps the invariant wherever it stands, as
\* long as it has started and is not finished.
LEMMA FailIInv ==
  ASSUME IInv, NEW s \in Searches,
         worker[s] \notin {"idle", "done"},
         NEW next \in WorkerStates \ {"idle", "start"}, Fail(s, next), UNCHANGED ctxs
  PROVE  IInv'
<1> USE DEF IInv, Fail, Absent, Outcomes
<1>1. doneCh[s] = <<>> /\ doneCh' = [doneCh EXCEPT ![s] = <<"error">>]
  BY SendEffect
<1>2. TypeOK'
  BY <1>1 DEF TypeOK, storage, ctxs, eviction
<1>3. ASSUME NEW x \in Searches
      PROVE  (Control(x) /\ FirstMessage(x) /\ Copies(x) /\ Evictable(x))'
  <2>1. Control(x)'
    BY DEF TypeOK, Control, WorkerStates
  <2>2. FirstMessage(x)'
    <3>1. <<"error">> # <<>>
      OBVIOUS
    <3>2. CASE x = s
      BY <1>1, <3>1, <3>2 DEF TypeOK, Control, FirstMessage, WorkerStates
    <3>3. CASE x # s
      BY <1>1, <3>3 DEF TypeOK, FirstMessage
    <3> QED BY <3>2, <3>3
  <2>3. Copies(x)' /\ Evictable(x)'
    BY DEF Copies, Evictable, storage, eviction
  <2> QED BY <2>1, <2>2, <2>3
<1>4. \A p \in Pollers : Held(p)'
  BY DEF Held
<1> QED BY <1>2, <1>3, <1>4

LEMMA FailingStepsIInv ==
  ASSUME IInv, NEW s \in Searches,
         Refuse(s) \/ QueriesFail(s) \/ NoHits(s) \/ PostProcessFails(s)
         \/ RespondError(s) \/ Panic(s)
  PROVE  IInv'
<1>1. CASE Refuse(s)
  BY <1>1, FailIInv DEF Refuse, WorkerStates
<1>2. CASE QueriesFail(s)
  BY <1>2, FailIInv DEF QueriesFail, WorkerStates
<1>3. CASE NoHits(s)
  BY <1>3, FailIInv DEF NoHits, WorkerStates
<1>4. CASE PostProcessFails(s)
  BY <1>4, FailIInv DEF PostProcessFails, WorkerStates
<1>5. CASE RespondError(s)
  BY <1>5, FailIInv DEF RespondError, WorkerStates
<1>6. CASE Panic(s)
  BY <1>6, FailIInv DEF Panic, WorkerStates
<1> QED BY <1>1, <1>2, <1>3, <1>4, <1>5, <1>6

LEMMA RespondIInv ==
  ASSUME IInv, NEW s \in Searches, Respond(s) PROVE IInv'
<1> USE DEF IInv, Respond, Absent, Outcomes
<1>1. doneCh[s] = <<>> /\ doneCh' = [doneCh EXCEPT ![s] = <<"ok">>]
  BY SendEffect
<1>2. TypeOK'
  BY <1>1 DEF TypeOK, storage, ctxs, eviction, history, WorkerStates
<1>3. ASSUME NEW x \in Searches
      PROVE  (Control(x) /\ FirstMessage(x) /\ Copies(x) /\ Evictable(x))'
  <2>1. Control(x)'
    BY DEF TypeOK, Control, WorkerStates, history
  <2>2. FirstMessage(x)'
    <3>1. <<"ok">> # <<>>
      OBVIOUS
    <3> QED BY <1>1, <3>1 DEF TypeOK, FirstMessage, WorkerStates, history
  <2>3. Copies(x)' /\ Evictable(x)'
    BY DEF Copies, Evictable, storage, eviction, history
  <2> QED BY <2>1, <2>2, <2>3
<1>4. \A p \in Pollers : Held(p)'
  BY DEF Held, history
<1> QED BY <1>2, <1>3, <1>4

\* Admission, the database and post-processing only move the worker.
LEMMA WorkerMovesIInv ==
  ASSUME IInv, NEW s \in Searches,
         Admit(s) \/ QueriesSucceed(s) \/ PostProcess(s)
  PROVE  IInv'
<1> USE DEF IInv, Admit, QueriesSucceed, PostProcess, channels, storage, ctxs,
            eviction, history
<1>1. TypeOK'
  BY DEF TypeOK, WorkerStates
<1>2. ASSUME NEW x \in Searches
      PROVE  (Control(x) /\ FirstMessage(x) /\ Copies(x) /\ Evictable(x))'
  BY DEF TypeOK, WorkerStates, Control, FirstMessage, Copies, Evictable
<1>3. \A p \in Pollers : Held(p)'
  BY DEF Held
<1> QED BY <1>1, <1>2, <1>3

-----------------------------------------------------------------------------
(* The actions of the handler and of the background goroutine.             *)

\* Nothing but control changes, or a client hears an answer already settled.
LEMMA HandlerMovesIInv ==
  ASSUME IInv, NEW s \in Searches,
         Submit(s) \/ TimerFires(s) \/ PartialLoad(s) \/ Return(s)
  PROVE  IInv'
<1> USE DEF IInv, channels, storage, ctxs, eviction, history
<1>1. CASE Submit(s)
  BY <1>1 DEF Submit, TypeOK, WorkerStates, HandlerStates, Control,
              FirstMessage, Copies, Evictable, Held
<1>2. CASE TimerFires(s)
  BY <1>2 DEF TimerFires, TypeOK, HandlerStates, BackgroundStates, Control,
              FirstMessage, Copies, Evictable, Held, Absent
<1>3. CASE PartialLoad(s)
  BY <1>3 DEF PartialLoad, TypeOK, HandlerStates, BackgroundStates, Control,
              FirstMessage, Copies, Evictable, Held, MaybeOutcomes, Outcomes, Absent
<1>4. CASE Return(s)
  BY <1>4 DEF Return, Tell, Answer, TypeOK, HandlerStates, BackgroundStates,
              Control, FirstMessage, Copies, Evictable, Held, MaybeOutcomes,
              Answers, Outcomes, Absent
<1> QED BY <1>1, <1>2, <1>3, <1>4

\* The reader takes the one message that decides the search.
LEMMA ReceiveIInv ==
  ASSUME IInv, NEW s \in Searches, ReceiveInTime(s) \/ LateReceive(s)
  PROVE  IInv'
<1> USE DEF IInv, ReceiveInTime, LateReceive, Absent, Outcomes
<1> DEFINE m == Head(doneCh[s])
<1>1. /\ m \in Outcomes
      /\ doneCh[s] = <<m>>
      /\ doneCh' = [doneCh EXCEPT ![s] = <<>>]
      /\ got' = [got EXCEPT ![s] = m]
  BY ReceiveEffect
<1>2. m = "error" \/ s \notin doomed
  <2>1. s \in doomed => got[s] = Absent
    BY DEF Control
  <2>2. s \in doomed => Head(<<"error">>) = "error" /\ doneCh[s] = <<"error">>
    BY <2>1 DEF FirstMessage
  <2> QED BY <2>2
<1>3. <<m>> # <<>>
  OBVIOUS
<1> HIDE DEF m
<1>4. TypeOK'
  BY <1>1, ZenonT(60) DEF TypeOK, HandlerStates, BackgroundStates, MaybeOutcomes, storage,
              ctxs, eviction, history
<1>5. ASSUME NEW x \in Searches
      PROVE  (Control(x) /\ FirstMessage(x) /\ Copies(x) /\ Evictable(x))'
  <2>1. Control(x)'
    BY <1>1 DEF TypeOK, HandlerStates, BackgroundStates, Control, history
  <2>2. FirstMessage(x)'
    BY <1>1, <1>2, <1>3 DEF TypeOK, FirstMessage, history
  <2>3. Copies(x)' /\ Evictable(x)'
    BY DEF TypeOK, HandlerStates, BackgroundStates, Copies, Evictable, storage, eviction, history
  <2> QED BY <2>1, <2>2, <2>3
<1>6. \A p \in Pollers : Held(p)'
  BY DEF Held, history
<1> QED BY <1>4, <1>5, <1>6

\* A synchronous search is decided as its message is read.
LEMMA ReceiveSyncIInv ==
  ASSUME IInv, NEW s \in Searches, ReceiveSync(s)
  PROVE  IInv'
<1> USE DEF IInv, ReceiveSync, Absent, Outcomes
<1> DEFINE m == Head(doneCh[s])
<1>1. /\ m \in Outcomes
      /\ doneCh[s] = <<m>>
      /\ doneCh' = [doneCh EXCEPT ![s] = <<>>]
      /\ got' = [got EXCEPT ![s] = m]
  BY ReceiveEffect
<1>2. m = "error" \/ s \notin doomed
  <2>1. s \in doomed => got[s] = Absent
    BY DEF Control
  <2>2. s \in doomed => Head(<<"error">>) = "error" /\ doneCh[s] = <<"error">>
    BY <2>1 DEF FirstMessage
  <2> QED BY <2>2
<1>3. PICK res \in MarshalOutcomes(m) :
        /\ verdict' = [verdict EXCEPT ![s] = res]
        /\ ret' = [ret EXCEPT ![s] = [body |-> res, err |-> res = "error"]]
  OBVIOUS
<1>4. res \in Outcomes /\ (m = "error" => res = "error")
  BY <1>1 DEF MarshalOutcomes
<1>5. <<m>> # <<>>
  OBVIOUS
<1>6. verdict[s] = Absent /\ background[s] = "idle"
  BY DEF Control
<1> HIDE DEF m
<1>7. TypeOK'
  BY <1>1, <1>3, <1>4 DEF TypeOK, HandlerStates, MaybeOutcomes, storage, ctxs, eviction
<1>8. ASSUME NEW x \in Searches
      PROVE  (Control(x) /\ FirstMessage(x) /\ Copies(x) /\ Evictable(x))'
  <2>1. Control(x)'
    BY <1>1, <1>3, <1>4 DEF TypeOK, HandlerStates, Control
  <2>2. FirstMessage(x)'
    BY <1>1, <1>2, <1>3, <1>4, <1>5, ZenonT(60) DEF TypeOK, FirstMessage
  <2>3. Copies(x)'
    BY <1>3, <1>4, <1>6 DEF TypeOK, MaybeOutcomes, HandlerStates, Copies, storage
  <2>4. Evictable(x)'
    BY <1>3, <1>4, <1>6 DEF TypeOK, Evictable, storage, eviction
  <2> QED BY <2>1, <2>2, <2>3, <2>4
<1>9. \A p \in Pollers : Held(p)'
  BY <1>3, <1>6 DEF TypeOK, Held
<1> QED BY <1>7, <1>8, <1>9

\* The handler decides an async search in time, and stores it if asked to.
LEMMA StoreInTimeIInv ==
  ASSUME IInv, NEW s \in Searches, StoreInTime(s)
  PROVE  IInv'
<1> USE DEF IInv, StoreInTime, Absent, Outcomes
<1>1. PICK res \in MarshalOutcomes(got[s]) :
        /\ verdict' = [verdict EXCEPT ![s] = res]
        /\ ret' = [ret EXCEPT ![s] = [body |-> res, err |-> res = "error"]]
        /\ IF req[s].keep THEN StoreResult(s, res) ELSE UNCHANGED storage
  OBVIOUS
<1>2. res \in Outcomes /\ (got[s] # "ok" => res = "error")
  BY DEF MarshalOutcomes
<1>3. verdict[s] = Absent /\ background[s] = "idle" /\ got[s] # Absent
  BY DEF Control
<1>4. stored[s] = Absent /\ s \notin toEvict /\ s \notin oldResults
  BY <1>3 DEF TypeOK, MaybeOutcomes, Copies, Evictable
<1>5. stored' = stored \/ stored' = [stored EXCEPT ![s] = res]
  BY <1>1 DEF StoreResult, storage
<1>6. oldResults' = oldResults
  <2> HIDE DEF IInv, StoreInTime
  <2>1. oldResults \ {s} = oldResults
    BY <1>4
  <2> QED BY <1>1, <2>1 DEF StoreResult, storage
<1>7. TypeOK'
  BY <1>1, <1>2, <1>5, <1>6 DEF TypeOK, HandlerStates, MaybeOutcomes, channels, ctxs, eviction
<1>8. ASSUME NEW x \in Searches
      PROVE  (Control(x) /\ FirstMessage(x) /\ Copies(x) /\ Evictable(x))'
  <2>1. Control(x)'
    BY <1>1, <1>2, <1>3 DEF TypeOK, HandlerStates, Control, channels
  <2>2. FirstMessage(x)'
    BY <1>1, <1>2, <1>3 DEF TypeOK, FirstMessage, channels
  <2>3. Copies(x)'
    BY <1>1, <1>2, <1>3, <1>5 DEF TypeOK, MaybeOutcomes, HandlerStates, Copies
  <2>4. Evictable(x)'
    BY <1>1, <1>2, <1>4, <1>5, <1>6 DEF TypeOK, Evictable, eviction
  <2> QED BY <2>1, <2>2, <2>3, <2>4
<1>9. \A p \in Pollers : Held(p)'
  BY <1>1, <1>3 DEF TypeOK, Held
<1> QED BY <1>7, <1>8, <1>9

\* The background goroutine decides and stores a late result.
LEMMA LateStoreIInv ==
  ASSUME IInv, NEW s \in Searches, LateStore(s)
  PROVE  IInv'
<1> USE DEF IInv, LateStore, Absent, Outcomes
<1>1. PICK res \in MarshalOutcomes(got[s]) :
        /\ verdict' = [verdict EXCEPT ![s] = res]
        /\ StoreResult(s, res)
  OBVIOUS
<1>2. res \in Outcomes /\ (got[s] # "ok" => res = "error")
  BY DEF MarshalOutcomes
<1>3. verdict[s] = Absent /\ got[s] # Absent
  BY DEF Control
<1>4. s \notin toEvict
  BY <1>3 DEF Evictable
<1>5. stored' = [stored EXCEPT ![s] = res] /\ oldResults' = oldResults \ {s}
  BY <1>1 DEF StoreResult
<1>6. TypeOK'
  BY <1>1, <1>2, <1>5 DEF TypeOK, BackgroundStates, MaybeOutcomes, channels, ctxs, eviction
<1>7. ASSUME NEW x \in Searches
      PROVE  (Control(x) /\ FirstMessage(x) /\ Copies(x) /\ Evictable(x))'
  <2>1. Control(x)'
    BY <1>1, <1>2, <1>3 DEF TypeOK, HandlerStates, BackgroundStates, Control, channels
  <2>2. FirstMessage(x)'
    BY <1>1, <1>2, <1>3 DEF TypeOK, FirstMessage, channels
  <2>3. Copies(x)'
    BY <1>1, <1>2, <1>3, <1>5 DEF TypeOK, MaybeOutcomes, BackgroundStates, Copies
  <2>4. Evictable(x)'
    BY <1>1, <1>2, <1>4, <1>5 DEF TypeOK, Evictable, eviction
  <2> QED BY <2>1, <2>2, <2>3, <2>4
<1>8. \A p \in Pollers : Held(p)'
  BY <1>1, <1>3 DEF TypeOK, Held
<1> QED BY <1>6, <1>7, <1>8

\* The unsynchronized assignments only ever write the verdict.
LEMMA LateAssignIInv ==
  ASSUME IInv, NEW s \in Searches, LateAssignBody(s) \/ LateAssignErr(s)
  PROVE  IInv'
<1> USE DEF IInv, LateAssignBody, LateAssignErr, Absent, Outcomes
<1>1. verdict[s] \in Outcomes
  BY DEF TypeOK, MaybeOutcomes, Control
<1>2. ASSUME NEW x \in Searches
      PROVE  /\ ret'[x].body \in {ret[x].body, verdict[x]}
             /\ ret'[x].err => ret[x].err \/ verdict[x] = "error"
             /\ LateAssignBody(s) /\ x = s => ret'[x].body = verdict[x]
             /\ LateAssignErr(s) => ret'[x].body = ret[x].body
             /\ ret'[x] \in [body : MaybeOutcomes \union {"pending"}, err : BOOLEAN]
  <2>1. ret[x] \in [body : MaybeOutcomes \union {"pending"}, err : BOOLEAN]
    BY DEF TypeOK
  <2>2. x # s => ret'[x] = ret[x]
    BY DEF TypeOK
  <2>3. CASE LateAssignBody(s)
    <3>1. x = s => ret'[x] = [ret[x] EXCEPT !.body = verdict[x]]
      BY <2>3 DEF TypeOK
    <3> QED BY <1>1, <2>1, <2>2, <2>3, <3>1 DEF MaybeOutcomes
  <2>4. CASE LateAssignErr(s)
    <3>1. x = s => ret'[x] = [ret[x] EXCEPT !.err = (verdict[x] = "error")]
      BY <2>4 DEF TypeOK
    <3>2. \A r : r \in [body : MaybeOutcomes \union {"pending"}, err : BOOLEAN] =>
            /\ [r EXCEPT !.err = (verdict[x] = "error")] \in
                 [body : MaybeOutcomes \union {"pending"}, err : BOOLEAN]
            /\ [r EXCEPT !.err = (verdict[x] = "error")].body = r.body
            /\ [r EXCEPT !.err = (verdict[x] = "error")].err => verdict[x] = "error"
      OBVIOUS
    <3> HIDE DEF LateAssignBody
    <3>3. CASE x = s
      <4>1. ret'[x].body = ret[x].body /\ (ret'[x].err => verdict[x] = "error")
        BY <2>1, <3>1, <3>2, <3>3
      <4>2. ret'[x] \in [body : MaybeOutcomes \union {"pending"}, err : BOOLEAN]
        BY <2>1, <3>1, <3>2, <3>3
      <4>3. ~LateAssignBody(s)
        BY <2>4 DEF LateAssignBody
      <4> QED BY <4>1, <4>2, <4>3
    <3>4. CASE x # s
      BY <2>1, <2>2, <3>4
    <3> QED BY <3>3, <3>4
  <2> QED BY <2>3, <2>4
<1>3. ret' \in [Searches -> [body : MaybeOutcomes \union {"pending"}, err : BOOLEAN]]
  <2>1. \A f, S : f = [y \in Searches |-> f[y]] /\ (\A y \in Searches : f[y] \in S)
                 => f \in [Searches -> S]
    OBVIOUS
  <2>2. ret' = [y \in Searches |-> ret'[y]]
    BY DEF TypeOK
  <2> QED BY <1>2, <2>1, <2>2
<1>4. TypeOK'
  BY <1>3 DEF TypeOK, BackgroundStates, channels, storage, ctxs, eviction, history
<1>5. ASSUME NEW x \in Searches
      PROVE  (Control(x) /\ FirstMessage(x) /\ Copies(x) /\ Evictable(x))'
  <2>1. Control(x)' /\ FirstMessage(x)' /\ Evictable(x)'
    BY DEF TypeOK, HandlerStates, BackgroundStates, Control, FirstMessage,
           Evictable, channels, storage, eviction, history
  <2>2. Copies(x)'
    BY <1>1, <1>2 DEF TypeOK, BackgroundStates, Copies, storage, history
  <2> QED BY <2>1, <2>2
<1>6. \A p \in Pollers : Held(p)'
  BY DEF Held, history
<1> QED BY <1>4, <1>5, <1>6

-----------------------------------------------------------------------------
(* Clients, time and the evictor.                                          *)

\* Deleting under an id never breaks the invariant, whoever does it.
LEMMA DeleteIInv ==
  ASSUME IInv, NEW s \in Searches,
         PartialDelete(s) \/ DeleteAsyncSearch(s) \/ EvictorDelete(s)
  PROVE  IInv'
<1> USE DEF IInv, PartialDelete, DeleteAsyncSearch, EvictorDelete, DeleteResult,
            Absent, channels, ctxs, eviction, history
<1>1. TypeOK'
  BY DEF TypeOK, HandlerStates, MaybeOutcomes
<1>2. ASSUME NEW x \in Searches
      PROVE  (Control(x) /\ FirstMessage(x) /\ Copies(x) /\ Evictable(x))'
  <2>1. Control(x)'
    BY DEF TypeOK, HandlerStates, BackgroundStates, Control
  <2>2. FirstMessage(x)'
    BY DEF TypeOK, HandlerStates, BackgroundStates, FirstMessage
  <2>3. Copies(x)'
    BY DEF TypeOK, HandlerStates, BackgroundStates, Copies
  <2>4. Evictable(x)'
    BY DEF TypeOK, Evictable
  <2> QED BY <2>1, <2>2, <2>3, <2>4
<1>3. \A p \in Pollers : Held(p)'
  BY DEF Held
<1> QED BY <1>1, <1>2, <1>3

LEMMA ClientIInv ==
  ASSUME IInv, NEW s \in Searches,
         PollMiss(s) \/ Status(s) \/ \E p \in Pollers : PollHit(p, s) \/ PollDelete(p)
  PROVE  IInv'
<1> USE DEF IInv, channels, storage, ctxs, eviction, history, Absent, Outcomes
<1>1. CASE PollMiss(s) \/ Status(s)
  <2>1. PICK a \in {"pending", "completed"} :
          Tell(s, a) /\ (a = "completed" => verdict[s] # Absent)
    BY <1>1 DEF PollMiss, Status, TypeOK, Copies
  <2>2. TypeOK'
    BY <1>1, <2>1 DEF PollMiss, Status, Tell, TypeOK, Answers
  <2>3. ASSUME NEW x \in Searches
        PROVE  (Control(x) /\ FirstMessage(x) /\ Copies(x) /\ Evictable(x))'
    <3>1. Control(x)' /\ FirstMessage(x)' /\ Evictable(x)'
      BY <1>1 DEF PollMiss, Status, Control, FirstMessage, Evictable
    <3>2. Copies(x)'
      BY <1>1, <2>1 DEF PollMiss, Status, Tell, TypeOK, Copies
    <3> QED BY <3>1, <3>2
  <2>4. \A p \in Pollers : Held(p)'
    BY <1>1 DEF PollMiss, Status, Held
  <2> QED BY <2>2, <2>3, <2>4
<1>2. ASSUME NEW p \in Pollers, PollHit(p, s) PROVE IInv'
  BY <1>2 DEF PollHit, TypeOK, Control, FirstMessage, Copies, Evictable, Held,
              MaybeOutcomes
<1>3. ASSUME NEW p \in Pollers, PollDelete(p) PROVE IInv'
  <2>1. /\ poll[p].id \in Searches
        /\ poll[p].res = verdict[poll[p].id]
        /\ poll[p].res \in Outcomes
    BY <1>3 DEF PollDelete, TypeOK, Held, MaybeOutcomes
  <2>2. TypeOK'
    BY <1>3, <2>1 DEF PollDelete, DeleteResult, Tell, TypeOK, MaybeOutcomes, Answers
  <2>3. ASSUME NEW x \in Searches
        PROVE  (Control(x) /\ FirstMessage(x) /\ Copies(x) /\ Evictable(x))'
    <3>1. Control(x)' /\ FirstMessage(x)' /\ Copies(x)'
      BY <1>3, <2>1 DEF PollDelete, DeleteResult, Tell, TypeOK, Control,
                        FirstMessage, Copies
    <3>2. Evictable(x)'
      BY <1>3, <2>1 DEF PollDelete, DeleteResult, TypeOK, Evictable
    <3> QED BY <3>1, <3>2
  <2>4. \A q \in Pollers : Held(q)'
    BY <1>3 DEF PollDelete, TypeOK, Held
  <2> QED BY <2>2, <2>3, <2>4
<1> QED BY <1>1, <1>2, <1>3

LEMMA TimeAndEvictorIInv ==
  ASSUME IInv, NEW s \in Searches,
         \/ AgeContext(s) \/ AgeResult(s) \/ EvictorCancel(s)
         \/ EvictorCollect \/ EvictorCollectContexts \/ EvictorSleep
  PROVE  IInv'
<1> USE DEF IInv, channels, storage, ctxs, eviction, history
<1>1. CASE AgeContext(s) \/ EvictorCancel(s)
  BY <1>1 DEF AgeContext, EvictorCancel, TypeOK, Control, FirstMessage, Copies,
              Evictable, Held
<1>2. CASE AgeResult(s)
  BY <1>2 DEF AgeResult, TypeOK, Control, FirstMessage, Copies, Evictable, Held
<1>3. CASE EvictorCollect
  <2>1. \A x \in Searches : x \in oldResults => verdict[x] # Absent
    BY DEF TypeOK, Copies, Evictable
  <2> QED BY <1>3, <2>1 DEF EvictorCollect, TypeOK, Control, FirstMessage, Copies,
                Evictable, Held
<1>4. CASE EvictorCollectContexts \/ EvictorSleep
  BY <1>4 DEF EvictorCollectContexts, EvictorSleep, TypeOK, Control, FirstMessage,
              Copies, Evictable, Held
<1> QED BY <1>1, <1>2, <1>3, <1>4


-----------------------------------------------------------------------------
(* The invariant holds, and what follows from it.                          *)

LEMMA NextIInv == IInv /\ [Next]_vars => IInv'
<1> SUFFICES ASSUME IInv, [Next]_vars PROVE IInv'
  OBVIOUS
<1>1. CASE UNCHANGED vars
  BY <1>1 DEF vars, channels, storage, ctxs, eviction, history, IInv, TypeOK,
              Control, FirstMessage, Copies, Evictable, Held
<1>2. ASSUME NEW s \in Searches, WorkerStep(s) \/ QueriesSucceed(s) \/ QueriesFail(s) \/ Panic(s)
      PROVE  IInv'
  BY <1>2, FailingStepsIInv, WorkerMovesIInv, RespondIInv DEF WorkerStep
<1>3. ASSUME NEW s \in Searches, HandlerStep(s) PROVE IInv'
  BY <1>3, HandlerMovesIInv, ReceiveIInv, ReceiveSyncIInv, StoreInTimeIInv, DeleteIInv
     DEF HandlerStep
<1>4. ASSUME NEW s \in Searches, BackgroundStep(s) PROVE IInv'
  BY <1>4, ReceiveIInv, LateStoreIInv, LateAssignIInv DEF BackgroundStep
<1>5. ASSUME NEW s \in Searches, ClientStep(s) PROVE IInv'
  BY <1>5, HandlerMovesIInv, ClientIInv, DeleteIInv DEF ClientStep
<1>6. ASSUME NEW s \in Searches, AgeContext(s) \/ AgeResult(s) PROVE IInv'
  BY <1>6, TimeAndEvictorIInv
<1>7. ASSUME NEW p \in Pollers, NEW s \in Searches, PollHit(p, s) PROVE IInv'
  BY <1>7, ClientIInv
<1>8. ASSUME NEW p \in Pollers, PollDelete(p) PROVE IInv'
  <2>1. poll[p].id \in Searches
    BY <1>8 DEF IInv, TypeOK, PollDelete
  <2> QED BY <1>8, <2>1, ClientIInv
<1>9. CASE EvictorStep
  <2>1. ASSUME NEW s \in Searches, EvictorDelete(s) \/ EvictorCancel(s) PROVE IInv'
    BY <2>1, DeleteIInv, TimeAndEvictorIInv
  <2>2. CASE EvictorCollect
    BY <2>2 DEF EvictorCollect, IInv, TypeOK, Control, FirstMessage, Copies,
                Evictable, Held, channels, storage, ctxs, history
  <2>3. CASE EvictorCollectContexts \/ EvictorSleep
    BY <2>3 DEF EvictorCollectContexts, EvictorSleep, IInv, TypeOK, Control,
                FirstMessage, Copies, Evictable, Held, channels, storage, ctxs, history
  <2> QED BY <1>9, <2>1, <2>2, <2>3 DEF EvictorStep
<1> QED BY <1>1, <1>2, <1>3, <1>4, <1>5, <1>6, <1>7, <1>8, <1>9 DEF Next

LEMMA SpecIInv == Spec => []IInv
  BY InitIInv, NextIInv, PTL DEF Spec

\* The state of search.go and in_memory.go keeps its shape.
THEOREM TypeCorrect == Spec => []TypeOK
<1>1. IInv => TypeOK
  BY DEF IInv
<1> QED BY <1>1, SpecIInv, PTL

\* However answers, late stores, unsynchronized assignments, polls, deletions
\* and evictions interleave, clients never hear two outcomes of one search.
THEOREM ClientsAlwaysAgree == Spec => []ClientsAgree
<1>1. IInv => ClientsAgree
  BY DEF IInv, Copies, ClientsAgree
<1> QED BY <1>1, SpecIInv, PTL

\* A search whose worker met an error is never answered or stored as a success.
THEOREM ErrorsAreNeverMasked == Spec => []ErrorIsNeverMasked
<1>1. IInv => ErrorIsNeverMasked
  <2> SUFFICES ASSUME IInv, NEW s \in doomed
               PROVE  verdict[s] # "ok" /\ stored[s] # "ok" /\ "ok" \notin told[s]
    BY DEF ErrorIsNeverMasked
  <2>1. s \in Searches
    BY DEF IInv, TypeOK
  <2> QED BY <2>1 DEF IInv, FirstMessage, Copies, Outcomes, Absent
<1> QED BY <1>1, SpecIInv, PTL

\* What the evictor deletes by id has outlived EvictionInterval.
THEOREM EvictionRespectsAge == Spec => EvictsOnlyOldResults
<1>1. ASSUME IInv, [Next]_vars, NEW s \in Searches, toEvict' # toEvict,
             stored[s] # Absent, stored'[s] = Absent
      PROVE  s \in oldResults
  <2>1. EvictorCollect \/ \E x \in Searches : EvictorDelete(x)
    BY <1>1 DEF Next, vars, eviction, WorkerStep, HandlerStep, BackgroundStep,
         ClientStep, EvictorStep, Refuse, Admit, QueriesSucceed, QueriesFail, NoHits,
         PostProcess, PostProcessFails, Respond, RespondError, Panic, Fail, Submit,
         ReceiveSync, ReceiveInTime, StoreInTime, TimerFires, PartialLoad,
         PartialDelete, Return, LateReceive, LateStore, LateAssignBody,
         LateAssignErr, PollMiss, PollHit, PollDelete, Status, DeleteAsyncSearch,
         AgeContext, AgeResult, EvictorCancel, EvictorCollectContexts, EvictorSleep
  <2>2. CASE EvictorCollect
    BY <1>1, <2>2 DEF EvictorCollect, storage
  <2>3. ASSUME NEW x \in Searches, EvictorDelete(x) PROVE s \in oldResults
    <3>1. x = s
      BY <1>1, <2>3 DEF EvictorDelete, DeleteResult, IInv, TypeOK
    <3> QED BY <1>1, <2>3, <3>1 DEF EvictorDelete, IInv, Evictable
  <2> QED BY <2>1, <2>2, <2>3
<1>2. IInv /\ [Next]_vars =>
        [\A s \in Searches :
           toEvict' # toEvict /\ stored[s] # Absent /\ stored'[s] = Absent
             => s \in oldResults]_vars
  BY <1>1
<1> QED BY <1>2, SpecIInv, PTL DEF Spec, EvictsOnlyOldResults


-----------------------------------------------------------------------------
(* Refinement: every step is a step of SearchPromise or invisible to it.   *)

\* What clients can see of a search is unchanged.
Invisible == UNCHANGED <<verdict, stored, told>>

LEMMA InvisibleStep ==
  ASSUME Invisible PROVE UNCHANGED Promise!vars
  BY DEF Invisible, Promise!vars, Retention

\* Deciding a search, with or without storing its result.
LEMMA DecideStep ==
  ASSUME IInv, NEW s \in Searches, NEW res \in Outcomes, verdict[s] = Absent,
         verdict' = [verdict EXCEPT ![s] = res],
         stored' = stored \/ stored' = [stored EXCEPT ![s] = res],
         UNCHANGED told
  PROVE  Promise!Decide(s)
<1> DEFINE k == IF stored' = stored THEN "gone" ELSE "kept"
<1>1. stored[s] = Absent
  BY DEF IInv, TypeOK, MaybeOutcomes, Copies, Absent, Outcomes
<1>2. [x \in Searches |-> Retention(x)]' = [[x \in Searches |-> Retention(x)] EXCEPT ![s] = k]
  <2>1. ASSUME NEW x \in Searches
        PROVE  Retention(x)' = IF x = s THEN k ELSE Retention(x)
    BY <1>1 DEF IInv, TypeOK, Retention, Absent, Outcomes
  <2> QED BY <2>1
<1> QED BY <1>2 DEF Promise!Decide, Outcomes, Absent

\* Dropping a result, or deleting nothing.
LEMMA ForgetStep ==
  ASSUME IInv, NEW s \in Searches, DeleteResult(s), UNCHANGED <<verdict, told>>
  PROVE  Promise!Forget(s) \/ UNCHANGED Promise!vars
<1>1. CASE stored[s] = Absent
  <2>1. stored' = stored
    BY <1>1 DEF DeleteResult, IInv, TypeOK
  <2> QED BY <2>1, InvisibleStep DEF Invisible
<1>2. CASE stored[s] # Absent
  <2>1. verdict[s] # Absent
    BY <1>2 DEF IInv, Copies
  <2>2. ASSUME NEW x \in Searches
        PROVE  Retention(x)' = IF x = s THEN "gone" ELSE Retention(x)
    BY <2>1 DEF DeleteResult, IInv, TypeOK, Retention
  <2>3. [x \in Searches |-> Retention(x)]' =
          [[x \in Searches |-> Retention(x)] EXCEPT ![s] = "gone"]
    BY <2>2
  <2> QED BY <1>2, <2>3 DEF Promise!Forget, Retention
<1> QED BY <1>1, <1>2

\* Telling a client something while the storage stays as it is.
LEMMA TellStep ==
  ASSUME IInv, NEW s \in Searches, NEW a, Tell(s, a), UNCHANGED <<verdict, stored>>,
         \/ a = "pending"
         \/ a = "completed" /\ stored[s] # Absent
         \/ a \in Outcomes /\ a = verdict[s]
  PROVE  Promise!TellPending(s) \/ Promise!TellCompleted(s) \/ Promise!TellOutcome(s)
<1>1. [x \in Searches |-> Retention(x)]' = [x \in Searches |-> Retention(x)]
  BY DEF Retention
<1>2. CASE a = "pending"
  BY <1>1, <1>2 DEF Tell, Promise!TellPending, Promise!Speak
<1>3. CASE a = "completed" /\ stored[s] # Absent
  BY <1>1, <1>3 DEF Tell, Promise!TellCompleted, Promise!Speak, Retention
<1>4. CASE a \in Outcomes /\ a = verdict[s]
  BY <1>1, <1>4 DEF Tell, Promise!TellOutcome, Promise!Speak, Outcomes
<1> QED BY <1>2, <1>3, <1>4

\* A poll answers with the result it loaded and takes it out of the storage.
LEMMA PollDeleteStep ==
  ASSUME IInv, NEW p \in Pollers, PollDelete(p)
  PROVE  Promise!TellOutcome(poll[p].id)
<1> DEFINE s == poll[p].id
<1>1. s \in Searches /\ poll[p].res = verdict[s] /\ verdict[s] # Absent
  BY DEF PollDelete, IInv, TypeOK, Held
<1>2. ASSUME NEW x \in Searches
      PROVE  Retention(x)' = IF x = s THEN "gone" ELSE Retention(x)
  BY <1>1 DEF PollDelete, DeleteResult, IInv, TypeOK, Retention
<1>3. [x \in Searches |-> Retention(x)]' =
        [[x \in Searches |-> Retention(x)] EXCEPT ![s] = "gone"]
  BY <1>2
<1>4. Retention(s) \in {"kept", "gone"}
  BY <1>1 DEF Retention
<1>5. CASE Retention(s) = "kept"
  BY <1>1, <1>3, <1>5 DEF PollDelete, Tell, Promise!TellOutcome, Promise!Speak, Absent
<1>6. CASE Retention(s) = "gone"
  <2>1. [x \in Searches |-> Retention(x)]' = [x \in Searches |-> Retention(x)]
    BY <1>2, <1>6
  <2> QED BY <1>1, <2>1 DEF PollDelete, Tell, Promise!TellOutcome, Promise!Speak, Absent
<1> QED BY <1>4, <1>5, <1>6

LEMMA RefinementStep == IInv /\ [Next]_vars => [Promise!Next]_Promise!vars
<1> SUFFICES ASSUME IInv, [Next]_vars PROVE [Promise!Next]_Promise!vars
  OBVIOUS
<1> USE DEF channels, storage, ctxs, eviction, history
<1>1. CASE Invisible
  BY <1>1, InvisibleStep
<1>2. ASSUME NEW s \in Searches, ReceiveSync(s) PROVE Promise!Decide(s)
  <2>1. Head(doneCh[s]) \in Outcomes /\ verdict[s] = Absent
    BY <1>2, ReceiveEffect DEF ReceiveSync, IInv, Control
  <2> QED BY <1>2, <2>1, DecideStep DEF ReceiveSync, MarshalOutcomes, Outcomes
<1>3. ASSUME NEW s \in Searches, StoreInTime(s) \/ LateStore(s) PROVE Promise!Decide(s)
  <2>1. verdict[s] = Absent
    BY <1>3 DEF StoreInTime, LateStore, IInv, Control
  <2>2. PICK res \in Outcomes :
          /\ verdict' = [verdict EXCEPT ![s] = res]
          /\ stored' = stored \/ stored' = [stored EXCEPT ![s] = res]
    BY <1>3 DEF StoreInTime, LateStore, StoreResult, MarshalOutcomes, Outcomes
  <2> QED BY <1>3, <2>1, <2>2, DecideStep DEF StoreInTime, LateStore
<1>4. ASSUME NEW s \in Searches, PartialDelete(s) \/ DeleteAsyncSearch(s) \/ EvictorDelete(s)
      PROVE  Promise!Forget(s) \/ UNCHANGED Promise!vars
  BY <1>4, ForgetStep DEF PartialDelete, DeleteAsyncSearch, EvictorDelete
<1>5. ASSUME NEW s \in Searches, Return(s) \/ PollMiss(s) \/ Status(s)
      PROVE  Promise!TellPending(s) \/ Promise!TellCompleted(s) \/ Promise!TellOutcome(s)
  <2>1. CASE Return(s)
    <3>1. Answer(ret[s]) = "pending" \/ (Answer(ret[s]) \in Outcomes /\ Answer(ret[s]) = verdict[s])
      BY <2>1 DEF Return, Answer, IInv, TypeOK, Copies, MaybeOutcomes, Outcomes
    <3> QED BY <2>1, <3>1, TellStep DEF Return
  <2>2. CASE PollMiss(s) \/ Status(s)
    BY <2>2, TellStep DEF PollMiss, Status
  <2> QED BY <1>5, <2>1, <2>2
<1>6. ASSUME NEW p \in Pollers, PollDelete(p)
      PROVE  poll[p].id \in Searches /\ Promise!TellOutcome(poll[p].id)
  BY <1>6, PollDeleteStep DEF PollDelete, IInv, TypeOK
<1> DEFINE Visible(s) ==
      \/ ReceiveSync(s) \/ StoreInTime(s) \/ LateStore(s) \/ PartialDelete(s)
      \/ DeleteAsyncSearch(s) \/ EvictorDelete(s) \/ Return(s) \/ PollMiss(s)
      \/ Status(s)
<1>7. \/ Invisible
      \/ \E s \in Searches : Visible(s)
      \/ \E p \in Pollers : PollDelete(p)
  <2>1. CASE UNCHANGED vars
    BY <2>1 DEF vars, Invisible
  <2>2. ASSUME NEW s \in Searches, WorkerStep(s) \/ QueriesSucceed(s) \/ QueriesFail(s) \/ Panic(s)
        PROVE  Invisible
    BY <2>2 DEF WorkerStep, Refuse, Admit, QueriesSucceed, QueriesFail, NoHits,
         PostProcess, PostProcessFails, Respond, RespondError, Panic, Fail, Invisible
  <2>3. ASSUME NEW s \in Searches, HandlerStep(s)
        PROVE  Invisible \/ Visible(s)
    BY <2>3 DEF HandlerStep, ReceiveInTime, TimerFires, PartialLoad, Invisible
  <2>4. ASSUME NEW s \in Searches, BackgroundStep(s) PROVE Invisible \/ Visible(s)
    BY <2>4 DEF BackgroundStep, LateReceive, LateAssignBody, LateAssignErr, Invisible
  <2>5. ASSUME NEW s \in Searches, ClientStep(s)
        PROVE  Invisible \/ Visible(s)
    BY <2>5 DEF ClientStep, Submit, Invisible
  <2>6. ASSUME NEW s \in Searches,
               AgeContext(s) \/ AgeResult(s) \/ \E p \in Pollers : PollHit(p, s)
        PROVE  Invisible
    BY <2>6 DEF AgeContext, AgeResult, PollHit, Invisible
  <2>7. CASE EvictorStep
    <3>1. Invisible \/ \E s \in Searches : Visible(s)
      BY <2>7 DEF EvictorStep, EvictorCollect, EvictorCollectContexts, EvictorSleep,
           EvictorCancel, Invisible
    <3> QED BY <3>1
  <2>8. ASSUME NEW p \in Pollers, NEW s \in Searches, PollHit(p, s) PROVE Invisible
    BY <2>6, <2>8
  <2> HIDE DEF Visible
  <2> QED BY <2>1, <2>2, <2>3, <2>4, <2>5, <2>6, <2>7, <2>8 DEF Next
<1> QED BY <1>1, <1>2, <1>3, <1>4, <1>5, <1>6, <1>7 DEF Promise!Next

\* The goroutines, channels and stores of the query runner implement the
\* promise: one outcome per search, and no result comes back once given up.
THEOREM KeepsPromise == Spec => ImplementsPromise
<1>1. Init => Promise!Init
  <2> SUFFICES ASSUME Init PROVE Promise!Init
    OBVIOUS
  <2>1. \A s \in Searches : Retention(s) = "open"
    BY DEF Init, Retention
  <2> QED BY <2>1 DEF Init, Promise!Init, Absent
<1> QED BY <1>1, RefinementStep, SpecIInv, PTL DEF Spec, ImplementsPromise, Promise!Spec

=============================================================================
