-------------------------- MODULE DevSecretsProofs --------------------------
(***************************************************************************)
(* Proofs about DevSecrets, for any number of runs, ports, codes, accounts *)
(* and targets, and any times to live.                                     *)
(***************************************************************************)
EXTENDS DevSecrets, TLAPS

RunSteps == {"idle", "confirm", "login", "waiting", "exchange", "get", "prompt", "put",
             "done", "failed"}

RunRecords == [kind : Kinds, target : Targets \cup {None}, step : RunSteps,
               port : Ports \cup {None}, code : Codes \cup {None}, fromEnv : BOOLEAN,
               text : Texts \cup {None}, sealed : Sealed \cup {None}]

Pages == [step : {"closed", "loaded", "redirecting"}, port : Ports \cup {None},
          target : Targets \cup {None}, code : Codes \cup {None}]

RequestRecords == [step : {"none", "get", "put", "select", "upsert"}, code : Codes \cup {None},
                   owner : Accounts \cup {None}, target : Targets \cup {None},
                   sealed : Sealed \cup {None}]

(* The code k was made. *)
Made(k) == k \in Codes /\ minted[k] \in Mints

WasConfirmed(t, x) == [target |-> t, text |-> x] \in confirmed

WasWritten(a, t, s) == [owner |-> a, target |-> t, sealed |-> s] \in written

(* What run r may hold. *)
Sound(r, u) ==
    /\ u.step \notin {"idle", "failed"} => u.target \in Targets
    /\ u.code # None => Made(u.code)
    /\ u.code # None /\ ~u.fromEnv => minted[u.code].by = r /\ minted[u.code].target = u.target
    /\ u.step \in {"exchange", "get", "prompt", "put", "done"} => u.code # None
    /\ u.step = "confirm" => u.kind = "import" /\ u.text \in Texts
    /\ u.step = "get" => u.kind # "import"
    /\ u.step = "put" => u.kind = "import" /\ u.sealed \in Sealed /\ u.sealed.text = u.text
    /\ u.kind = "import" /\ u.step \in {"login", "waiting", "exchange", "prompt", "put"} =>
         u.text \in Texts /\ WasConfirmed(u.target, u.text)
    /\ u.step = "done" \/ (u.step = "prompt" /\ u.kind # "import") =>
         u.sealed \in Sealed /\ WasWritten(minted[u.code].owner, u.target, u.sealed)

RunSound(r) == Sound(r, run[r])

(* A page is that of its run, and its code was made on it. *)
PageSound(r) ==
    /\ run[r].step \in {"idle", "confirm", "login"} => page[r].step = "closed"
    /\ page[r].step # "closed" =>
         /\ page[r].target \in Targets /\ page[r].port \in Ports
         /\ run[r].step # "failed" => page[r].target = run[r].target
    /\ page[r].step = "redirecting" =>
         /\ Made(page[r].code)
         /\ minted[page[r].code].by = r /\ minted[page[r].code].target = page[r].target

(* A request is that of its run, as long as the run waits for it. *)
RequestSound(r) ==
    LET q == request[r]
        u == run[r]
    IN  /\ u.step \in {"idle", "confirm", "login", "waiting", "exchange", "prompt"} => q.step = "none"
        /\ q.step # "none" =>
             /\ Made(q.code) /\ q.target \in Targets
             /\ u.step \in {"get", "put"} =>
                  /\ q.code = u.code /\ q.target = u.target
                  /\ u.step = "put" => q.step \in {"put", "upsert"} /\ q.sealed = u.sealed
                  /\ u.step = "get" => q.step \in {"get", "select"}
        /\ q.step \in {"select", "upsert"} => q.owner = minted[q.code].owner
        /\ q.step \in {"put", "upsert"} => q.sealed \in Sealed /\ WasConfirmed(q.target, q.sealed.text)

(* What the API holds for a code is what the code was made for, for at     *)
(* most ttl longer.                                                        *)
Vouched(m, ttl) ==
    \A k \in Codes : m[k] # None =>
        /\ Made(k) /\ m[k].owner = minted[k].owner /\ m[k].target = minted[k].target
        /\ m[k].expires_at <= minted[k].at + ttl

StoreSound ==
    Vouched(handoffs, HandoffTtl) /\ Vouched(cliSessions, HandoffTtl + CliSessionTtl)

RecordsSound ==
    \A a \in Accounts, t \in Targets : records[a][t] # None =>
        WasConfirmed(t, records[a][t].text) /\ WasWritten(a, t, records[a][t])

IInv ==
    /\ TypeOK /\ StoreSound /\ RecordsSound
    /\ \A r \in Runs : RunSound(r) /\ PageSound(r) /\ RequestSound(r)

-----------------------------------------------------------------------------
(* What was made, confirmed or written stays so. *)
Grow ==
    /\ confirmed \subseteq confirmed' /\ written \subseteq written'
    /\ \A k \in Codes : minted[k] \in Mints => minted'[k] = minted[k]

LEMMA MadeKept ==
    ASSUME Grow, NEW k, Made(k)
    PROVE  Made(k)' /\ minted'[k] = minted[k]
  BY DEF Grow, Made

(* What a run holds stays sound while the run does not move. *)
LEMMA RunKept ==
    ASSUME Grow, NEW r \in Runs, RunSound(r), run'[r] = run[r]
    PROVE  RunSound(r)'
  <1> DEFINE u == run[r]
  <1>1. u.code # None => Made(u.code)' /\ minted'[u.code] = minted[u.code]
    BY MadeKept DEF RunSound, Sound
  <1>2. \A t, x : WasConfirmed(t, x) => WasConfirmed(t, x)'
    BY DEF Grow, WasConfirmed
  <1>3. \A a, t, s : WasWritten(a, t, s) => WasWritten(a, t, s)'
    BY DEF Grow, WasWritten
  <1>4. u.step = "done" \/ (u.step = "prompt" /\ u.kind # "import") =>
           WasWritten(minted[u.code].owner, u.target, u.sealed)' /\ u.code # None
    <2>1. SUFFICES ASSUME u.step = "done" \/ (u.step = "prompt" /\ u.kind # "import")
                   PROVE  WasWritten(minted[u.code].owner, u.target, u.sealed)' /\ u.code # None
      OBVIOUS
    <2>2. u.code # None /\ WasWritten(minted[u.code].owner, u.target, u.sealed)
      BY <2>1 DEF RunSound, Sound
    <2> QED
      BY <1>1, <1>3, <2>2 DEF WasWritten
  <1> QED
    BY <1>1, <1>2, <1>4 DEF RunSound, Sound

(* What a page shows stays sound while the page does not move and its run  *)
(* goes on, or fails.                                                      *)
LEMMA PageKept ==
    ASSUME Grow, NEW r \in Runs, PageSound(r), page'[r] = page[r],
           run'[r].step \in {"idle", "confirm", "login"} =>
               run[r].step \in {"idle", "confirm", "login"},
           run'[r].step = "failed"
             \/ (run'[r].target = run[r].target /\ run[r].step # "failed")
             \/ run[r].step \in {"idle", "confirm", "login"}
    PROVE  PageSound(r)'
  <1>1. page[r].step = "redirecting" => Made(page[r].code)' /\ minted'[page[r].code] = minted[page[r].code]
    BY MadeKept DEF PageSound
  <1> QED
    BY <1>1 DEF PageSound

(* A request stays sound while it does not move and its run waits on, or   *)
(* is past it.                                                             *)
LEMMA RequestKept ==
    ASSUME Grow, NEW r \in Runs, RequestSound(r), request'[r] = request[r],
           run'[r].step \in {"idle", "confirm", "login", "waiting", "exchange", "prompt"} =>
               request[r].step = "none",
           run'[r].step \in {"get", "put"} => request[r].step = "none" \/ run'[r] = run[r]
    PROVE  RequestSound(r)'
  <1> DEFINE q == request[r]
  <1>1. q.step # "none" => Made(q.code)' /\ minted'[q.code] = minted[q.code]
    BY MadeKept DEF RequestSound
  <1>2. \A t, x : WasConfirmed(t, x) => WasConfirmed(t, x)'
    BY DEF Grow, WasConfirmed
  <1> QED
    BY <1>1, <1>2 DEF RequestSound

(* A step that moves nothing but the run, the page and the request of one  *)
(* run.                                                                    *)
LEMMA OneMoves ==
    ASSUME IInv, Grow, NEW r \in Runs,
           \A q \in Runs \ {r} : run'[q] = run[q] /\ page'[q] = page[q] /\ request'[q] = request[q],
           RunSound(r)', PageSound(r)', RequestSound(r)'
    PROVE  \A q \in Runs : RunSound(q)' /\ PageSound(q)' /\ RequestSound(q)'
  <1> SUFFICES ASSUME NEW q \in Runs \ {r}
               PROVE  RunSound(q)' /\ PageSound(q)' /\ RequestSound(q)'
    OBVIOUS
  <1>1. RunSound(q) /\ PageSound(q) /\ RequestSound(q)
    BY DEF IInv
  <1>2. RunSound(q)'
    BY <1>1, RunKept
  <1>3. PageSound(q)'
    <2>1. run[q].step = "failed" \/ run[q].step # "failed"
      OBVIOUS
    <2> QED
      BY <1>1, PageKept
  <1>4. RequestSound(q)'
    BY <1>1, RequestKept DEF RequestSound
  <1> QED
    BY <1>2, <1>3, <1>4

(* What the API holds stays sound while nothing of it moves. *)
LEMMA StoreKept ==
    ASSUME StoreSound, Grow, UNCHANGED store
    PROVE  StoreSound'
  BY MadeKept DEF StoreSound, Vouched, store, Made, Grow

LEMMA RecordsKept ==
    ASSUME RecordsSound, Grow, UNCHANGED records
    PROVE  RecordsSound'
  BY DEF RecordsSound, Grow, WasConfirmed, WasWritten

(* The history of a step that does not touch it. *)
LEMMA HistoryKept ==
    ASSUME UNCHANGED history
    PROVE  Grow
  BY DEF Grow, history

(* The records of TypeOK, under their names here. *)
LEMMA Types ==
    TypeOK <=>
      /\ now \in Nat
      /\ page \in [Runs -> Pages] /\ run \in [Runs -> RunRecords]
      /\ request \in [Runs -> RequestRecords]
      /\ handoffs \in [Codes -> Grants \cup {None}] /\ cliSessions \in [Codes -> Grants \cup {None}]
      /\ records \in [Accounts -> [Targets -> Sealed \cup {None}]]
      /\ minted \in [Codes -> Mints \cup {None}]
      /\ confirmed \in SUBSET [target : Targets, text : Texts]
      /\ written \in SUBSET [owner : Accounts, target : Targets, sealed : Sealed]
  BY DEF TypeOK, Pages, RunRecords, RunSteps, RequestRecords

(* The purge keeps the type, and what stays is as it was, and not expired. *)
LEMMA Purged ==
    ASSUME NEW m \in [Codes -> Grants \cup {None}]
    PROVE  /\ purgeExpiredRecords(m) \in [Codes -> Grants \cup {None}]
           /\ \A k \in Codes : purgeExpiredRecords(m)[k] # None =>
                 purgeExpiredRecords(m)[k] = m[k] /\ m[k].expires_at > now
  BY DEF purgeExpiredRecords
(* A step that moves a run alone, to u. *)
LEMMA RunMoves ==
    ASSUME IInv, Grow, NEW r \in Runs, NEW u \in RunRecords,
           run' = [run EXCEPT ![r] = u], UNCHANGED <<page, request>>,
           Sound(r, u)',
           \/ u.step = "failed"
           \/ run[r].step \in {"idle", "confirm", "login"}
           \/ /\ u.step \notin {"idle", "confirm", "login"} /\ run[r].step # "failed"
              /\ u.target = run[r].target,
           u.step = "failed" \/ request[r].step = "none"
    PROVE  /\ run' \in [Runs -> RunRecords]
           /\ \A q \in Runs : RunSound(q)' /\ PageSound(q)' /\ RequestSound(q)'
  <1>1. run \in [Runs -> RunRecords]
    BY Types DEF IInv
  <1>2. run'[r] = u /\ \A q \in Runs \ {r} : run'[q] = run[q]
    BY <1>1
  <1>3. RunSound(r)'
    BY <1>2 DEF RunSound, Sound
  <1>4. PageSound(r)'
    BY <1>2, PageKept DEF IInv
  <1>5. RequestSound(r)'
    BY <1>2, RequestKept DEF IInv
  <1>6. \A q \in Runs : RunSound(q)' /\ PageSound(q)' /\ RequestSound(q)'
    BY <1>2, <1>3, <1>4, <1>5, OneMoves
  <1> QED
    BY <1>1, <1>6

(* A step that moves neither what the API holds nor the records, nor the   *)
(* history.                                                                *)
LEMMA RunMovesAlone ==
    ASSUME IInv, NEW r \in Runs, NEW u \in RunRecords,
           run' = [run EXCEPT ![r] = u],
           UNCHANGED <<now, page, request, store, records, history>>,
           Sound(r, u),
           \/ u.step = "failed"
           \/ run[r].step \in {"idle", "confirm", "login"}
           \/ /\ u.step \notin {"idle", "confirm", "login"} /\ run[r].step # "failed"
              /\ u.target = run[r].target,
           u.step = "failed" \/ request[r].step = "none"
    PROVE  IInv'
  <1>1. Grow
    BY HistoryKept
  <1>2. Sound(r, u)'
    BY DEF Sound, history, Made, WasConfirmed, WasWritten
  <1>3. /\ run' \in [Runs -> RunRecords]
        /\ \A q \in Runs : RunSound(q)' /\ PageSound(q)' /\ RequestSound(q)'
    BY <1>1, <1>2, RunMoves
  <1>4. StoreSound' /\ RecordsSound'
    BY <1>1, StoreKept, RecordsKept DEF IInv
  <1>5. TypeOK'
    BY <1>3, Types DEF IInv, store, history, TypeOK, Pages, RunRecords, RunSteps, RequestRecords
  <1> QED
    BY <1>3, <1>4, <1>5 DEF IInv

-----------------------------------------------------------------------------
(* What a run and its request are, before a step. *)
LEMMA RunType ==
    ASSUME IInv, NEW r \in Runs
    PROVE  /\ run[r] \in RunRecords /\ Sound(r, run[r])
           /\ run[r] = [kind |-> run[r].kind, target |-> run[r].target, step |-> run[r].step,
                        port |-> run[r].port, code |-> run[r].code, fromEnv |-> run[r].fromEnv,
                        text |-> run[r].text, sealed |-> run[r].sealed]
           /\ page[r] \in Pages /\ request[r] \in RequestRecords
  BY Types DEF IInv, RunSound, RunRecords

LEMMA FailedType == Failed \in RunRecords /\ Failed.step = "failed" /\ \A r : Sound(r, Failed)
  BY DEF Failed, NoRun, RunRecords, RunSteps, Kinds, Sound

(* A run that has a token of the environment, or none, goes on soundly. *)
LEMMA WithTokenSound ==
    ASSUME IInv, Grow, NEW r \in Runs, NEW u \in RunRecords, u.step \in {"idle", "confirm"},
           Sound(r, u), u.target \in Targets, NEW k \in KnownTokens \cup {None},
           u.kind = "import" => u.text \in Texts /\ WasConfirmed(u.target, u.text)'
    PROVE  /\ WithToken(u, k) \in RunRecords /\ WithToken(u, k).target = u.target
           /\ WithToken(u, k).step \notin {"idle", "confirm", "failed"}
           /\ Sound(r, WithToken(u, k))'
  <1> DEFINE v == WithToken(u, k)
  <1>1. k # None => k \in Codes /\ Made(k) /\ Made(k)'
    BY MadeKept DEF KnownTokens, IInv, StoreSound, Vouched
  <1>2. u.code # None => Made(u.code)' /\ minted'[u.code] = minted[u.code]
    BY MadeKept DEF Sound
  <1>3. u = [kind |-> u.kind, target |-> u.target, step |-> u.step, port |-> u.port,
             code |-> u.code, fromEnv |-> u.fromEnv, text |-> u.text, sealed |-> u.sealed]
    BY DEF RunRecords
  <1>4. CASE k = None
    <2>1. v = [u EXCEPT !.step = "login"]
      BY <1>4 DEF WithToken
    <2>2. v \in RunRecords /\ v.target = u.target /\ v.step = "login" /\ v.code = u.code
          /\ v.fromEnv = u.fromEnv /\ v.kind = u.kind /\ v.text = u.text
      BY <1>3, <2>1 DEF RunRecords, RunSteps
    <2>3. Sound(r, v)'
      <3> HIDE DEF v
      <3> QED
        BY <1>2, <2>2 DEF Sound
    <2> QED
      BY <2>2, <2>3
  <1>5. CASE k # None
    <2>1. v = [u EXCEPT !.step = AfterToken(u.kind), !.code = k, !.fromEnv = TRUE]
      BY <1>5 DEF WithToken
    <2>2. v \in RunRecords /\ v.target = u.target /\ v.step = AfterToken(u.kind) /\ v.code = k
          /\ v.fromEnv = TRUE /\ v.kind = u.kind /\ v.text = u.text
      BY <1>1, <1>3, <1>5, <2>1 DEF RunRecords, RunSteps, AfterToken
    <2>3. Sound(r, v)'
      <3> HIDE DEF v
      <3> QED
        BY <1>1, <1>5, <2>2 DEF Sound, AfterToken
    <2> QED
      BY <2>2, <2>3 DEF AfterToken
  <1> QED
    BY <1>4, <1>5

(* runDevSecretsProvider keeps the invariant. *)
LEMMA StartStep ==
    ASSUME IInv, NEW r \in Runs, NEW kind \in Kinds, NEW t \in Targets,
           runDevSecretsProvider(r, kind, t)
    PROVE  IInv'
  <1> DEFINE u == [NoRun EXCEPT !.kind = kind, !.target = t]
  <1>0. /\ u \in RunRecords /\ u.step = "idle" /\ u.target = t /\ u.kind = kind
        /\ Sound(r, u)
    BY DEF NoRun, RunRecords, RunSteps, Sound
  <1>1. run[r].step = "idle" /\ request[r].step = "none"
    BY DEF runDevSecretsProvider, Step, IInv, RequestSound
  <1>2. CASE kind = "import"
    <2>1. PICK x \in Texts : run' = [run EXCEPT ![r] = [u EXCEPT !.step = "confirm", !.text = x]]
      BY <1>2 DEF runDevSecretsProvider
    <2> DEFINE v == [u EXCEPT !.step = "confirm", !.text = x]
    <2>2. v \in RunRecords /\ v.step = "confirm" /\ Sound(r, v)
      BY <1>2 DEF NoRun, RunRecords, RunSteps, Sound
    <2> HIDE DEF v
    <2> QED
      BY <1>1, <2>1, <2>2, RunMovesAlone DEF runDevSecretsProvider, v
  <1>3. CASE kind # "import"
    <2>1. PICK k \in KnownTokens \cup {None} : run' = [run EXCEPT ![r] = WithToken(u, k)]
      BY <1>3 DEF runDevSecretsProvider
    <2>2. Grow
      BY HistoryKept DEF runDevSecretsProvider
    <2> HIDE DEF u
    <2>3. WithToken(u, k) \in RunRecords /\ Sound(r, WithToken(u, k))'
      BY <1>0, <1>3, <2>2, WithTokenSound
    <2> DEFINE v == WithToken(u, k)
    <2>4. Sound(r, v)
      BY <2>3 DEF Sound, runDevSecretsProvider, history, Made, WasConfirmed, WasWritten
    <2> HIDE DEF v
    <2> QED
      BY <1>1, <2>1, <2>3, <2>4, RunMovesAlone DEF runDevSecretsProvider, v
  <1> QED
    BY <1>2, <1>3

(* Confirm keeps the invariant. *)
LEMMA ConfirmStep ==
    ASSUME IInv, NEW r \in Runs, Confirm(r)
    PROVE  IInv'
  <1> PICK old \in RunRecords : old = run[r]
    BY RunType
  <1>0. /\ old \in RunRecords /\ old.step = "confirm" /\ old.kind = "import"
        /\ old.text \in Texts /\ old.target \in Targets /\ Sound(r, old)
        /\ request[r].step = "none"
    BY RunType DEF Confirm, Step, Sound, IInv, RequestSound
  <1>1. PICK k \in KnownTokens \cup {None} : run' = [run EXCEPT ![r] = WithToken(old, k)]
    BY DEF Confirm
  <1>2. Grow /\ WasConfirmed(old.target, old.text)'
    <2>1. confirmed' = confirmed \cup {[target |-> old.target, text |-> old.text]}
          /\ written' = written /\ minted' = minted
      BY DEF Confirm
    <2> QED
      BY <2>1 DEF Grow, WasConfirmed
  <1>3. confirmed' \in SUBSET [target : Targets, text : Texts]
    <2>1. [target |-> old.target, text |-> old.text] \in [target : Targets, text : Texts]
      BY <1>0
    <2> QED
      BY <2>1, Types DEF Confirm, IInv
  <1>4. /\ run' \in [Runs -> RunRecords]
        /\ \A q \in Runs : RunSound(q)' /\ PageSound(q)' /\ RequestSound(q)'
    <2> PICK v : v = WithToken(old, k)
      OBVIOUS
    <2>1. WasConfirmed(old.target, old.text)'
      BY <1>2
    <2>2. v \in RunRecords /\ Sound(r, v)'
      BY <1>0, <1>2, WithTokenSound
    <2> QED
      BY <1>0, <1>1, <1>2, <2>2, RunMoves DEF Confirm
  <1>5. StoreSound' /\ RecordsSound'
    BY <1>2, StoreKept, RecordsKept DEF IInv, Confirm
  <1>6. TypeOK'
    BY <1>3, <1>4, Types DEF IInv, store, Confirm, TypeOK, Pages, RunRecords, RunSteps, RequestRecords
  <1> QED
    BY <1>4, <1>5, <1>6 DEF IInv

(* A run that fails. *)
LEMMA FailStep ==
    ASSUME IInv, NEW r \in Runs, run' = [run EXCEPT ![r] = Failed],
           UNCHANGED <<now, page, request, store, records, history>>
    PROVE  IInv'
  <1> PICK u : u = Failed
    OBVIOUS
  <1> QED
    BY FailedType, RunMovesAlone

(* OpenRecord keeps the invariant. *)
LEMMA OpenStep ==
    ASSUME IInv, NEW r \in Runs, NEW w \in Passwords, OpenRecord(r, w)
    PROVE  IInv'
  <1> PICK old \in RunRecords : old = run[r]
    BY RunType
  <1>0. /\ old.step = "prompt" /\ old.kind # "import" /\ Sound(r, old) /\ old.sealed \in Sealed
        /\ request[r].step = "none"
    BY RunType DEF OpenRecord, Step, Sound, IInv, RequestSound
  <1>1. CASE old.sealed.password # w
    <2>1. run' = [run EXCEPT ![r] = Failed]
      BY <1>1 DEF OpenRecord
    <2> QED
      BY <2>1, FailStep DEF OpenRecord
  <1>2. CASE old.sealed.password = w
    <2> PICK v : v = [old EXCEPT !.step = "done", !.text = old.sealed.text]
      OBVIOUS
    <2>1. run' = [run EXCEPT ![r] = v]
      BY <1>2 DEF OpenRecord
    <2>2. /\ v \in RunRecords /\ v.step = "done" /\ v.target = old.target
          /\ v.code = old.code /\ v.fromEnv = old.fromEnv /\ v.sealed = old.sealed /\ v.kind = old.kind
      BY <1>0 DEF RunRecords, RunSteps, Sealed
    <2>3. Sound(r, v)
      BY <1>0, <2>2 DEF Sound
    <2> QED
      BY <1>0, <2>1, <2>2, <2>3, RunMovesAlone DEF OpenRecord
  <1> QED
    BY <1>1, <1>2

(* Redirect keeps the invariant. *)
LEMMA RedirectStep ==
    ASSUME IInv, NEW r \in Runs, NEW c \in Runs, Redirect(r, c)
    PROVE  IInv'
  <1> PICK old \in RunRecords : old = run[r]
    BY RunType
  <1>0. /\ old.step = "waiting" /\ Sound(r, old) /\ request[r].step = "none"
        /\ run' = [run EXCEPT ![r] = IF c = r THEN WithCode(old, page[c].code) ELSE Failed]
    BY RunType DEF Redirect, HandleCallback, Listening, Step, Sound, IInv, RequestSound
  <1>1. CASE c # r
    BY <1>0, <1>1, FailStep DEF Redirect
  <1>2. CASE c = r
    <2> PICK k : k = page[r].code
      OBVIOUS
    <2>1. /\ Made(k) /\ minted[k].by = r /\ minted[k].target = page[r].target
          /\ page[r].target = old.target
      BY <1>0, <1>2 DEF Redirect, IInv, PageSound
    <2> PICK v : v = WithCode(old, k)
      OBVIOUS
    <2>2. /\ v \in RunRecords /\ v.step = "exchange" /\ v.target = old.target /\ v.code = k
          /\ v.kind = old.kind /\ v.text = old.text
      BY <2>1 DEF WithCode, RunRecords, RunSteps, Made
    <2>3. Sound(r, v)
      BY <1>0, <2>1, <2>2, DevSecretsAssumption DEF Sound, Made
    <2> QED
      BY <1>0, <1>2, <2>2, <2>3, RunMovesAlone DEF Redirect
  <1> QED
    BY <1>1, <1>2

(* Listen keeps the invariant. *)
LEMMA ListenStep ==
    ASSUME IInv, NEW r \in Runs, NEW p \in Ports, Listen(r, p)
    PROVE  IInv'
  <1> PICK old \in RunRecords : old = run[r]
    BY RunType
  <1>0. /\ old.step = "login" /\ Sound(r, old) /\ request[r].step = "none"
        /\ old.target \in Targets
    BY RunType DEF Listen, Step, Sound, IInv, RequestSound
  <1> PICK v : v = [old EXCEPT !.step = "waiting", !.port = p]
    OBVIOUS
  <1> PICK g : g = [NoPage EXCEPT !.step = "loaded", !.port = p, !.target = old.target]
    OBVIOUS
  <1>1. run \in [Runs -> RunRecords] /\ page \in [Runs -> Pages]
    BY Types DEF IInv
  <1>2. run' = [run EXCEPT ![r] = v] /\ page' = [page EXCEPT ![r] = g]
    <2>1. run' = [run EXCEPT ![r] = [run[r] EXCEPT !.step = "waiting", !.port = p]]
      BY <1>1 DEF Listen, RunRecords
    <2> QED
      BY <2>1 DEF Listen, handoffUrl
  <1>3. /\ v \in RunRecords /\ v.step = "waiting" /\ v.target = old.target /\ v.code = old.code
        /\ v.kind = old.kind /\ v.text = old.text /\ v.fromEnv = old.fromEnv
    BY DEF RunRecords, RunSteps
  <1>4. g \in Pages /\ g.step = "loaded" /\ g.port = p /\ g.target = old.target
    BY DEF NoPage, Pages, RunRecords
  <1>5. Grow
    BY HistoryKept DEF Listen
  <1>6. run' \in [Runs -> RunRecords] /\ page' \in [Runs -> Pages] /\ run'[r] = v /\ page'[r] = g
        /\ \A q \in Runs \ {r} : run'[q] = run[q] /\ page'[q] = page[q]
    BY <1>1, <1>2, <1>3, <1>4
  <1>7. RunSound(r)'
    BY <1>0, <1>3, <1>6 DEF RunSound, Sound, Listen, history, Made, WasConfirmed, WasWritten
  <1>8. PageSound(r)'
    BY <1>0, <1>3, <1>4, <1>6 DEF PageSound
  <1>9. RequestSound(r)'
    <2>1. request'[r] = request[r]
      BY DEF Listen
    <2> QED
      BY <1>0, <1>3, <1>5, <1>6, <2>1, RequestKept DEF IInv
  <1>10. \A q \in Runs : RunSound(q)' /\ PageSound(q)' /\ RequestSound(q)'
    <2>1. \A q \in Runs \ {r} : request'[q] = request[q]
      BY DEF Listen
    <2> QED
      BY <1>5, <1>6, <1>7, <1>8, <1>9, <2>1, OneMoves
  <1>11. StoreSound' /\ RecordsSound'
    BY <1>5, StoreKept, RecordsKept DEF IInv, Listen
  <1>12. TypeOK'
    BY <1>6, Types DEF IInv, store, history, Listen, TypeOK, Pages, RunRecords, RunSteps, RequestRecords
  <1> QED
    BY <1>10, <1>11, <1>12 DEF IInv

-----------------------------------------------------------------------------
(* A map with some of the records of m is vouched for as m is. *)
LEMMA VouchedKept ==
    ASSUME Grow, NEW m, NEW n, NEW ttl, Vouched(m, ttl),
           \A k \in Codes : n[k] # None => n[k] = m[k]
    PROVE  Vouched(n, ttl)'
  <1> SUFFICES ASSUME NEW k \in Codes, n[k] # None
               PROVE  /\ Made(k)' /\ n[k].owner = minted'[k].owner /\ n[k].target = minted'[k].target
                      /\ n[k].expires_at <= minted'[k].at + ttl
    BY DEF Vouched
  <1>1. Made(k) /\ n[k] = m[k]
    BY DEF Vouched
  <1>2. Made(k)' /\ minted'[k] = minted[k]
    BY <1>1, MadeKept
  <1> QED
    BY <1>1, <1>2 DEF Vouched

(* The purge keeps what the API holds sound. *)
LEMMA PurgeStore ==
    ASSUME IInv, Grow, Purge
    PROVE  /\ StoreSound'
           /\ handoffs' \in [Codes -> Grants \cup {None}] /\ cliSessions' \in [Codes -> Grants \cup {None}]
  <1> PICK h : h = purgeExpiredRecords(handoffs)
    OBVIOUS
  <1> PICK s : s = purgeExpiredRecords(cliSessions)
    OBVIOUS
  <1>1. /\ h \in [Codes -> Grants \cup {None}] /\ s \in [Codes -> Grants \cup {None}]
        /\ \A k \in Codes : h[k] # None => h[k] = handoffs[k]
        /\ \A k \in Codes : s[k] # None => s[k] = cliSessions[k]
    BY Types, Purged DEF IInv
  <1>2. Vouched(h, HandoffTtl)' /\ Vouched(s, HandoffTtl + CliSessionTtl)'
    <2> PICK h0 : h0 = handoffs
      OBVIOUS
    <2> PICK s0 : s0 = cliSessions
      OBVIOUS
    <2>1. Vouched(h0, HandoffTtl) /\ Vouched(s0, HandoffTtl + CliSessionTtl)
      BY DEF IInv, StoreSound
    <2> QED
      BY <1>1, <2>1, VouchedKept
  <1>3. handoffs' = h /\ cliSessions' = s
    BY DEF Purge
  <1> QED
    BY <1>1, <1>2, <1>3 DEF StoreSound, Vouched

(* The code that is made is new; what was made before stays. *)
LEMMA CreateStore ==
    ASSUME IInv, NEW k \in Codes, NEW a \in Accounts, NEW t \in Targets, NEW c \in Runs,
           minted[k] = None, createHandoff(k, a, t),
           minted' = [minted EXCEPT ![k] = [owner |-> a, target |-> t, by |-> c, at |-> now]],
           UNCHANGED <<confirmed, written>>
    PROVE  /\ Grow /\ Made(k)' /\ minted'[k].by = c /\ minted'[k].target = t
           /\ minted' \in [Codes -> Mints \cup {None}]
           /\ StoreSound'
           /\ handoffs' \in [Codes -> Grants \cup {None}] /\ cliSessions' \in [Codes -> Grants \cup {None}]
  <1> PICK h : h = purgeExpiredRecords(handoffs)
    OBVIOUS
  <1> PICK s : s = purgeExpiredRecords(cliSessions)
    OBVIOUS
  <1> PICK g : g = Grant(a, t, HandoffTtl)
    OBVIOUS
  <1> PICK m : m = [owner |-> a, target |-> t, by |-> c, at |-> now]
    OBVIOUS
  <1>0. now \in Nat /\ minted \in [Codes -> Mints \cup {None}]
    BY Types DEF IInv
  <1>1. m \in Mints /\ m.owner = a /\ m.target = t /\ m.by = c /\ m.at = now
    BY <1>0 DEF Mints
  <1>2. minted' = [minted EXCEPT ![k] = m]
    OBVIOUS
  <1>3. /\ minted' \in [Codes -> Mints \cup {None}] /\ minted'[k] = m
        /\ \A j \in Codes \ {k} : minted'[j] = minted[j]
    BY <1>0, <1>1, <1>2
  <1>4. Grow /\ Made(k)'
    BY <1>1, <1>3, DevSecretsAssumption DEF Grow, Made
  <1>5. /\ h \in [Codes -> Grants \cup {None}] /\ s \in [Codes -> Grants \cup {None}]
        /\ \A j \in Codes : h[j] # None => h[j] = handoffs[j]
        /\ \A j \in Codes : s[j] # None => s[j] = cliSessions[j]
    BY Types, Purged DEF IInv
  <1>6. Vouched(h, HandoffTtl)' /\ Vouched(s, HandoffTtl + CliSessionTtl)'
    <2> PICK h0 : h0 = handoffs
      OBVIOUS
    <2> PICK s0 : s0 = cliSessions
      OBVIOUS
    <2>1. Vouched(h0, HandoffTtl) /\ Vouched(s0, HandoffTtl + CliSessionTtl)
      BY DEF IInv, StoreSound
    <2> QED
      BY <1>4, <1>5, <2>1, VouchedKept
  <1>7. /\ g \in Grants /\ g.owner = a /\ g.target = t /\ g.expires_at = now + HandoffTtl
    BY <1>0, DevSecretsAssumption DEF Grant, Grants
  <1>8. handoffs' = [h EXCEPT ![k] = g] /\ cliSessions' = s
    BY DEF createHandoff
  <1>9. Vouched(handoffs, HandoffTtl)'
    <2>1. \A j \in Codes \ {k} : handoffs'[j] = h[j]
      BY <1>5, <1>8
    <2>2. handoffs'[k] = g
      BY <1>5, <1>8
    <2>3. g.expires_at <= minted'[k].at + HandoffTtl
      BY <1>0, <1>1, <1>3, <1>7, DevSecretsAssumption
    <2> QED
      BY <1>1, <1>3, <1>4, <1>6, <1>7, <2>1, <2>2, <2>3 DEF Vouched
  <1>10. Vouched(cliSessions, HandoffTtl + CliSessionTtl)'
    BY <1>6, <1>8 DEF Vouched
  <1>11. handoffs' \in [Codes -> Grants \cup {None}] /\ cliSessions' \in [Codes -> Grants \cup {None}]
    BY <1>5, <1>7, <1>8
  <1> QED
    BY <1>1, <1>3, <1>4, <1>9, <1>10, <1>11 DEF StoreSound

(* An exchange keeps what the API holds sound. *)
LEMMA ExchangeStore ==
    ASSUME IInv, NEW k \in Codes, exchangeHandoff(k), UNCHANGED history
    PROVE  /\ StoreSound'
           /\ handoffs' \in [Codes -> Grants \cup {None}] /\ cliSessions' \in [Codes -> Grants \cup {None}]
  <1> PICK h : h = purgeExpiredRecords(handoffs)
    OBVIOUS
  <1> PICK s : s = purgeExpiredRecords(cliSessions)
    OBVIOUS
  <1>0. now \in Nat /\ Grow /\ minted \in [Codes -> Mints \cup {None}]
    BY Types, HistoryKept DEF IInv
  <1>5. /\ h \in [Codes -> Grants \cup {None}] /\ s \in [Codes -> Grants \cup {None}]
        /\ \A j \in Codes : h[j] # None => h[j] = handoffs[j] /\ handoffs[j].expires_at > now
        /\ \A j \in Codes : s[j] # None => s[j] = cliSessions[j]
    BY Types, Purged DEF IInv
  <1>6. Vouched(h, HandoffTtl)' /\ Vouched(s, HandoffTtl + CliSessionTtl)'
    <2> PICK h0 : h0 = handoffs
      OBVIOUS
    <2> PICK s0 : s0 = cliSessions
      OBVIOUS
    <2>1. Vouched(h0, HandoffTtl) /\ Vouched(s0, HandoffTtl + CliSessionTtl)
      BY DEF IInv, StoreSound
    <2> QED
      BY <1>0, <1>5, <2>1, VouchedKept
  <1>7. CASE h[k] = None
    <2>1. handoffs' = h /\ cliSessions' = s
      BY <1>7 DEF exchangeHandoff
    <2> QED
      BY <1>5, <1>6, <2>1 DEF StoreSound, Vouched
  <1>8. CASE h[k] # None
    <2> PICK g : g = Grant(h[k].owner, h[k].target, CliSessionTtl)
      OBVIOUS
    <2>1. handoffs' = [h EXCEPT ![k] = None] /\ cliSessions' = [s EXCEPT ![k] = g]
      BY <1>8 DEF exchangeHandoff
    <2>2. /\ Made(k)' /\ h[k] \in Grants /\ h[k].owner = minted'[k].owner
          /\ h[k].target = minted'[k].target /\ h[k].expires_at <= minted'[k].at + HandoffTtl
          /\ h[k].expires_at > now
      BY <1>5, <1>6, <1>8 DEF Vouched
    <2>3. /\ g \in Grants /\ g.owner = h[k].owner /\ g.target = h[k].target
          /\ g.expires_at = now + CliSessionTtl
      BY <1>0, <2>2, DevSecretsAssumption DEF Grant, Grants
    <2>4. minted'[k].at \in Nat /\ h[k].expires_at \in Nat
      BY <2>2 DEF Made, Mints, Grants
    <2>5. g.expires_at <= minted'[k].at + (HandoffTtl + CliSessionTtl)
      BY <1>0, <2>2, <2>3, <2>4, DevSecretsAssumption
    <2>6. /\ handoffs' \in [Codes -> Grants \cup {None}] /\ cliSessions' \in [Codes -> Grants \cup {None}]
          /\ handoffs'[k] = None /\ cliSessions'[k] = g
          /\ \A j \in Codes \ {k} : handoffs'[j] = h[j] /\ cliSessions'[j] = s[j]
      BY <1>5, <2>1, <2>3
    <2>7. Vouched(handoffs, HandoffTtl)'
      BY <1>6, <2>6 DEF Vouched
    <2>8. Vouched(cliSessions, HandoffTtl + CliSessionTtl)'
      BY <1>6, <2>2, <2>3, <2>5, <2>6 DEF Vouched
    <2> QED
      BY <2>6, <2>7, <2>8 DEF StoreSound
  <1> QED
    BY <1>7, <1>8

-----------------------------------------------------------------------------
(* exchangeDevSecretsHandoff keeps the invariant. *)
LEMMA ExchangeStep ==
    ASSUME IInv, NEW r \in Runs, exchangeDevSecretsHandoff(r)
    PROVE  IInv'
  <1> PICK old \in RunRecords : old = run[r]
    BY RunType
  <1>0. /\ old.step = "exchange" /\ Sound(r, old) /\ request[r].step = "none"
        /\ old.target \in Targets /\ old.code \in Codes
    BY RunType DEF exchangeDevSecretsHandoff, Step, Sound, Made, IInv, RequestSound
  <1>1. Grow /\ UNCHANGED history
    BY HistoryKept DEF exchangeDevSecretsHandoff
  <1>2. /\ StoreSound'
        /\ handoffs' \in [Codes -> Grants \cup {None}] /\ cliSessions' \in [Codes -> Grants \cup {None}]
    BY <1>0, <1>1, ExchangeStore DEF exchangeDevSecretsHandoff
  <1> PICK v : v = [old EXCEPT !.step = AfterToken(old.kind)]
    OBVIOUS
  <1>3. /\ v \in RunRecords /\ v.step = AfterToken(old.kind) /\ v.target = old.target
        /\ v.code = old.code /\ v.kind = old.kind /\ v.text = old.text /\ v.fromEnv = old.fromEnv
    BY DEF RunRecords, RunSteps, AfterToken
  <1>4. Sound(r, v)
    BY <1>0, <1>3 DEF Sound, AfterToken
  <1>5. PICK u \in {v, Failed} : run' = [run EXCEPT ![r] = u]
    <2>1. run \in [Runs -> RunRecords]
      BY Types DEF IInv
    <2>2. run' \in {[run EXCEPT ![r].step = AfterToken(old.kind)], [run EXCEPT ![r] = Failed]}
      BY DEF exchangeDevSecretsHandoff
    <2>3. [run EXCEPT ![r].step = AfterToken(old.kind)] = [run EXCEPT ![r] = v]
      BY <2>1
    <2> QED
      BY <2>2, <2>3
  <1>6. /\ u \in RunRecords /\ Sound(r, u)
        /\ u.step = "failed" \/ (u.step \in {"get", "prompt"} /\ u.target = old.target)
    BY <1>3, <1>4, <1>5, FailedType DEF AfterToken
  <1>7. Sound(r, u)'
    BY <1>1, <1>6 DEF Sound, history, Made, WasConfirmed, WasWritten
  <1>8. /\ run' \in [Runs -> RunRecords]
        /\ \A q \in Runs : RunSound(q)' /\ PageSound(q)' /\ RequestSound(q)'
    <2>1. UNCHANGED <<page, request>>
      BY DEF exchangeDevSecretsHandoff
    <2> QED
      BY <1>0, <1>1, <1>5, <1>6, <1>7, <2>1, RunMoves
  <1>9. RecordsSound'
    BY <1>1, RecordsKept DEF IInv, exchangeDevSecretsHandoff
  <1>10. TypeOK'
    BY <1>2, <1>8, Types DEF IInv, history, exchangeDevSecretsHandoff, TypeOK, Pages, RunRecords,
                              RunSteps, RequestRecords
  <1> QED
    BY <1>2, <1>8, <1>9, <1>10 DEF IInv

(* createBrowserHandoff keeps the invariant. *)
LEMMA CreateStep ==
    ASSUME IInv, NEW c \in Runs, NEW a \in Accounts, NEW k \in Codes,
           createBrowserHandoff(c, a, k)
    PROVE  IInv'
  <1> PICK old : old = page[c]
    OBVIOUS
  <1>0. /\ old \in Pages /\ old.step = "loaded" /\ old.target \in Targets /\ old.port \in Ports
        /\ run[c].step \notin {"idle", "confirm", "login"}
        /\ run[c].step # "failed" => old.target = run[c].target
    BY RunType DEF createBrowserHandoff, IInv, PageSound
  <1>1. /\ Grow /\ Made(k)' /\ minted'[k].by = c /\ minted'[k].target = old.target
        /\ minted' \in [Codes -> Mints \cup {None}]
        /\ StoreSound'
        /\ handoffs' \in [Codes -> Grants \cup {None}] /\ cliSessions' \in [Codes -> Grants \cup {None}]
    BY <1>0, CreateStore DEF createBrowserHandoff
  <1> PICK v : v = [old EXCEPT !.step = "redirecting", !.code = k]
    OBVIOUS
  <1>2. /\ v \in Pages /\ v.step = "redirecting" /\ v.code = k /\ v.target = old.target
        /\ v.port = old.port
    BY <1>0 DEF Pages
  <1>3. page \in [Runs -> Pages]
    BY Types DEF IInv
  <1>4. PICK g \in {old, v} : page' = [page EXCEPT ![c] = g]
    <2>1. page' \in {page, [page EXCEPT ![c].step = "redirecting", ![c].code = k]}
      BY DEF createBrowserHandoff
    <2>2. [page EXCEPT ![c].step = "redirecting", ![c].code = k] = [page EXCEPT ![c] = v]
      BY <1>3 DEF Pages
    <2>3. page = [page EXCEPT ![c] = old]
      BY <1>3
    <2> QED
      BY <2>1, <2>2, <2>3
  <1>5. page' \in [Runs -> Pages] /\ page'[c] = g /\ \A q \in Runs \ {c} : page'[q] = page[q]
    BY <1>0, <1>2, <1>3, <1>4
  <1>6. run' = run /\ request' = request
    BY DEF createBrowserHandoff
  <1>7. RunSound(c)'
    BY <1>1, <1>6, RunKept DEF IInv
  <1>8. PageSound(c)'
    <2>1. CASE g = old
      BY <1>0, <1>1, <1>5, <1>6, <2>1, PageKept DEF IInv
    <2>2. CASE g = v
      BY <1>0, <1>1, <1>2, <1>5, <1>6, <2>2 DEF PageSound
    <2> QED
      BY <2>1, <2>2
  <1>9. RequestSound(c)'
    BY <1>1, <1>6, RequestKept DEF IInv, RequestSound
  <1>10. \A q \in Runs : RunSound(q)' /\ PageSound(q)' /\ RequestSound(q)'
    BY <1>1, <1>5, <1>6, <1>7, <1>8, <1>9, OneMoves
  <1>11. RecordsSound'
    BY <1>1, RecordsKept DEF IInv, createBrowserHandoff
  <1>12. TypeOK'
    BY <1>1, <1>5, Types DEF IInv, createBrowserHandoff, TypeOK, Pages, RunRecords,
                              RunSteps, RequestRecords
  <1> QED
    BY <1>1, <1>10, <1>11, <1>12 DEF IInv

(* ReloadPage keeps the invariant. *)
LEMMA ReloadStep ==
    ASSUME IInv, NEW c \in Runs, ReloadPage(c)
    PROVE  IInv'
  <1> PICK old : old = page[c]
    OBVIOUS
  <1>0. /\ old \in Pages /\ old.step = "redirecting" /\ old.target \in Targets /\ old.port \in Ports
        /\ run[c].step \notin {"idle", "confirm", "login"}
        /\ run[c].step # "failed" => old.target = run[c].target
    BY RunType DEF ReloadPage, IInv, PageSound
  <1>1. Grow /\ UNCHANGED history
    BY HistoryKept DEF ReloadPage
  <1> PICK v : v = [old EXCEPT !.step = "loaded", !.code = None]
    OBVIOUS
  <1>2. v \in Pages /\ v.step = "loaded" /\ v.target = old.target /\ v.port = old.port
    BY <1>0 DEF Pages
  <1>3. page \in [Runs -> Pages]
    BY Types DEF IInv
  <1>4. page' = [page EXCEPT ![c] = v]
    BY <1>3 DEF ReloadPage, Pages
  <1>5. page' \in [Runs -> Pages] /\ page'[c] = v /\ \A q \in Runs \ {c} : page'[q] = page[q]
    BY <1>2, <1>3, <1>4
  <1>6. run' = run /\ request' = request
    BY DEF ReloadPage
  <1>7. RunSound(c)'
    BY <1>1, <1>6, RunKept DEF IInv
  <1>8. PageSound(c)'
    BY <1>0, <1>2, <1>5, <1>6 DEF PageSound
  <1>9. RequestSound(c)'
    BY <1>1, <1>6, RequestKept DEF IInv, RequestSound
  <1>10. \A q \in Runs : RunSound(q)' /\ PageSound(q)' /\ RequestSound(q)'
    BY <1>1, <1>5, <1>6, <1>7, <1>8, <1>9, OneMoves
  <1>11. StoreSound' /\ RecordsSound'
    BY <1>1, StoreKept, RecordsKept DEF IInv, ReloadPage
  <1>12. TypeOK'
    BY <1>1, <1>5, Types DEF IInv, store, history, ReloadPage, TypeOK, Pages, RunRecords,
                              RunSteps, RequestRecords
  <1> QED
    BY <1>10, <1>11, <1>12 DEF IInv

-----------------------------------------------------------------------------
(* SendGet keeps the invariant. *)
LEMMA SendGetStep ==
    ASSUME IInv, NEW r \in Runs, SendGet(r)
    PROVE  IInv'
  <1> PICK u \in RunRecords : u = run[r]
    BY RunType
  <1>0. u.step = "get" /\ Sound(r, u) /\ u.target \in Targets /\ Made(u.code) /\ u.code \in Codes
    BY RunType DEF SendGet, Step, Sound, Made
  <1>1. Grow /\ UNCHANGED history
    BY HistoryKept DEF SendGet
  <1> PICK q : q = [NoRequest EXCEPT !.step = "get", !.code = u.code, !.target = u.target, !.sealed = None]
    OBVIOUS
  <1>2. q \in RequestRecords /\ q.step = "get" /\ q.code = u.code /\ q.target = u.target
    BY <1>0 DEF NoRequest, RequestRecords
  <1>3. /\ request' \in [Runs -> RequestRecords] /\ request'[r] = q
        /\ \A o \in Runs \ {r} : request'[o] = request[o]
    <2>1. request \in [Runs -> RequestRecords]
      BY Types DEF IInv
    <2>2. request' = [request EXCEPT ![r] = q]
      BY DEF SendGet, Send
    <2> QED
      BY <1>2, <2>1, <2>2
  <1>4. run' = run /\ page' = page
    BY DEF SendGet
  <1>5. RunSound(r)' /\ PageSound(r)'
    <2>1. run[r].step # "failed"
      BY <1>0
    <2> QED
      BY <1>1, <1>4, <2>1, RunKept, PageKept DEF IInv
  <1>6. RequestSound(r)'
    <2>1. run'[r] = u
      BY <1>4
    <2>2. Made(q.code)'
      BY <1>0, <1>1, <1>2, MadeKept
    <2> QED
      BY <1>0, <1>2, <1>3, <2>1, <2>2 DEF RequestSound
  <1>7. \A o \in Runs : RunSound(o)' /\ PageSound(o)' /\ RequestSound(o)'
    BY <1>1, <1>3, <1>4, <1>5, <1>6, OneMoves
  <1>8. StoreSound' /\ RecordsSound'
    BY <1>1, StoreKept, RecordsKept DEF IInv, SendGet
  <1>9. TypeOK'
    BY <1>1, <1>3, Types DEF IInv, store, history, SendGet, TypeOK, Pages, RunRecords,
                              RunSteps, RequestRecords
  <1> QED
    BY <1>7, <1>8, <1>9 DEF IInv

(* SealRecord keeps the invariant. *)
LEMMA SealStep ==
    ASSUME IInv, NEW r \in Runs, NEW w \in Passwords, SealRecord(r, w)
    PROVE  IInv'
  <1> PICK old \in RunRecords : old = run[r]
    BY RunType
  <1>0. /\ old.step = "prompt" /\ old.kind = "import" /\ Sound(r, old) /\ old.target \in Targets
        /\ Made(old.code) /\ old.code \in Codes /\ old.text \in Texts
        /\ WasConfirmed(old.target, old.text)
    BY RunType DEF SealRecord, SendPut, Step, Sound, Made
  <1>1. Grow /\ UNCHANGED history
    BY HistoryKept DEF SealRecord, SendPut
  <1> PICK s : s = [text |-> old.text, password |-> w]
    OBVIOUS
  <1> PICK u : u = [old EXCEPT !.step = "put", !.sealed = s]
    OBVIOUS
  <1> PICK q : q = [NoRequest EXCEPT !.step = "put", !.code = old.code, !.target = old.target, !.sealed = s]
    OBVIOUS
  <1>2. s \in Sealed /\ s.text = old.text
    BY <1>0 DEF Sealed
  <1>3. /\ u \in RunRecords /\ u.step = "put" /\ u.sealed = s /\ u.target = old.target
        /\ u.code = old.code /\ u.kind = "import" /\ u.text = old.text /\ u.fromEnv = old.fromEnv
    BY <1>0, <1>2 DEF RunRecords, RunSteps
  <1>4. q \in RequestRecords /\ q.step = "put" /\ q.code = old.code /\ q.target = old.target /\ q.sealed = s
    BY <1>0, <1>2 DEF NoRequest, RequestRecords
  <1>5. /\ request' \in [Runs -> RequestRecords] /\ request'[r] = q
        /\ \A o \in Runs \ {r} : request'[o] = request[o]
    <2>1. request \in [Runs -> RequestRecords]
      BY Types DEF IInv
    <2>2. request' = [request EXCEPT ![r] = q]
      BY DEF SealRecord, SendPut, Send
    <2> QED
      BY <1>4, <2>1, <2>2
  <1>6. /\ run' \in [Runs -> RunRecords] /\ run'[r] = u
        /\ \A o \in Runs \ {r} : run'[o] = run[o]
    <2>1. run \in [Runs -> RunRecords]
      BY Types DEF IInv
    <2>2. run' = [run EXCEPT ![r].step = "put", ![r].sealed = s]
      BY DEF SealRecord, SendPut
    <2>3. run' = [run EXCEPT ![r] = u]
      BY <2>1, <2>2
    <2> QED
      BY <1>3, <2>1, <2>3
  <1>7. page' = page
    BY DEF SealRecord, SendPut
  <1>8. RunSound(r)'
    <2>1. Sound(r, u)
      BY <1>0, <1>2, <1>3 DEF Sound
    <2> QED
      BY <1>1, <1>6, <2>1 DEF RunSound, Sound, history, Made, WasConfirmed, WasWritten
  <1>9. PageSound(r)'
    BY <1>0, <1>1, <1>3, <1>6, <1>7, PageKept DEF IInv
  <1>10. RequestSound(r)'
    <2>1. Made(q.code)' /\ WasConfirmed(q.target, q.sealed.text)'
      BY <1>0, <1>1, <1>2, <1>4 DEF history, Made, WasConfirmed
    <2> QED
      BY <1>0, <1>2, <1>3, <1>4, <1>5, <1>6, <2>1 DEF RequestSound, WasConfirmed
  <1>11. \A o \in Runs : RunSound(o)' /\ PageSound(o)' /\ RequestSound(o)'
    BY <1>1, <1>5, <1>6, <1>7, <1>8, <1>9, <1>10, OneMoves
  <1>12. StoreSound' /\ RecordsSound'
    BY <1>1, StoreKept, RecordsKept DEF IInv, SealRecord, SendPut
  <1>13. TypeOK'
    BY <1>1, <1>5, <1>6, Types DEF IInv, store, history, SealRecord, SendPut, TypeOK, Pages,
                              RunRecords, RunSteps, RequestRecords
  <1> QED
    BY <1>11, <1>12, <1>13 DEF IInv

(* The API's answer ends the request, and moves the run if it still waits. *)
LEMMA AnswerMoves ==
    ASSUME IInv, Grow, NEW r \in Runs, NEW u \in RunRecords, Answer(r, u),
           request' = [request EXCEPT ![r] = NoRequest], page' = page,
           run[r].step \in {"get", "put"} =>
               /\ Sound(r, u)'
               /\ u.step = "failed" \/ (u.step \in {"prompt", "done"} /\ u.target = run[r].target)
    PROVE  /\ run' \in [Runs -> RunRecords] /\ request' \in [Runs -> RequestRecords]
           /\ \A q \in Runs : RunSound(q)' /\ PageSound(q)' /\ RequestSound(q)'
  <1>1. NoRequest \in RequestRecords /\ NoRequest.step = "none"
    BY DEF NoRequest, RequestRecords
  <1>2. /\ request' \in [Runs -> RequestRecords] /\ request'[r] = NoRequest
        /\ \A o \in Runs \ {r} : request'[o] = request[o]
    BY <1>1, Types DEF IInv
  <1>3. /\ run' \in [Runs -> RunRecords] /\ \A o \in Runs \ {r} : run'[o] = run[o]
        /\ run[r].step \in {"get", "put"} => run'[r] = u
        /\ run[r].step \notin {"get", "put"} => run'[r] = run[r]
    BY Types DEF IInv, Answer
  <1>4. RunSound(r)'
    <2>1. CASE run[r].step \in {"get", "put"}
      BY <1>3, <2>1 DEF RunSound, Sound
    <2>2. CASE run[r].step \notin {"get", "put"}
      BY <1>3, <2>2, RunKept DEF IInv
    <2> QED
      BY <2>1, <2>2
  <1>5. PageSound(r)'
    <2>1. CASE run[r].step \in {"get", "put"}
      BY <1>3, <2>1, PageKept DEF IInv
    <2>2. CASE run[r].step \notin {"get", "put"}
      BY <1>3, <2>2, PageKept DEF IInv
    <2> QED
      BY <2>1, <2>2
  <1>6. RequestSound(r)'
    BY <1>1, <1>2 DEF RequestSound
  <1>7. \A o \in Runs : RunSound(o)' /\ PageSound(o)' /\ RequestSound(o)'
    BY <1>2, <1>3, <1>4, <1>5, <1>6, OneMoves
  <1> QED
    BY <1>2, <1>3, <1>7

(* RequestFails keeps the invariant. *)
LEMMA RequestFailsStep ==
    ASSUME IInv, NEW r \in Runs, RequestFails(r)
    PROVE  IInv'
  <1> PICK u : u = Failed
    OBVIOUS
  <1>1. Grow /\ UNCHANGED history
    BY HistoryKept DEF RequestFails
  <1>2. u \in RunRecords /\ u.step = "failed" /\ Sound(r, u)'
    BY FailedType DEF Failed, NoRun, Sound
  <1>3. /\ run' \in [Runs -> RunRecords] /\ request' \in [Runs -> RequestRecords]
        /\ \A q \in Runs : RunSound(q)' /\ PageSound(q)' /\ RequestSound(q)'
    BY <1>1, <1>2, AnswerMoves DEF RequestFails
  <1>4. StoreSound' /\ RecordsSound'
    BY <1>1, StoreKept, RecordsKept DEF IInv, RequestFails
  <1>5. TypeOK'
    BY <1>1, <1>3, Types DEF IInv, store, history, RequestFails, TypeOK, Pages,
                              RunRecords, RunSteps, RequestRecords
  <1> QED
    BY <1>3, <1>4, <1>5 DEF IInv

(* SelectRecord keeps the invariant. *)
LEMMA SelectStep ==
    ASSUME IInv, NEW r \in Runs, SelectRecord(r)
    PROVE  IInv'
  <1> PICK old \in RunRecords : old = run[r]
    BY RunType
  <1> PICK q : q = request[r]
    OBVIOUS
  <1>0. /\ q \in RequestRecords /\ q.step = "select" /\ q.owner = minted[q.code].owner
        /\ Made(q.code) /\ q.target \in Targets /\ q.owner \in Accounts
        /\ old.step \in {"get", "put"} => old.step = "get" /\ q.code = old.code /\ q.target = old.target
        /\ Sound(r, old)
    <2>1. q.step = "select" /\ RequestSound(r) /\ Sound(r, old)
      BY RunType DEF SelectRecord, IInv
    <2>2. Made(q.code) /\ q.owner = minted[q.code].owner
      BY <2>1 DEF RequestSound
    <2> QED
      BY <2>1, <2>2, RunType DEF RequestSound, Made, Mints
  <1>1. Grow /\ UNCHANGED history
    BY HistoryKept DEF SelectRecord
  <1>2. PICK s : s = records[q.owner][q.target] /\
                 Answer(r, IF s = None THEN Failed
                           ELSE [run[r] EXCEPT !.step = "prompt", !.sealed = s])
    BY DEF SelectRecord, RecordsFound
  <1>3. s # None => s \in Sealed /\ WasWritten(q.owner, q.target, s)
    <2>1. records \in [Accounts -> [Targets -> Sealed \cup {None}]]
      BY Types DEF IInv
    <2>2. s \in Sealed \cup {None}
      BY <1>0, <1>2, <2>1
    <2> QED
      BY <1>0, <1>2, <2>2 DEF IInv, RecordsSound
  <1> PICK u : u = IF s = None THEN Failed ELSE [old EXCEPT !.step = "prompt", !.sealed = s]
    OBVIOUS
  <1>4. u \in RunRecords /\ Answer(r, u)
    <2>1. s # None => [old EXCEPT !.step = "prompt", !.sealed = s] \in RunRecords
      BY <1>3 DEF RunRecords, RunSteps
    <2> QED
      BY <1>2, <2>1, FailedType
  <1>5. ASSUME run[r].step \in {"get", "put"}
        PROVE  /\ Sound(r, u)'
               /\ u.step = "failed" \/ (u.step \in {"prompt", "done"} /\ u.target = old.target)
    <2>1. CASE s = None
      BY <2>1, FailedType DEF Failed, NoRun, Sound
    <2>2. CASE s # None
      <3>1. /\ u.step = "prompt" /\ u.sealed = s /\ u.target = old.target /\ u.code = old.code
            /\ u.kind = old.kind /\ u.fromEnv = old.fromEnv /\ u.text = old.text
        BY <2>2 DEF RunRecords
      <3>2. old.step = "get" /\ old.kind # "import" /\ old.code = q.code /\ old.target = q.target
        BY <1>0, <1>5 DEF Sound
      <3>3. Sound(r, u)
        BY <1>0, <1>3, <2>2, <3>1, <3>2 DEF Sound
      <3>4. Sound(r, u)'
        BY <1>1, <3>3 DEF Sound, history, Made, WasConfirmed, WasWritten
      <3> QED
        BY <3>1, <3>4
    <2> QED
      BY <2>1, <2>2
  <1>6. /\ run' \in [Runs -> RunRecords] /\ request' \in [Runs -> RequestRecords]
        /\ \A o \in Runs : RunSound(o)' /\ PageSound(o)' /\ RequestSound(o)'
    BY <1>1, <1>4, <1>5, AnswerMoves DEF SelectRecord
  <1>7. StoreSound' /\ RecordsSound'
    BY <1>1, StoreKept, RecordsKept DEF IInv, SelectRecord
  <1>8. TypeOK'
    BY <1>1, <1>6, Types DEF IInv, store, history, SelectRecord, TypeOK, Pages,
                              RunRecords, RunSteps, RequestRecords
  <1> QED
    BY <1>6, <1>7, <1>8 DEF IInv

(* UpsertRecord keeps the invariant. *)
LEMMA UpsertStep ==
    ASSUME IInv, NEW r \in Runs, UpsertRecord(r)
    PROVE  IInv'
  <1> PICK old \in RunRecords : old = run[r]
    BY RunType
  <1> PICK q : q = request[r]
    OBVIOUS
  <1>0. /\ q \in RequestRecords /\ q.step = "upsert" /\ q.owner = minted[q.code].owner
        /\ Made(q.code) /\ q.target \in Targets /\ q.owner \in Accounts
        /\ q.sealed \in Sealed /\ WasConfirmed(q.target, q.sealed.text)
        /\ old.step \in {"get", "put"} =>
             old.step = "put" /\ q.code = old.code /\ q.target = old.target /\ q.sealed = old.sealed
        /\ Sound(r, old)
    <2>1. q.step = "upsert" /\ RequestSound(r) /\ Sound(r, old)
      BY RunType DEF UpsertRecord, IInv
    <2>2. Made(q.code) /\ q.owner = minted[q.code].owner
      BY <2>1 DEF RequestSound
    <2> QED
      BY <2>1, <2>2, RunType DEF RequestSound, Made, Mints
  <1> PICK w : w = [owner |-> q.owner, target |-> q.target, sealed |-> q.sealed]
    OBVIOUS
  <1>1. /\ written' = written \cup {w} /\ minted' = minted /\ confirmed' = confirmed
        /\ records' = [records EXCEPT ![q.owner][q.target] = q.sealed]
        /\ page' = page /\ store' = store /\ now' = now
        /\ request' = [request EXCEPT ![r] = NoRequest]
    BY DEF UpsertRecord, store
  <1>2. Grow /\ WasWritten(q.owner, q.target, q.sealed)'
    BY <1>1 DEF Grow, WasWritten
  <1> PICK u : u = [old EXCEPT !.step = "done"]
    OBVIOUS
  <1>3. /\ u \in RunRecords /\ u.step = "done" /\ u.sealed = old.sealed /\ u.target = old.target
        /\ u.code = old.code /\ u.kind = old.kind /\ u.fromEnv = old.fromEnv /\ u.text = old.text
    BY DEF RunRecords, RunSteps
  <1>4. Answer(r, u)
    BY DEF UpsertRecord
  <1>5. ASSUME run[r].step \in {"get", "put"}
        PROVE  Sound(r, u)' /\ u.target = old.target
    <2>1. old.step = "put" /\ q.code = old.code /\ q.target = old.target /\ q.sealed = old.sealed
      BY <1>0, <1>5
    <2>2. WasWritten(minted[u.code].owner, u.target, u.sealed)'
      BY <1>0, <1>1, <1>2, <1>3, <2>1 DEF WasWritten
    <2>3. Made(u.code)'
      BY <1>0, <1>1, <1>3, <2>1 DEF Made
    <2> QED
      BY <1>0, <1>1, <1>3, <2>1, <2>2, <2>3 DEF Sound
  <1>6. /\ run' \in [Runs -> RunRecords] /\ request' \in [Runs -> RequestRecords]
        /\ \A o \in Runs : RunSound(o)' /\ PageSound(o)' /\ RequestSound(o)'
    BY <1>1, <1>2, <1>3, <1>4, <1>5, AnswerMoves
  <1>7. StoreSound'
    BY <1>1, <1>2, StoreKept DEF IInv
  <1>8. /\ records' \in [Accounts -> [Targets -> Sealed \cup {None}]]
        /\ records'[q.owner][q.target] = q.sealed
        /\ \A a \in Accounts, t \in Targets :
             a # q.owner \/ t # q.target => records'[a][t] = records[a][t]
    <2>1. records \in [Accounts -> [Targets -> Sealed \cup {None}]]
      BY Types DEF IInv
    <2> QED
      BY <1>0, <1>1, <2>1
  <1>9. RecordsSound'
    <2>1. ASSUME NEW a \in Accounts, NEW t \in Targets, records'[a][t] # None
          PROVE  /\ [target |-> t, text |-> records'[a][t].text] \in confirmed'
                 /\ [owner |-> a, target |-> t, sealed |-> records'[a][t]] \in written'
      <3>1. CASE a = q.owner /\ t = q.target
        BY <1>0, <1>1, <1>8, <3>1 DEF WasConfirmed
      <3>2. CASE a # q.owner \/ t # q.target
        BY <1>1, <1>8, <2>1, <3>2 DEF IInv, RecordsSound, WasConfirmed, WasWritten
      <3> QED
        BY <3>1, <3>2
    <2> QED
      BY <2>1 DEF RecordsSound, WasConfirmed, WasWritten
  <1>10. written' \in SUBSET [owner : Accounts, target : Targets, sealed : Sealed]
    <2>1. w \in [owner : Accounts, target : Targets, sealed : Sealed]
      BY <1>0
    <2> QED
      BY <1>1, <2>1, Types DEF IInv
  <1>11. TypeOK'
    BY <1>1, <1>6, <1>8, <1>10, Types DEF IInv, store, TypeOK, Pages,
                              RunRecords, RunSteps, RequestRecords
  <1> QED
    BY <1>6, <1>7, <1>9, <1>11 DEF IInv

(* CheckSession keeps the invariant, and lets through what is vouched for. *)
LEMMA CheckStep ==
    ASSUME IInv, NEW r \in Runs, CheckSession(r)
    PROVE  /\ IInv'
           /\ LetThrough(r) =>
                 LET m == minted[request[r].code] IN
                 /\ m # None /\ m.owner = request'[r].owner /\ m.target = request'[r].target
                 /\ now < m.at + HandoffTtl + CliSessionTtl
           /\ \A o \in Runs \ {r} : request'[o] = request[o]
  <1> PICK q : q = request[r]
    OBVIOUS
  <1>0. q \in RequestRecords /\ q.step \in {"get", "put"} /\ RequestSound(r) /\ Made(q.code) /\ q.code \in Codes
    BY RunType DEF CheckSession, IInv, RequestSound, Made
  <1>1. Grow /\ UNCHANGED history
    BY HistoryKept DEF CheckSession
  <1>2. /\ StoreSound'
        /\ handoffs' \in [Codes -> Grants \cup {None}] /\ cliSessions' \in [Codes -> Grants \cup {None}]
    BY <1>1, PurgeStore DEF CheckSession
  <1>3. RecordsSound'
    BY <1>1, RecordsKept DEF IInv, CheckSession
  <1>4. request \in [Runs -> RequestRecords]
    BY Types DEF IInv
  <1>5. CASE ~Allowed(r)
    <2> PICK u : u = Failed
      OBVIOUS
    <2>1. u \in RunRecords /\ u.step = "failed" /\ Sound(r, u)'
      BY FailedType DEF Failed, NoRun, Sound
    <2>2. request' = [request EXCEPT ![r] = NoRequest] /\ Answer(r, u) /\ page' = page
      BY <1>5 DEF CheckSession
    <2>3. /\ run' \in [Runs -> RunRecords] /\ request' \in [Runs -> RequestRecords]
          /\ \A o \in Runs : RunSound(o)' /\ PageSound(o)' /\ RequestSound(o)'
      BY <1>1, <2>1, <2>2, AnswerMoves
    <2>4. TypeOK'
      BY <1>1, <1>2, <2>3, Types DEF IInv, history, CheckSession, TypeOK, Pages,
                                RunRecords, RunSteps, RequestRecords
    <2>5. ~LetThrough(r) /\ \A o \in Runs \ {r} : request'[o] = request[o]
      BY <1>4, <2>2 DEF LetThrough, NoRequest
    <2> QED
      BY <1>2, <1>3, <2>3, <2>4, <2>5 DEF IInv
  <1>6. CASE Allowed(r)
    <2> PICK s : s = cliSessions[q.code]
      OBVIOUS
    <2>1. /\ s # None /\ s.target = q.target /\ s.expires_at > now /\ getCliSession(q.code) = s
      <3>1. cliSessions \in [Codes -> Grants \cup {None}]
        BY Types DEF IInv
      <3> QED
        BY <1>0, <1>6, <3>1, Purged DEF Allowed, getCliSession
    <2>2. /\ s.owner = minted[q.code].owner /\ s.target = minted[q.code].target
          /\ s.expires_at <= minted[q.code].at + (HandoffTtl + CliSessionTtl)
          /\ s \in Grants
      <3>1. cliSessions \in [Codes -> Grants \cup {None}]
        BY Types DEF IInv
      <3> QED
        BY <1>0, <2>1, <3>1 DEF IInv, StoreSound, Vouched
    <2> PICK p : p = [q EXCEPT !.step = IF q.step = "get" THEN "select" ELSE "upsert", !.owner = s.owner]
      OBVIOUS
    <2>3. /\ p \in RequestRecords /\ p.step = (IF q.step = "get" THEN "select" ELSE "upsert")
          /\ p.owner = s.owner /\ p.code = q.code /\ p.target = q.target /\ p.sealed = q.sealed
      BY <1>0, <2>2 DEF RequestRecords, Grants
    <2>4. request' = [request EXCEPT ![r] = p] /\ run' = run /\ page' = page
      <3>1. request' = [request EXCEPT
                  ![r].step = IF @ = "get" THEN "select" ELSE "upsert",
                  ![r].owner = getCliSession(request[r].code).owner]
        BY <1>6 DEF CheckSession
      <3>2. request' = [request EXCEPT ![r] = [request[r] EXCEPT
                  !.step = IF @ = "get" THEN "select" ELSE "upsert", !.owner = s.owner]]
        BY <1>0, <1>4, <2>1, <3>1 DEF RequestRecords
      <3> QED
        BY <1>6, <3>2 DEF CheckSession
    <2>5. /\ request' \in [Runs -> RequestRecords] /\ request'[r] = p
          /\ \A o \in Runs \ {r} : request'[o] = request[o]
      BY <1>4, <2>3, <2>4
    <2>6. RunSound(r)' /\ PageSound(r)'
      BY <1>1, <2>4, RunKept, PageKept DEF IInv
    <2>7. RequestSound(r)'
      <3>1. Made(q.code)' /\ minted' = minted /\ confirmed' = confirmed
        BY <1>0, <1>1, MadeKept DEF history
      <3> QED
        BY <1>0, <2>2, <2>3, <2>4, <2>5, <3>1 DEF RequestSound, WasConfirmed
    <2>8. \A o \in Runs : RunSound(o)' /\ PageSound(o)' /\ RequestSound(o)'
      BY <1>1, <2>4, <2>5, <2>6, <2>7, OneMoves
    <2>9. TypeOK'
      BY <1>1, <1>2, <2>4, <2>5, Types DEF IInv, history, CheckSession, TypeOK, Pages,
                                RunRecords, RunSteps, RequestRecords
    <2>10. /\ minted[q.code] # None /\ minted[q.code].owner = p.owner /\ minted[q.code].target = p.target
           /\ now < minted[q.code].at + HandoffTtl + CliSessionTtl
      <3>1. now \in Nat /\ s.expires_at \in Nat /\ minted[q.code].at \in Nat
        BY <1>0, <2>2, Types DEF IInv, Made, Mints, Grants
      <3> QED
        BY <1>0, <2>1, <2>2, <2>3, <3>1, DevSecretsAssumption DEF Made
    <2> QED
      BY <1>2, <1>3, <2>5, <2>8, <2>9, <2>10 DEF IInv
  <1> QED
    BY <1>5, <1>6

-----------------------------------------------------------------------------
LEMMA InitIInv == Init => IInv
  <1> SUFFICES ASSUME Init PROVE IInv
    OBVIOUS
  <1>1. TypeOK
    BY DEF Init, TypeOK, NoPage, NoRun, NoRequest, Kinds
  <1>2. StoreSound /\ RecordsSound
    BY DEF Init, StoreSound, Vouched, RecordsSound
  <1>3. \A r \in Runs : RunSound(r) /\ PageSound(r) /\ RequestSound(r)
    BY DEF Init, RunSound, Sound, PageSound, RequestSound, NoRun, NoPage, NoRequest
  <1> QED
    BY <1>1, <1>2, <1>3 DEF IInv

(* A step that moves no run, no page and no request, and not the history. *)
LEMMA NothingMoves ==
    ASSUME IInv, UNCHANGED <<run, page, request, records, history>>
    PROVE  RecordsSound' /\ \A r \in Runs : RunSound(r)' /\ PageSound(r)' /\ RequestSound(r)'
  BY DEF IInv, history, RecordsSound, RunSound, Sound, PageSound, RequestSound, Made,
         WasConfirmed, WasWritten

LEMMA RestartStep ==
    ASSUME IInv, RestartApi
    PROVE  IInv'
  <1>1. RecordsSound' /\ \A r \in Runs : RunSound(r)' /\ PageSound(r)' /\ RequestSound(r)'
    BY NothingMoves DEF RestartApi
  <1>2. StoreSound'
    BY DEF RestartApi, StoreSound, Vouched
  <1>3. TypeOK'
    BY Types DEF IInv, RestartApi, history, TypeOK, Pages, RunRecords, RunSteps, RequestRecords
  <1> QED
    BY <1>1, <1>2, <1>3 DEF IInv

LEMMA TickStep ==
    ASSUME IInv, Tick
    PROVE  IInv'
  <1>1. RecordsSound' /\ \A r \in Runs : RunSound(r)' /\ PageSound(r)' /\ RequestSound(r)'
    BY NothingMoves DEF Tick
  <1>2. StoreSound'
    BY DEF IInv, Tick, store, history, StoreSound, Vouched, Made
  <1>3. TypeOK'
    BY Types DEF IInv, Tick, store, history, TypeOK, Pages, RunRecords, RunSteps, RequestRecords
  <1> QED
    BY <1>1, <1>2, <1>3 DEF IInv

(* Every step of a provider keeps the invariant, and lets nothing through. *)
LEMMA ProviderStep ==
    ASSUME IInv, NEW r \in Runs, Provider(r)
    PROVE  IInv'
  <1>1. ASSUME NEW kind \in Kinds, NEW t \in Targets, runDevSecretsProvider(r, kind, t) PROVE IInv'
    BY <1>1, StartStep
  <1>2. ASSUME NEW p \in Ports, Listen(r, p) PROVE IInv'
    BY <1>2, ListenStep
  <1>3. ASSUME NEW w \in Passwords, OpenRecord(r, w) PROVE IInv'
    BY <1>3, OpenStep
  <1>4. ASSUME NEW w \in Passwords, SealRecord(r, w) PROVE IInv'
    BY <1>4, SealStep
  <1>5. CASE LoginTimeout(r) \/ Fail(r)
    BY <1>5, FailStep DEF LoginTimeout, Fail
  <1> QED
    BY <1>1, <1>2, <1>3, <1>4, <1>5, ConfirmStep, ExchangeStep, SendGetStep DEF Provider

LEMMA NextIInv == IInv /\ [Next]_vars => IInv'
  <1> SUFFICES ASSUME IInv, [Next]_vars PROVE IInv'
    OBVIOUS
  <1>1. ASSUME NEW r \in Runs, Provider(r) PROVE IInv'
    BY <1>1, ProviderStep
  <1>2. CASE Browser
    BY <1>2, ReloadStep, CreateStep, RedirectStep DEF Browser
  <1>3. CASE Api
    BY <1>3, CheckStep, SelectStep, UpsertStep, RequestFailsStep, RestartStep DEF Api
  <1>4. CASE UNCHANGED vars
    <2>1. UNCHANGED <<run, page, request, records, history>> /\ UNCHANGED store /\ now' = now
      BY <1>4 DEF vars, store, history
    <2>2. RecordsSound' /\ \A r \in Runs : RunSound(r)' /\ PageSound(r)' /\ RequestSound(r)'
      BY <2>1, NothingMoves
    <2>3. StoreSound'
      BY <2>1, HistoryKept, StoreKept DEF IInv
    <2>4. TypeOK'
      BY <2>1, Types DEF IInv, store, history, TypeOK, Pages, RunRecords, RunSteps, RequestRecords
    <2> QED
      BY <2>2, <2>3, <2>4 DEF IInv
  <1> QED
    BY <1>1, <1>2, <1>3, <1>4, TickStep DEF Next

(* A request that is new, gone or not moved was not let through. *)
LEMMA NotLetThrough ==
    ASSUME NEW o \in Runs,
           request'[o] = request[o] \/ request'[o] = NoRequest \/ request'[o].step \in {"get", "put"}
    PROVE  ~LetThrough(o)
  BY DEF LetThrough, NoRequest

(* What a step lets through is vouched for. *)
LEMMA StepIsVouchedFor ==
    ASSUME IInv, Next, NEW o \in Runs, LetThrough(o)
    PROVE  LET m == minted[request[o].code] IN
           /\ m # None /\ m.owner = request'[o].owner /\ m.target = request'[o].target
           /\ now < m.at + HandoffTtl + CliSessionTtl
  <1>1. ASSUME NEW r \in Runs, Provider(r) PROVE FALSE
    <2>0. request \in [Runs -> RequestRecords]
      BY Types DEF IInv
    <2>1. request'[o] = request[o] \/ request'[o].step \in {"get", "put"}
      <3>1. CASE SendGet(r)
        BY <2>0, <3>1 DEF SendGet, Send, NoRequest
      <3>2. ASSUME NEW w \in Passwords, SealRecord(r, w)
            PROVE  request'[o] = request[o] \/ request'[o].step \in {"get", "put"}
        BY <2>0, <3>2 DEF SealRecord, SendPut, Send, NoRequest
      <3>3. ASSUME NEW kind \in Kinds, NEW t \in Targets, runDevSecretsProvider(r, kind, t)
            PROVE  request' = request
        BY <3>3 DEF runDevSecretsProvider
      <3>4. ASSUME NEW p \in Ports, Listen(r, p) PROVE request' = request
        BY <3>4 DEF Listen
      <3>5. ASSUME NEW w \in Passwords, OpenRecord(r, w) PROVE request' = request
        BY <3>5 DEF OpenRecord
      <3>6. CASE Confirm(r) \/ LoginTimeout(r) \/ exchangeDevSecretsHandoff(r) \/ Fail(r)
        BY <3>6 DEF Confirm, LoginTimeout, exchangeDevSecretsHandoff, Fail
      <3> QED
        BY <1>1, <3>1, <3>2, <3>3, <3>4, <3>5, <3>6 DEF Provider
    <2> QED
      BY <2>1, NotLetThrough
  <1>2. CASE Browser \/ RestartApi \/ Tick
    <2>1. request' = request
      BY <1>2 DEF Browser, ReloadPage, createBrowserHandoff, Redirect, RestartApi, Tick
    <2> QED
      BY <2>1, NotLetThrough
  <1>3. ASSUME NEW r \in Runs, SelectRecord(r) \/ UpsertRecord(r) \/ RequestFails(r) PROVE FALSE
    <2>1. request' = [request EXCEPT ![r] = NoRequest]
      BY <1>3 DEF SelectRecord, UpsertRecord, RequestFails
    <2>2. request'[o] = request[o] \/ request'[o] = NoRequest
      BY <2>1, Types DEF IInv
    <2> QED
      BY <2>2, NotLetThrough
  <1>4. ASSUME NEW r \in Runs, CheckSession(r)
        PROVE  LET m == minted[request[o].code] IN
               /\ m # None /\ m.owner = request'[o].owner /\ m.target = request'[o].target
               /\ now < m.at + HandoffTtl + CliSessionTtl
    <2>1. CASE o = r
      BY <1>4, <2>1, CheckStep
    <2>2. CASE o # r
      <3>1. request'[o] = request[o]
        BY <1>4, <2>2, CheckStep
      <3> QED
        BY <3>1 DEF LetThrough
    <2> QED
      BY <2>1, <2>2
  <1> QED
    BY <1>1, <1>2, <1>3, <1>4 DEF Next, Api

-----------------------------------------------------------------------------
LEMMA Inductive == Spec => []IInv
  BY InitIInv, NextIInv, PTL DEF Spec

(* Every variable keeps its type, for any number of runs and codes. *)
THEOREM TypeCorrect == Spec => []TypeOK
  <1>1. IInv => TypeOK
    BY DEF IInv
  <1> QED
    BY <1>1, Inductive, PTL

(* However many runs log in at once, and whatever ports they share, a run  *)
(* that logged in holds a code of its own page, for its own target.        *)
THEOREM SessionsAreOwn == Spec => []SessionIsTheRunsLogin
  <1>1. IInv => SessionIsTheRunsLogin
    BY DEF IInv, RunSound, Sound, SessionIsTheRunsLogin
  <1> QED
    BY <1>1, Inductive, PTL

(* A run that ends with exit code 0 did what it says. *)
THEOREM SuccessesAreReal == Spec => []SuccessIsReal
  <1>1. IInv => SuccessIsReal
    BY DEF IInv, RunSound, Sound, WasWritten, SuccessIsReal, Step
  <1> QED
    BY <1>1, Inductive, PTL

(* Nothing is stored but what was confirmed. *)
THEOREM OnlyConfirmedIsStored == Spec => []StoredWasConfirmed
  <1>1. IInv => StoredWasConfirmed
    BY DEF IInv, RecordsSound, WasConfirmed, StoredWasConfirmed
  <1> QED
    BY <1>1, Inductive, PTL

(* The API lets no request through that a browser session did not vouch    *)
(* for in time, whatever the times to live.                                *)
THEOREM AccessVouched == Spec => AccessIsVouchedFor
  <1>1. IInv /\ Next =>
          \A r \in Runs : LetThrough(r) =>
            LET m == minted[request[r].code] IN
            /\ m # None /\ m.owner = request'[r].owner /\ m.target = request'[r].target
            /\ now < m.at + HandoffTtl + CliSessionTtl
    BY StepIsVouchedFor
  <1>2. IInv /\ [Next]_vars =>
          [\A r \in Runs : LetThrough(r) =>
            LET m == minted[request[r].code] IN
            /\ m # None /\ m.owner = request'[r].owner /\ m.target = request'[r].target
            /\ now < m.at + HandoffTtl + CliSessionTtl]_vars
    BY <1>1
  <1> QED
    BY <1>2, Inductive, PTL DEF Spec, AccessIsVouchedFor
=============================================================================
