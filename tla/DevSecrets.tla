----------------------------- MODULE DevSecrets -----------------------------
(***************************************************************************)
(* Developer secrets: runs of the secrets provider on a terminal           *)
(* (provider.ts), the browser page each of them opens to log in            *)
(* (handoff-page-client.tsx), and the API with its in-memory session store *)
(* and its table of sealed records.                                        *)
(*                                                                         *)
(* A run goes once from "idle" to "done" (exit code 0) or "failed"; its    *)
(* random state is its name.  The token of a CLI session is the handoff    *)
(* code it was exchanged for.  The port of a run's callback server may be  *)
(* that of an earlier one.                                                 *)
(***************************************************************************)
EXTENDS Integers, FiniteSets

CONSTANTS
    Runs, Ports, Codes,
    Accounts, Targets,
    Texts,              \* dotenv files
    Passwords,
    HandoffTtl, CliSessionTtl,
    MaxTime,            \* bound: of the clock
    None

(* What a code was made for: by the page of which run, and when. *)
Mints == [owner : Accounts, target : Targets, by : Runs, at : Nat]

ASSUME DevSecretsAssumption ==
    /\ None \notin Mints
    /\ None \notin Runs \cup Ports \cup Codes \cup Accounts \cup Targets \cup Texts
                   \cup Passwords
    /\ HandoffTtl \in Nat \ {0} /\ CliSessionTtl \in Nat \ {0} /\ MaxTime \in Nat

VARIABLES
    now,
    page,        \* of each run, the page it opened
    run,
    request,     \* of each run, its request for a record that the API is handling
    handoffs,    \* DevSecretSessionStore, lost at a restart
    cliSessions,
    records,     \* developer_secret_records
    minted,      \* history: what each code was made for
    confirmed,   \* history: the imports that the user confirmed
    written      \* history: what was ever stored

store == <<handoffs, cliSessions>>
history == <<minted, confirmed, written>>
vars == <<now, page, run, request, handoffs, cliSessions, records,
          minted, confirmed, written>>

Kinds == {"read", "verify", "import"}

Sealed == [text : Texts, password : Passwords]

Grants == [owner : Accounts, target : Targets, expires_at : Nat]

(* text: read from the file, or opened; sealed: the record; fromEnv: the   *)
(* token was in the environment.                                           *)
NoRun == [kind |-> "read", target |-> None, step |-> "idle", port |-> None, code |-> None,
          fromEnv |-> FALSE, text |-> None, sealed |-> None]

NoPage == [step |-> "closed", port |-> None, target |-> None, code |-> None]

NoRequest == [step |-> "none", code |-> None, owner |-> None, target |-> None, sealed |-> None]

Init ==
    /\ now = 0
    /\ page = [r \in Runs |-> NoPage]
    /\ run = [r \in Runs |-> NoRun]
    /\ request = [r \in Runs |-> NoRequest]
    /\ handoffs = [k \in Codes |-> None] /\ cliSessions = [k \in Codes |-> None]
    /\ records = [a \in Accounts |-> [t \in Targets |-> None]]
    /\ minted = [k \in Codes |-> None]
    /\ confirmed = {} /\ written = {}

Step(r, s) == run[r].step = s

(* With exit code 1, and nothing printed. *)
Failed == [NoRun EXCEPT !.step = "failed"]

-----------------------------------------------------------------------------
(* dev-secret-session-store.ts *)

(* Seeded fault: a record still works at its deadline. *)
purgeAfterDeadline(m) ==
    [k \in Codes |-> IF m[k] # None /\ m[k].expires_at >= now THEN m[k] ELSE None]

(* Of handoffs and CLI sessions, before each operation. *)
purgeExpiredRecords(m) ==
    [k \in Codes |-> IF m[k] # None /\ m[k].expires_at > now THEN m[k] ELSE None]

Grant(a, t, ttl) == [owner |-> a, target |-> t, expires_at |-> now + ttl]

createHandoff(k, a, t) ==
    /\ handoffs' = [purgeExpiredRecords(handoffs) EXCEPT ![k] = Grant(a, t, HandoffTtl)]
    /\ cliSessions' = purgeExpiredRecords(cliSessions)

exchangeHandoff(k) ==
    LET live == purgeExpiredRecords(handoffs)
        sessions == purgeExpiredRecords(cliSessions) IN
    IF live[k] = None THEN handoffs' = live /\ cliSessions' = sessions
    ELSE /\ handoffs' = [live EXCEPT ![k] = None]
         /\ cliSessions' =
               [sessions EXCEPT ![k] = Grant(live[k].owner, live[k].target, CliSessionTtl)]

(* What it gives, after the purge. *)
getCliSession(k) == purgeExpiredRecords(cliSessions)[k]

Purge ==
    /\ handoffs' = purgeExpiredRecords(handoffs)
    /\ cliSessions' = purgeExpiredRecords(cliSessions)

-----------------------------------------------------------------------------
(* The provider, up to its session. *)

(* A session token that something else may have put into the environment. *)
KnownTokens == {k \in Codes : cliSessions[k] # None}

(* The next step once a token is there. *)
AfterToken(kind) == IF kind = "import" THEN "prompt" ELSE "get"

(* Where getCliSessionToken begins, with a token from the environment or   *)
(* by way of the browser.                                                  *)
WithToken(u, k) ==
    IF k = None THEN [u EXCEPT !.step = "login"]
    ELSE [u EXCEPT !.step = AfterToken(u.kind), !.code = k, !.fromEnv = TRUE]

(* parseProviderCommand takes supported targets only; an import then reads *)
(* its file, which must be a dotenv file, and asks the user.               *)
runDevSecretsProvider(r, kind, t) ==
    /\ Step(r, "idle")
    /\ LET u == [NoRun EXCEPT !.kind = kind, !.target = t] IN
       IF kind = "import"
       THEN \E x \in Texts : run' = [run EXCEPT ![r] = [u EXCEPT !.step = "confirm", !.text = x]]
       ELSE \E k \in KnownTokens \cup {None} : run' = [run EXCEPT ![r] = WithToken(u, k)]
    /\ UNCHANGED <<now, page, request, store, records, history>>

(* "Replace existing ciphertext?", below the size and hash of the file. *)
Confirm(r) ==
    /\ Step(r, "confirm")
    /\ \E k \in KnownTokens \cup {None} : run' = [run EXCEPT ![r] = WithToken(@, k)]
    /\ confirmed' = confirmed \cup {[target |-> run[r].target, text |-> run[r].text]}
    /\ UNCHANGED <<now, page, request, store, records, minted, written>>

Listening(r) == Step(r, "waiting")

(* Its state is r. *)
handoffUrl(r, p) ==
    [NoPage EXCEPT !.step = "loaded", !.port = p, !.target = run[r].target]

(* waitForLoopbackCode: the services answer, a port is bound, and the      *)
(* browser opens a page with the callback, the state and the target.       *)
Listen(r, p) ==
    /\ Step(r, "login")
    /\ \A q \in Runs : Listening(q) => run[q].port # p
    /\ run' = [run EXCEPT ![r].step = "waiting", ![r].port = p]
    /\ page' = [page EXCEPT ![r] = handoffUrl(r, p)]
    /\ UNCHANGED <<now, request, store, records, history>>

WithCode(u, k) == [u EXCEPT !.step = "exchange", !.port = None, !.code = k]

(* Seeded fault: any callback is taken. *)
TakeCallback(r, c) == run' = [run EXCEPT ![r] = WithCode(@, page[c].code)]

(* The page of run c comes to the server of run r, which closes.  A state  *)
(* that is not its own makes it give up.                                   *)
HandleCallback(r, c) ==
    run' = [run EXCEPT ![r] = IF c = r THEN WithCode(@, page[c].code) ELSE Failed]

(* login_timeout *)
LoginTimeout(r) ==
    /\ Step(r, "waiting")
    /\ run' = [run EXCEPT ![r] = Failed]
    /\ UNCHANGED <<now, page, request, store, records, history>>

(* The API's answer may be an error, or be lost. *)
exchangeDevSecretsHandoff(r) ==
    /\ Step(r, "exchange")
    /\ exchangeHandoff(run[r].code)
    /\ \/ /\ purgeExpiredRecords(handoffs)[run[r].code] # None
          /\ run' = [run EXCEPT ![r].step = AfterToken(run[r].kind)]
       \/ run' = [run EXCEPT ![r] = Failed]
    /\ UNCHANGED <<now, page, request, records, history>>

-----------------------------------------------------------------------------
(* The browser. *)

(* startBrowserHandoff, for whoever is signed in - otherwise the user is    *)
(* sent to log in, and comes back - and createBrowserHandoff.  The page    *)
(* then goes to the callback with the code; but the answer may be lost.    *)
createBrowserHandoff(c, a, k) ==
    LET t == page[c].target IN
    /\ page[c].step = "loaded" /\ minted[k] = None
    /\ createHandoff(k, a, t)
    /\ minted' = [minted EXCEPT ![k] = [owner |-> a, target |-> t, by |-> c, at |-> now]]
    /\ page' \in {page, [page EXCEPT ![c].step = "redirecting", ![c].code = k]}
    /\ UNCHANGED <<now, run, request, records, confirmed, written>>

(* The user goes back, or loads it again. *)
ReloadPage(c) ==
    /\ page[c].step = "redirecting"
    /\ page' = [page EXCEPT ![c].step = "loaded", ![c].code = None]
    /\ UNCHANGED <<now, run, request, store, records, history>>

(* To whatever listens at that port by now. *)
Redirect(r, c) ==
    /\ page[c].step = "redirecting"
    /\ Listening(r) /\ run[r].port = page[c].port
    /\ HandleCallback(r, c)
    /\ UNCHANGED <<now, page, request, store, records, history>>

-----------------------------------------------------------------------------
(* The provider, with its token. *)

Send(r, step, s) ==
    request' = [request EXCEPT ![r] = [NoRequest EXCEPT !.step = step,
                   !.code = run[r].code, !.target = run[r].target, !.sealed = s]]

(* readDevSecretRecord *)
SendGet(r) ==
    /\ Step(r, "get") /\ request[r] = NoRequest
    /\ Send(r, "get", None)
    /\ UNCHANGED <<now, page, run, store, records, history>>

(* readDecryptedDotenv's end: it prints what opens, or that it does. *)
OpenRecord(r, w) ==
    /\ Step(r, "prompt") /\ run[r].kind # "import"
    /\ run' = [run EXCEPT ![r] =
                  IF @.sealed.password # w THEN Failed
                  ELSE [@ EXCEPT !.step = "done", !.text = run[r].sealed.text]]
    /\ UNCHANGED <<now, page, request, store, records, history>>

(* sealDeveloperSecretBlob and writeDevSecretRecord, with text x *)
SendPut(r, x, w) ==
    /\ Step(r, "prompt") /\ run[r].kind = "import" /\ request[r] = NoRequest
    /\ run' = [run EXCEPT ![r].step = "put", ![r].sealed = [text |-> x, password |-> w]]
    /\ Send(r, "put", [text |-> x, password |-> w])
    /\ UNCHANGED <<now, page, store, records, history>>

(* Seeded fault: the file is read again. *)
SealFile(r, w) == \E x \in Texts : SendPut(r, x, w)

SealRecord(r, w) == SendPut(r, run[r].text, w)

(* Declined, interrupted, an error or no answer: at any time.  What the    *)
(* API is handling goes on.                                                *)
Fail(r) ==
    /\ run[r].step \notin {"idle", "done", "failed"}
    /\ run' = [run EXCEPT ![r] = Failed]
    /\ UNCHANGED <<now, page, request, store, records, history>>

-----------------------------------------------------------------------------
(* The API. *)

(* The run becomes u, if it still waits. *)
Answer(r, u) == run' = IF run[r].step \in {"get", "put"} THEN [run EXCEPT ![r] = u] ELSE run

(* The session must be there, and be for the target asked for. *)
Allowed(r) ==
    LET s == getCliSession(request[r].code) IN s # None /\ s.target = request[r].target

(* getPrivateRecord and putPrivateRecord, up to the await. *)
CheckSession(r) ==
    /\ request[r].step \in {"get", "put"}
    /\ Purge
    /\ IF Allowed(r)
       THEN /\ request' = [request EXCEPT
                  ![r].step = IF @ = "get" THEN "select" ELSE "upsert",
                  ![r].owner = getCliSession(request[r].code).owner]
            /\ run' = run
       ELSE /\ request' = [request EXCEPT ![r] = NoRequest]
            /\ Answer(r, Failed)
    /\ UNCHANGED <<now, page, records, history>>

(* Seeded fault: whoever's record there is for the target. *)
RecordsForTarget(q) == {records[a][q.target] : a \in Accounts}

(* getStoredRecord *)
RecordsFound(q) == {records[q.owner][q.target]}

SelectRecord(r) ==
    /\ request[r].step = "select"
    /\ request' = [request EXCEPT ![r] = NoRequest]
    /\ \E s \in RecordsFound(request[r]) :
          Answer(r, IF s = None THEN Failed
                    ELSE [run[r] EXCEPT !.step = "prompt", !.sealed = s])
    /\ UNCHANGED <<now, page, store, records, history>>

(* putStoredRecord *)
UpsertRecord(r) ==
    LET q == request[r] IN
    /\ q.step = "upsert"
    /\ request' = [request EXCEPT ![r] = NoRequest]
    /\ records' = [records EXCEPT ![q.owner][q.target] = q.sealed]
    /\ written' = written \cup {[owner |-> q.owner, target |-> q.target, sealed |-> q.sealed]}
    /\ Answer(r, [run[r] EXCEPT !.step = "done"])
    /\ UNCHANGED <<now, page, store, minted, confirmed>>

(* The request, or what it asks of the database, fails. *)
RequestFails(r) ==
    /\ request[r] # NoRequest
    /\ request' = [request EXCEPT ![r] = NoRequest]
    /\ Answer(r, Failed)
    /\ UNCHANGED <<now, page, store, records, history>>

(* Its memory is gone. *)
RestartApi ==
    /\ handoffs' = [k \in Codes |-> None] /\ cliSessions' = [k \in Codes |-> None]
    /\ UNCHANGED <<now, page, run, request, records, history>>

Tick ==
    /\ now < MaxTime
    /\ now' = now + 1
    /\ UNCHANGED <<page, run, request, store, records, history>>

-----------------------------------------------------------------------------
Provider(r) ==
    \/ \E kind \in Kinds, t \in Targets : runDevSecretsProvider(r, kind, t)
    \/ \E p \in Ports : Listen(r, p)
    \/ \E w \in Passwords : OpenRecord(r, w) \/ SealRecord(r, w)
    \/ Confirm(r) \/ LoginTimeout(r) \/ exchangeDevSecretsHandoff(r) \/ SendGet(r) \/ Fail(r)

Browser ==
    \/ \E c \in Runs : ReloadPage(c)
    \/ \E c \in Runs, a \in Accounts, k \in Codes : createBrowserHandoff(c, a, k)
    \/ \E r, c \in Runs : Redirect(r, c)

Api ==
    \/ \E r \in Runs : CheckSession(r) \/ SelectRecord(r) \/ UpsertRecord(r) \/ RequestFails(r)
    \/ RestartApi

Next == (\E r \in Runs : Provider(r)) \/ Browser \/ Api \/ Tick

Spec == Init /\ [][Next]_vars

-----------------------------------------------------------------------------
(* Every variable keeps its type. *)
TypeOK ==
    /\ now \in Nat
    /\ page \in [Runs -> [step : {"closed", "loaded", "redirecting"},
                          port : Ports \cup {None}, target : Targets \cup {None},
                          code : Codes \cup {None}]]
    /\ run \in [Runs -> [kind : Kinds, target : Targets \cup {None},
                         step : {"idle", "confirm", "login", "waiting", "exchange", "get",
                                 "prompt", "put", "done", "failed"},
                         port : Ports \cup {None}, code : Codes \cup {None},
                         fromEnv : BOOLEAN, text : Texts \cup {None},
                         sealed : Sealed \cup {None}]]
    /\ request \in [Runs -> [step : {"none", "get", "put", "select", "upsert"},
                             code : Codes \cup {None}, owner : Accounts \cup {None},
                             target : Targets \cup {None}, sealed : Sealed \cup {None}]]
    /\ handoffs \in [Codes -> Grants \cup {None}]
    /\ cliSessions \in [Codes -> Grants \cup {None}]
    /\ records \in [Accounts -> [Targets -> Sealed \cup {None}]]
    /\ minted \in [Codes -> Mints \cup {None}]
    /\ confirmed \in SUBSET [target : Targets, text : Texts]
    /\ written \in SUBSET [owner : Accounts, target : Targets, sealed : Sealed]

(* A run that logged in by way of the browser holds a code of the page it  *)
(* opened itself, for the target it was started with, however the pages of *)
(* other runs reload and whatever port they come back to (provider.ts,     *)
(* waitForLoopbackCode).                                                   *)
SessionIsTheRunsLogin ==
    \A r \in Runs :
        run[r].code # None /\ ~run[r].fromEnv =>
            minted[run[r].code].by = r /\ minted[run[r].code].target = run[r].target


LetThrough(r) ==
    request[r].step \in {"get", "put"} /\ request'[r].step \in {"select", "upsert"}

(* The API lets a request through only for the account and the target that *)
(* a browser session vouched for, and less than the time to live of a code *)
(* and of a session ago (dev-secret-session-store.ts and                   *)
(* dev-secrets-service.ts).                                                *)
AccessIsVouchedFor ==
    [][\A r \in Runs : LetThrough(r) =>
          LET m == minted[request[r].code] IN
          /\ m # None /\ m.owner = request'[r].owner /\ m.target = request'[r].target
          /\ now < m.at + HandoffTtl + CliSessionTtl]_vars

(* A run ends with exit code 0 only when it was true: what an import       *)
(* sealed was stored, and what a read printed or a verify opened had been  *)
(* stored for the run's target by the account that its code was made for.  *)
SuccessIsReal ==
    \A r \in Runs : Step(r, "done") =>
        [owner |-> minted[run[r].code].owner, target |-> run[r].target,
         sealed |-> run[r].sealed] \in written

(* Nothing is stored but what the user was shown and confirmed, for that   *)
(* target (provider.ts, runImportCommand).                                 *)
StoredWasConfirmed ==
    \A a \in Accounts, t \in Targets :
        records[a][t] # None => [target |-> t, text |-> records[a][t].text] \in confirmed
=============================================================================
