--------------------------- MODULE CertReloader ---------------------------
(***************************************************************************)
(* The certificate a grpcmcp process presents (tls.go, certReloader): a    *)
(* cache of one key pair, filled from two files that somebody else rotates *)
(* in place. Every system call of a reload is a step of its own, so that   *)
(* the files may change between any two of them; handshakes run            *)
(* concurrently and take the reloader's mutex for the reload, but not for  *)
(* the log line that may follow it.                                        *)
(*                                                                         *)
(* A key pair is the number under which it was issued. Modification times  *)
(* are stamps of one clock that advances at every write: no two contents   *)
(* of a file share one, which is all that the reloader has to tell a file  *)
(* that changed from one that did not.                                     *)
(***************************************************************************)
EXTENDS Integers

CONSTANTS
    Main,       \* the goroutine that runs newCertReloader
    Handshake,  \* goroutines of TLS handshakes
    NoFailure,  \* the empty string
    MaxIssue,   \* bound: key pairs issued
    MaxStamp,   \* bound: writes to the files
    MaxExpired  \* bound: key pairs that expire

ASSUME CallerAssumption == Main \notin Handshake
ASSUME BoundAssumption == MaxIssue \in Nat \ {0} /\ MaxStamp \in Nat \ {0}
                          /\ MaxExpired \in Nat

Caller == Handshake \cup {Main}
Part   == {"crt", "key"}

Gone    == -1   \* what reading a missing file yields
Garbage == 0    \* a file that holds no certificate or key, or half of one
Issued  == 1..MaxIssue
Content == {Garbage} \cup Issued
NoStamp == 0    \* the zero time, and what a stat that failed yields
Stamp   == 1..MaxStamp

VARIABLES
    disk,         \* [Part -> [pair, mod, there]]
    clock,        \* the stamp of the latest write
    issued,       \* the latest key pair issued
    expired,      \* key pairs up to this one have expired
    status,       \* "starting", "serving" or "exited"
    mu,           \* the reloader's mutex is held
    cert,         \* the key pair of the cached certificate, 0 for nil
    mods,         \* [Part -> the modification times recorded with it]
    lastFailure,  \* the last failure logged
    pc,           \* [Caller -> where its call of certificate() stands]
    stat,         \* [Caller -> [Part -> the modification time it saw]]
    got,          \* [Caller -> [Part -> what it read]]
    result,       \* [Caller -> the key pair returned, 0 for an error]
    message,      \* [Caller -> it has a line to log]
    undisturbed   \* history: no file changed since the caller took the mutex

files    == <<disk, clock, issued, expired>>
reloader == <<mu, cert, mods, lastFailure>>
locals   == <<pc, stat, got, result, message>>
history  == undisturbed
vars     == <<files, status, reloader, locals, history>>

Cause    == {"no crt", "no key", "bad crt", "bad key", "mismatch"}
Failure  == [cause : Cause, refused : BOOLEAN]

-----------------------------------------------------------------------------
Init ==
    /\ disk \in [Part -> [pair : {Garbage, 1}, mod : {1}, there : {TRUE}]]
    /\ clock = 1
    /\ issued = 1
    /\ expired = 0
    /\ status = "starting"
    /\ mu = FALSE
    /\ cert = 0
    /\ mods = [f \in Part |-> NoStamp]
    /\ lastFailure = NoFailure
    /\ pc = [c \in Caller |-> IF c = Main THEN "lock" ELSE "idle"]
    /\ stat = [c \in Caller |-> [f \in Part |-> NoStamp]]
    /\ got = [c \in Caller |-> [f \in Part |-> Gone]]
    /\ result = [c \in Caller |-> 0]
    /\ message = [c \in Caller |-> FALSE]
    /\ undisturbed = [c \in Caller |-> FALSE]

-----------------------------------------------------------------------------
(* Whoever rotates the files.                                              *)

Disturb ==
    /\ undisturbed' = [c \in Caller |-> FALSE]
    /\ UNCHANGED <<expired, status, reloader, locals>>

Issue ==
    /\ issued < MaxIssue
    /\ issued' = issued + 1
    /\ UNCHANGED <<disk, clock, expired, status, reloader, locals, history>>

\* The files in fs are replaced at once, with parts of the latest pair or with
\* garbage: one file that is written in place is garbage for a while, and two
\* files behind one symbolic link are replaced together.
Write(fs, pair) ==
    /\ clock < MaxStamp
    /\ clock' = clock + 1
    /\ disk' = [f \in Part |-> IF f \in fs
                               THEN [pair |-> pair, mod |-> clock + 1, there |-> TRUE]
                               ELSE disk[f]]
    /\ UNCHANGED issued
    /\ Disturb

\* A file is moved away, or moved back as it was.
Move(f) ==
    /\ disk' = [disk EXCEPT ![f].there = ~@]
    /\ UNCHANGED <<clock, issued>>
    /\ Disturb

Expire ==
    /\ expired < issued
    /\ expired < MaxExpired
    /\ expired' = expired + 1
    /\ UNCHANGED <<disk, clock, issued, status, reloader, locals, history>>

-----------------------------------------------------------------------------
(* A call of certificate().                                                *)

Goto(c, from, to) == pc[c] = from /\ pc' = [pc EXCEPT ![c] = to]

\* A handshake asks for the certificate.
Begin(c) ==
    /\ status = "serving"
    /\ Goto(c, "idle", "lock")
    /\ UNCHANGED <<files, status, reloader, stat, got, result, message, history>>

\* A plausible slip: the handshakes share the reloader without its mutex.
Bug_Lock(c) ==
    /\ mu' = mu
    /\ Goto(c, "lock", "statCrt")
    /\ undisturbed' = [undisturbed EXCEPT ![c] = TRUE]
    /\ UNCHANGED <<files, status, cert, mods, lastFailure, stat, got, result,
                   message>>

Lock(c) ==
    /\ ~mu
    /\ mu' = TRUE
    /\ Goto(c, "lock", "statCrt")
    /\ undisturbed' = [undisturbed EXCEPT ![c] = TRUE]
    /\ UNCHANGED <<files, status, cert, mods, lastFailure, stat, got, result,
                   message>>

Stat(c, f) ==
    /\ stat' = [stat EXCEPT ![c][f] = IF disk[f].there THEN disk[f].mod ELSE NoStamp]
    /\ UNCHANGED <<files, status, reloader, got, result, message, history>>

StatCrt(c) == Goto(c, "statCrt", "statKey") /\ Stat(c, "crt")
StatKey(c) == Goto(c, "statKey", "check") /\ Stat(c, "key")

StatOK(c) == \A f \in Part : stat[c][f] # NoStamp

Return(c, pair, logs) ==
    /\ result' = [result EXCEPT ![c] = pair]
    /\ message' = [message EXCEPT ![c] = logs]

\* A plausible slip: the times are compared to the second, here two stamps.
Bug_CacheHolds(c) ==
    /\ StatOK(c)
    /\ cert # 0
    /\ \A f \in Part : (stat[c][f] + 1) \div 2 = (mods[f] + 1) \div 2

\* Neither file has the look of having changed.
CacheHolds(c) == StatOK(c) /\ cert # 0 /\ stat[c] = mods

CacheHit(c) ==
    /\ CacheHolds(c)
    /\ Goto(c, "check", "unlock")
    /\ Return(c, cert, FALSE)
    /\ UNCHANGED <<files, status, reloader, stat, got, undisturbed>>

CacheMiss(c) ==
    /\ ~CacheHolds(c)
    /\ Goto(c, "check", "readCrt")
    /\ UNCHANGED <<files, status, reloader, stat, got, result, message, history>>

\* The key is not read when the certificate cannot be.
Read(c, f) ==
    /\ got' = [got EXCEPT ![c][f] = IF disk[f].there THEN disk[f].pair ELSE Gone]
    /\ UNCHANGED <<files, status, reloader, stat, result, message, history>>

ReadCrt(c) ==
    /\ Goto(c, "readCrt", IF disk["crt"].there THEN "readKey" ELSE "apply")
    /\ Read(c, "crt")

ReadKey(c) == Goto(c, "readKey", "apply") /\ Read(c, "key")

Loaded(c) == got[c]["crt"] \in Issued /\ got[c]["key"] = got[c]["crt"]

CauseOf(g) ==
    IF g["crt"] = Gone THEN "no crt"
    ELSE IF g["key"] = Gone THEN "no key"
    ELSE IF g["crt"] = Garbage THEN "bad crt"
    ELSE IF g["key"] = Garbage THEN "bad key"
    ELSE "mismatch"

\* A plausible slip: the times are taken after the load instead of before it.
Bug_Load(c) ==
    /\ Loaded(c)
    /\ Goto(c, "apply", "unlock")
    /\ cert' = got[c]["crt"]
    /\ lastFailure' = NoFailure
    /\ mods' = IF StatOK(c) THEN [f \in Part |-> disk[f].mod] ELSE mods
    /\ Return(c, got[c]["crt"], cert # got[c]["crt"])
    /\ UNCHANGED <<files, status, mu, stat, got, undisturbed>>

Load(c) ==
    /\ Loaded(c)
    /\ Goto(c, "apply", "unlock")
    /\ cert' = got[c]["crt"]
    /\ lastFailure' = NoFailure
    /\ mods' = IF StatOK(c) THEN stat[c] ELSE mods
    /\ Return(c, got[c]["crt"], cert # got[c]["crt"])
    /\ UNCHANGED <<files, status, mu, stat, got, undisturbed>>

FailAtStartup(c) ==
    /\ ~Loaded(c)
    /\ cert = 0
    /\ Goto(c, "apply", "unlock")
    /\ Return(c, 0, FALSE)
    /\ UNCHANGED <<files, status, reloader, stat, got, undisturbed>>

\* A plausible slip: the times are recorded although the load failed.
Bug_Fail(c, pair, failure) ==
    /\ Goto(c, "apply", "unlock")
    /\ Return(c, pair, failure # lastFailure)
    /\ lastFailure' = failure
    /\ mods' = IF StatOK(c) THEN stat[c] ELSE mods
    /\ UNCHANGED <<files, status, mu, cert, stat, got, undisturbed>>

\* The same failure is not logged twice in a row.
Fail(c, pair, failure) ==
    /\ Goto(c, "apply", "unlock")
    /\ Return(c, pair, failure # lastFailure)
    /\ lastFailure' = failure
    /\ UNCHANGED <<files, status, mu, cert, mods, stat, got, undisturbed>>

\* A plausible slip: the pair that failed to load takes the cached one with it.
Bug_FallBack(c) ==
    /\ ~Loaded(c)
    /\ cert > expired
    /\ Goto(c, "apply", "unlock")
    /\ Return(c, cert, TRUE)
    /\ cert' = 0
    /\ UNCHANGED <<files, status, mu, mods, lastFailure, stat, got, undisturbed>>

FallBack(c) ==
    /\ ~Loaded(c)
    /\ cert > expired
    /\ Fail(c, cert, [cause |-> CauseOf(got[c]), refused |-> FALSE])

RefuseExpired(c) ==
    /\ ~Loaded(c)
    /\ cert \in 1..expired
    /\ Fail(c, 0, [cause |-> CauseOf(got[c]), refused |-> TRUE])

\* A plausible slip: a call that has a line to log keeps the mutex.
Bug_Unlock(c) ==
    /\ mu' = message[c]
    /\ Goto(c, "unlock", "log")
    /\ stat' = [stat EXCEPT ![c] = [f \in Part |-> NoStamp]]
    /\ got' = [got EXCEPT ![c] = [f \in Part |-> Gone]]
    /\ UNCHANGED <<files, status, cert, mods, lastFailure, result, message, history>>

Unlock(c) ==
    /\ mu' = FALSE
    /\ Goto(c, "unlock", "log")
    /\ stat' = [stat EXCEPT ![c] = [f \in Part |-> NoStamp]]
    /\ got' = [got EXCEPT ![c] = [f \in Part |-> Gone]]
    /\ UNCHANGED <<files, status, cert, mods, lastFailure, result, message, history>>

\* The line, if there is one, is logged, and the call returns. The process
\* ends when the first call failed.
Finish(c) ==
    /\ Goto(c, "log", "idle")
    /\ Return(c, 0, FALSE)
    /\ undisturbed' = [undisturbed EXCEPT ![c] = FALSE]
    /\ status' = IF c # Main THEN status
                 ELSE IF result[c] = 0 THEN "exited" ELSE "serving"
    /\ UNCHANGED <<files, reloader, stat, got>>

-----------------------------------------------------------------------------
Rotation ==
    \/ Issue
    \/ \E f \in Part : Write({f}, issued) \/ Write({f}, Garbage)
    \/ Write(Part, issued)
    \/ \E f \in Part : Move(f)
    \/ Expire

Reload(c) ==
    \/ StatCrt(c)
    \/ StatKey(c)
    \/ CacheHit(c)
    \/ CacheMiss(c)
    \/ ReadCrt(c)
    \/ ReadKey(c)
    \/ Load(c)
    \/ FailAtStartup(c)
    \/ FallBack(c)
    \/ RefuseExpired(c)
    \/ Unlock(c)

Next ==
    \/ Rotation
    \/ \E c \in Handshake : Begin(c)
    \/ \E c \in Caller : Lock(c) \/ Reload(c) \/ Finish(c)

Spec == Init /\ [][Next]_vars

\* A goroutine that holds the mutex runs on, and Go's mutex hands itself to a
\* goroutine that has waited long. Writing to the log may block for ever, and
\* nobody has to connect.
FairSpec ==
    /\ Spec
    /\ \A c \in Caller : SF_vars(Lock(c)) /\ WF_vars(Reload(c))

\* What it takes for a rotation to be noticed: handshakes keep coming, and the
\* log takes its lines.
Busy == \A c \in Caller : WF_vars((c # Main /\ Begin(c)) \/ Finish(c))

-----------------------------------------------------------------------------
(* Properties.                                                             *)

\* Every variable has its type.
TypeOK ==
    /\ disk \in [Part -> [pair : Content, mod : Stamp, there : BOOLEAN]]
    /\ clock \in Stamp
    /\ issued \in Issued
    /\ expired \in 0..MaxExpired
    /\ status \in {"starting", "serving", "exited"}
    /\ mu \in BOOLEAN
    /\ cert \in {0} \cup Issued
    /\ mods \in [Part -> {NoStamp} \cup Stamp]
    /\ lastFailure \in {NoFailure} \cup Failure
    /\ pc \in [Caller -> {"idle", "lock", "statCrt", "statKey", "check",
                          "readCrt", "readKey", "apply", "unlock", "log"}]
    /\ stat \in [Caller -> [Part -> {NoStamp} \cup Stamp]]
    /\ got \in [Caller -> [Part -> {Gone} \cup Content]]
    /\ result \in [Caller -> {0} \cup Issued]
    /\ message \in [Caller -> BOOLEAN]
    /\ undisturbed \in [Caller -> BOOLEAN]

\* A file that still has the modification time recorded with the cached
\* certificate still holds the part that was cached: answering from the cache
\* never hides a rotation, whatever changed while the files were read.
CacheCoherent == \A f \in Part : mods[f] = disk[f].mod => cert = disk[f].pair

\* The cached certificate never goes back to one issued earlier, however the
\* reloads of concurrent handshakes interleave.
NeverRegress == [][cert' >= cert]_vars

\* A call that saw no file change while it ran returns the pair that is on
\* disk, when that is one.
Current ==
    \A c \in Caller :
        /\ pc[c] = "log"
        /\ undisturbed[c]
        /\ \A f \in Part : disk[f].there /\ disk[f].pair \in Issued
        /\ disk["crt"].pair = disk["key"].pair
        => result[c] = disk["crt"].pair

\* A handshake is refused only when the certificate to fall back on has expired.
\* Files that are away, hold garbage or are caught half rotated, however often
\* and in whichever order, cost the process nothing else (tls.go:135).
KeepsServing ==
    \A h \in Handshake : pc[h] = "unlock" /\ result[h] = 0 => cert \in 1..expired

\* A handshake gets its answer even when a line that another one logs blocks
\* for ever (tls_test.go, TestCertReloaderDoesNotHoldTheLockWhileItLogs).
Answered == \A c \in Caller : []<>(pc[c] \in {"log", "idle"})

\* Both parts of the latest pair are in place.
Rotated == \A f \in Part : disk[f].there /\ disk[f].pair = issued

\* Once both parts of a pair are in place for good, it becomes the certificate
\* and remains so, as long as handshakes keep coming and the log takes their
\* lines, unless the process ended at its start.
RotationTakesEffect ==
    Busy /\ <>[]Rotated => <>[](status = "exited" \/ cert = issued)
=============================================================================
