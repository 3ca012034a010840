------------------------ MODULE CertReloaderProofs ------------------------
(***************************************************************************)
(* What holds of CertReloader for any number of handshakes and rotations.  *)
(*                                                                         *)
(* The heart of it is ReadsHold: what a reload has read of a file is still *)
(* there as long as the file's modification time is the one recorded, or   *)
(* the one seen before the read. That is why the times must be taken       *)
(* before the load, and why they may be kept when a stat failed.           *)
(***************************************************************************)
EXTENDS CertReloader, TLAPS

\* Where a call holds the mutex.
Inside == {"statCrt", "statKey", "check", "readCrt", "readKey", "apply", "unlock"}

\* The program points at which a call has seen, or has read, a file.
Seen(f) ==
    IF f = "crt" THEN {"statKey", "check", "readCrt", "readKey", "apply"}
    ELSE {"check", "readCrt", "readKey", "apply"}
HasRead(f) == IF f = "crt" THEN {"readKey", "apply"} ELSE {"apply"}

\* At most one call is inside, and the mutex is held while one is.
Exclusive ==
    /\ \A c \in Caller : pc[c] \in Inside => mu
    /\ \A c, d \in Caller : pc[c] \in Inside /\ pc[d] \in Inside => c = d

\* No recorded time is ahead of the file's, nor a pair ahead of the latest.
Ordered ==
    /\ \A f \in Part :
          /\ disk[f].mod <= clock
          /\ mods[f] <= disk[f].mod
          /\ disk[f].pair <= issued
    /\ \A c \in Caller, f \in Part : stat[c][f] <= disk[f].mod

\* A call that has not read a file yet holds nothing of it.
Blank ==
    \A c \in Caller, f \in Part :
        pc[c] \notin HasRead(f) \cup {"unlock"} => got[c][f] = Gone

\* What was read of a file is what it holds, if its time is a known one.
ReadsHold ==
    \A c \in Caller, f \in Part :
        /\ pc[c] \in HasRead(f)
        /\ got[c][f] # Gone
        /\ mods[f] = disk[f].mod \/ stat[c][f] = disk[f].mod
        => got[c][f] = disk[f].pair

\* A file never holds a pair older than the cached one, or than the one that
\* was read of it, and the one that was read is not older than the cached one.
Forward ==
    /\ cert <= issued
    /\ \A f \in Part : disk[f].pair = Garbage \/ cert <= disk[f].pair
    /\ \A c \in Caller, f \in Part :
          pc[c] \in HasRead(f) /\ got[c][f] \in Issued =>
              /\ cert <= got[c][f] /\ got[c][f] <= issued
              /\ disk[f].pair = Garbage \/ got[c][f] <= disk[f].pair

\* A call that no change of the files disturbed knows the files as they are.
KnowsOf(c) ==
    undisturbed[c] =>
        /\ \A f \in Part :
              /\ pc[c] \in Seen(f) /\ disk[f].there => stat[c][f] = disk[f].mod
              /\ pc[c] \in HasRead(f) /\ (\A g \in Part : disk[g].there) =>
                    got[c][f] = disk[f].pair
        /\ /\ pc[c] \in {"unlock", "log"}
           /\ \A f \in Part : disk[f].there /\ disk[f].pair \in Issued
           /\ disk["crt"].pair = disk["key"].pair
           => result[c] = disk["crt"].pair

Knows == \A c \in Caller : KnowsOf(c)

\* From the end of a first call that succeeded there is a certificate to fall
\* back on, and no handshake begins before.
Served ==
    /\ pc[Main] \in {"unlock", "log"} /\ result[Main] # 0 => cert # 0
    /\ status # "starting" => pc[Main] = "idle"
    /\ status = "serving" => cert # 0
    /\ \A h \in Handshake : pc[h] # "idle" => status = "serving"
    /\ KeepsServing

IInv ==
    /\ TypeOK
    /\ Exclusive
    /\ Ordered
    /\ CacheCoherent
    /\ Blank
    /\ ReadsHold
    /\ Forward
    /\ Knows
    /\ Served

-----------------------------------------------------------------------------
(* Types.                                                                  *)

LEMMA TypeInit == Init => TypeOK
<1> SUFFICES ASSUME Init PROVE TypeOK
  OBVIOUS
<1> USE BoundAssumption DEF Init
<1>1. disk \in [Part -> [pair : Content, mod : Stamp, there : BOOLEAN]]
  <2>1. {Garbage, 1} \subseteq Content /\ {1} \subseteq Stamp
    BY DEF Content, Issued, Stamp
  <2> QED
    BY <2>1
<1>2. /\ clock \in Stamp /\ issued \in Issued /\ expired \in 0..MaxExpired
      /\ mods \in [Part -> {NoStamp} \cup Stamp]
  BY DEF Stamp, Issued
<1> QED
  BY <1>1, <1>2 DEF TypeOK

LEMMA TypeStep == TypeOK /\ [Next]_vars => TypeOK'
<1> SUFFICES ASSUME TypeOK, [Next]_vars
             PROVE  TypeOK'
  OBVIOUS
<1> USE BoundAssumption DEF TypeOK, Goto, Return
<1>0. CASE UNCHANGED vars
  BY <1>0 DEF vars, files, reloader, locals, history
<1>1. CASE Issue
  BY <1>1 DEF Issue, Issued, reloader, locals, history
<1>2. ASSUME NEW fs \in SUBSET Part, NEW p \in Content, Write(fs, p)
      PROVE  TypeOK'
  <2>1. clock' \in Stamp
    BY <1>2 DEF Write, Stamp
  <2>2. disk' \in [Part -> [pair : Content, mod : Stamp, there : BOOLEAN]]
    BY <1>2, <2>1 DEF Write
  <2> QED
    BY <1>2, <2>1, <2>2 DEF Write, Disturb, reloader, locals
<1>3. ASSUME NEW f \in Part, Move(f)
      PROVE  TypeOK'
  BY <1>3 DEF Move, Disturb, reloader, locals
<1>4. CASE Expire
  BY <1>4 DEF Expire, reloader, locals, history
<1>5. ASSUME NEW c \in Caller, Begin(c)
      PROVE  TypeOK'
  BY <1>5 DEF Begin, files, reloader, history
<1>6. ASSUME NEW c \in Caller, Lock(c)
      PROVE  TypeOK'
  BY <1>6 DEF Lock, files
<1>7. ASSUME NEW c \in Caller, StatCrt(c) \/ StatKey(c)
      PROVE  TypeOK'
  <2>1. ASSUME NEW f \in Part, Stat(c, f)
        PROVE  stat' \in [Caller -> [Part -> {NoStamp} \cup Stamp]]
    <3>1. (IF disk[f].there THEN disk[f].mod ELSE NoStamp) \in {NoStamp} \cup Stamp
      OBVIOUS
    <3> QED
      BY <2>1, <3>1 DEF Stat
  <2>2. stat' \in [Caller -> [Part -> {NoStamp} \cup Stamp]]
    BY <1>7, <2>1 DEF StatCrt, StatKey, Part
  <2> QED
    BY <1>7, <2>2 DEF StatCrt, StatKey, Stat, files, reloader, history
<1>8. ASSUME NEW c \in Caller, CacheHit(c) \/ CacheMiss(c)
      PROVE  TypeOK'
  <2>1. CASE CacheHit(c)
    <3>1. cert \in {0} \cup Issued /\ FALSE \in BOOLEAN
      OBVIOUS
    <3>2. /\ result' \in [Caller -> {0} \cup Issued]
          /\ message' \in [Caller -> BOOLEAN]
      BY <2>1, <3>1 DEF CacheHit
    <3> QED
      BY <2>1, <3>2 DEF CacheHit, files, reloader
  <2>2. CASE CacheMiss(c)
    BY <2>2 DEF CacheMiss, files, reloader, history
  <2> QED
    BY <1>8, <2>1, <2>2
<1>9. ASSUME NEW c \in Caller, ReadCrt(c) \/ ReadKey(c)
      PROVE  TypeOK'
  <2>1. ASSUME NEW f \in Part, Read(c, f)
        PROVE  got' \in [Caller -> [Part -> {Gone} \cup Content]]
    <3>1. (IF disk[f].there THEN disk[f].pair ELSE Gone) \in {Gone} \cup Content
      OBVIOUS
    <3> QED
      BY <2>1, <3>1 DEF Read
  <2>2. got' \in [Caller -> [Part -> {Gone} \cup Content]]
    BY <1>9, <2>1 DEF ReadCrt, ReadKey, Part
  <2> QED
    BY <1>9, <2>2 DEF ReadCrt, ReadKey, Read, files, reloader, history
<1>10. ASSUME NEW c \in Caller, Load(c)
       PROVE  TypeOK'
  BY <1>10 DEF Load, Loaded, files
<1>11. ASSUME NEW c \in Caller, FailAtStartup(c)
       PROVE  TypeOK'
  BY <1>11 DEF FailAtStartup, files, reloader
<1>12. ASSUME NEW c \in Caller, FallBack(c) \/ RefuseExpired(c)
       PROVE  TypeOK'
  <2>1. CauseOf(got[c]) \in Cause
    BY DEF CauseOf, Cause
  <2>2. PICK pair \in {0} \cup Issued, failure \in Failure : Fail(c, pair, failure)
    <3>1. CASE FallBack(c)
      BY <2>1, <3>1 DEF FallBack, Failure
    <3>2. CASE RefuseExpired(c)
      BY <2>1, <3>2 DEF RefuseExpired, Failure
    <3> QED
      BY <1>12, <3>1, <3>2
  <2>3. lastFailure' \in {NoFailure} \cup Failure /\ (failure # lastFailure) \in BOOLEAN
    BY <2>2 DEF Fail
  <2> QED
    BY <2>2, <2>3 DEF Fail, files
<1>13. ASSUME NEW c \in Caller, Unlock(c)
       PROVE  TypeOK'
  BY <1>13 DEF Unlock, files, history
<1>14. ASSUME NEW c \in Caller, Finish(c)
       PROVE  TypeOK'
  BY <1>14 DEF Finish, files, reloader
<1>15. CASE Rotation
  <2>1. issued \in Content /\ Garbage \in Content /\ Part \in SUBSET Part
        /\ \A f \in Part : {f} \in SUBSET Part
    BY DEF Content
  <2> QED
    BY <1>1, <1>2, <1>3, <1>4, <1>15, <2>1 DEF Rotation
<1>16. Handshake \subseteq Caller
  BY DEF Caller
<1> QED
  BY <1>0, <1>5, <1>6, <1>7, <1>8, <1>9, <1>10, <1>11, <1>12, <1>13, <1>14,
     <1>15, <1>16 DEF Next, Reload

-----------------------------------------------------------------------------
(* What a step may change.                                                 *)

Call(c) == (c \in Handshake /\ Begin(c)) \/ Lock(c) \/ Reload(c) \/ Finish(c)

\* A call leaves the locals of the other calls alone.
LEMMA CallFrame ==
    ASSUME TypeOK, NEW c \in Caller, Call(c), NEW d \in Caller \ {c}
    PROVE  /\ pc'[d] = pc[d] /\ stat'[d] = stat[d] /\ got'[d] = got[d]
           /\ result'[d] = result[d] /\ undisturbed'[d] = undisturbed[d]
<1> USE DEF TypeOK, Goto, Return, files, reloader, history
<1>1. CASE Begin(c) \/ Lock(c) \/ Finish(c)
  BY <1>1 DEF Begin, Lock, Finish
<1>2. CASE StatCrt(c) \/ StatKey(c) \/ ReadCrt(c) \/ ReadKey(c)
  BY <1>2 DEF StatCrt, StatKey, Stat, ReadCrt, ReadKey, Read
<1>3. CASE CacheHit(c) \/ CacheMiss(c) \/ Load(c) \/ FailAtStartup(c) \/ Unlock(c)
  BY <1>3 DEF CacheHit, CacheMiss, Load, FailAtStartup, Unlock
<1>4. CASE FallBack(c) \/ RefuseExpired(c)
  BY <1>4 DEF FallBack, RefuseExpired, Fail
<1> QED
  BY <1>1, <1>2, <1>3, <1>4 DEF Call, Reload

\* A file is left as it is, or gets a later time with the latest pair or garbage.
LEMMA RotationFrame ==
    ASSUME TypeOK, Rotation
    PROVE  /\ UNCHANGED <<status, mu, cert, mods, pc, stat, got, result>>
           /\ clock <= clock' /\ issued <= issued' /\ expired <= expired'
           /\ \A f \in Part :
                 \/ disk'[f].mod = disk[f].mod /\ disk'[f].pair = disk[f].pair
                 \/ /\ disk'[f].mod = clock + 1 /\ clock' = clock + 1
                    /\ disk'[f].pair \in {Garbage, issued}
           /\ \/ UNCHANGED <<disk, undisturbed>>
              \/ undisturbed' = [c \in Caller |-> FALSE]
<1> USE DEF TypeOK, Disturb, reloader, locals, history, Issued, Stamp
<1>1. CASE Issue \/ Expire
  BY <1>1 DEF Issue, Expire
<1>2. ASSUME NEW fs \in SUBSET Part, NEW p \in {Garbage, issued}, Write(fs, p)
      PROVE  /\ UNCHANGED <<mu, cert, mods, pc, stat, got, result>>
             /\ clock' = clock + 1 /\ UNCHANGED <<status, issued, expired>>
             /\ undisturbed' = [c \in Caller |-> FALSE]
             /\ \A f \in Part :
                   \/ disk'[f] = disk[f]
                   \/ disk'[f].mod = clock + 1 /\ disk'[f].pair = p
  BY <1>2 DEF Write
<1>3. ASSUME NEW f \in Part, Move(f)
      PROVE  /\ UNCHANGED <<status, mu, cert, mods, pc, stat, got, result, clock>>
             /\ UNCHANGED <<issued, expired>>
             /\ undisturbed' = [c \in Caller |-> FALSE]
             /\ \A g \in Part : disk'[g].mod = disk[g].mod /\ disk'[g].pair = disk[g].pair
  BY <1>3 DEF Move
<1>4. ASSUME NEW fs \in SUBSET Part, NEW p \in {Garbage, issued}, Write(fs, p)
      PROVE  \A f \in Part :
                 \/ disk'[f].mod = disk[f].mod /\ disk'[f].pair = disk[f].pair
                 \/ /\ disk'[f].mod = clock + 1 /\ clock' = clock + 1
                    /\ disk'[f].pair \in {Garbage, issued}
  BY <1>2, <1>4
<1>5. CASE \E f \in Part : Write({f}, issued) \/ Write({f}, Garbage)
  <2>1. PICK f \in Part, p \in {Garbage, issued} : Write({f}, p)
    BY <1>5
  <2> QED
    BY <2>1, <1>2, <1>4
<1>6. CASE Write(Part, issued)
  BY <1>6, <1>2, <1>4
<1>7. CASE \E f \in Part : Move(f)
  BY <1>7, <1>3
<1> QED
  BY <1>1, <1>5, <1>6, <1>7 DEF Rotation

\* Every step is one of the files, one of a call, or none.
LEMMA Steps ==
    ASSUME [Next]_vars
    PROVE  Rotation \/ (\E c \in Caller : Call(c)) \/ UNCHANGED vars
BY DEF Next, Call, Caller

\* A step of a reload is taken inside.
LEMMA ReloadInside ==
    ASSUME NEW c \in Caller, Reload(c)
    PROVE  pc[c] \in Inside
BY DEF Reload, StatCrt, StatKey, CacheHit, CacheMiss, ReadCrt, ReadKey, Load,
       FailAtStartup, FallBack, RefuseExpired, Fail, Unlock, Goto, Inside

-----------------------------------------------------------------------------
(* The parts of the invariant.                                             *)

LEMMA ExclusiveStep == TypeOK /\ Exclusive /\ [Next]_vars => Exclusive'
<1> SUFFICES ASSUME TypeOK, Exclusive, [Next]_vars
             PROVE  Exclusive'
  OBVIOUS
<1>1. CASE UNCHANGED vars
  BY <1>1 DEF Exclusive, vars, reloader, locals
<1>2. CASE Rotation
  BY <1>2, RotationFrame DEF Exclusive
<1>3. ASSUME NEW c \in Caller, Call(c)
      PROVE  Exclusive'
  <2>1. \A d \in Caller \ {c} : pc'[d] = pc[d]
    BY <1>3, CallFrame
  <2>2. CASE Lock(c)
    <3>1. mu' /\ \A d \in Caller : pc[d] \notin Inside
      BY <2>2 DEF Lock, Exclusive
    <3> QED
      BY <2>1, <3>1 DEF Exclusive
  <2>3. CASE Begin(c) \/ Finish(c)
    <3>1. UNCHANGED mu /\ pc'[c] \notin Inside
      BY <2>3 DEF Begin, Finish, Goto, Inside, TypeOK, reloader
    <3> QED
      BY <2>1, <3>1 DEF Exclusive
  <2>4. CASE Reload(c)
    <3>1. mu /\ \A d \in Caller \ {c} : pc[d] \notin Inside
      BY <2>4, ReloadInside DEF Exclusive
    <3>2. UNCHANGED mu \/ pc'[c] \notin Inside
      BY <2>4 DEF Reload, StatCrt, StatKey, Stat, CacheHit, CacheMiss, ReadCrt,
                  ReadKey, Read, Load, FailAtStartup, FallBack, RefuseExpired,
                  Fail, Unlock, Goto, Inside, TypeOK, reloader
    <3> QED
      BY <2>1, <3>1, <3>2 DEF Exclusive
  <2> QED
    BY <1>3, <2>2, <2>3, <2>4 DEF Call
<1> QED
  BY <1>1, <1>2, <1>3, Steps

\* What the steps of a call do to what it knows and to the cache: it notes a
\* file's time, it reads a file, it renews the cache, or it does none of these.
LEMMA CallEffect ==
    ASSUME TypeOK, NEW c \in Caller, Call(c)
    PROVE  \/ StatCrt(c) \/ StatKey(c) \/ ReadCrt(c) \/ ReadKey(c) \/ Load(c)
           \/ Unlock(c)
           \/ /\ UNCHANGED <<cert, mods, stat, got>>
              /\ \A f \in Part : pc'[c] \notin HasRead(f) /\ pc[c] \notin HasRead(f)
           \/ /\ UNCHANGED <<cert, mods, stat, got>>
              /\ pc'[c] = "unlock"
<1> USE DEF TypeOK, Goto, Return, reloader, HasRead
<1>1. CASE Begin(c) \/ Lock(c) \/ Finish(c)
  BY <1>1 DEF Begin, Lock, Finish
<1>2. CASE CacheHit(c) \/ CacheMiss(c)
  BY <1>2 DEF CacheHit, CacheMiss
<1>3. CASE FailAtStartup(c) \/ FallBack(c) \/ RefuseExpired(c)
  BY <1>3 DEF FailAtStartup, FallBack, RefuseExpired, Fail
<1> QED
  BY <1>1, <1>2, <1>3 DEF Call, Reload

\* No call changes a file.
LEMMA DiskFrame ==
    ASSUME NEW c \in Caller, Call(c)
    PROVE  UNCHANGED <<disk, clock, issued>>
BY DEF Call, Reload, Begin, Lock, Finish, StatCrt, StatKey, Stat, CacheHit,
       CacheMiss, ReadCrt, ReadKey, Read, Load, FailAtStartup, FallBack,
       RefuseExpired, Fail, Unlock, files

LEMMA OrderedStep == TypeOK /\ Ordered /\ [Next]_vars => Ordered'
<1> SUFFICES ASSUME TypeOK, Ordered, [Next]_vars
             PROVE  Ordered'
  OBVIOUS
<1> USE DEF TypeOK, Content, Issued, Stamp, NoStamp, Garbage
<1>1. CASE UNCHANGED vars
  BY <1>1 DEF Ordered, vars, files, reloader, locals
<1>2. CASE Rotation
  <2>1. clock' \in Int /\ issued' \in Int /\ clock \in Int /\ issued \in Int
    BY TypeStep
  <2>2. \A f \in Part : disk[f].mod \in Int /\ disk[f].pair \in Int /\ mods[f] \in Int
    OBVIOUS
  <2>3. \A c \in Caller, f \in Part : stat[c][f] \in Int
    OBVIOUS
  <2> HIDE DEF TypeOK, Content, Issued, Stamp, NoStamp
  <2>4. ASSUME NEW f \in Part
        PROVE  /\ disk'[f].mod \in Int /\ disk[f].mod <= disk'[f].mod
               /\ disk'[f].mod <= clock' /\ disk'[f].pair <= issued'
    <3>1. clock <= clock' /\ issued <= issued' /\ 0 <= issued'
      BY <1>2, RotationFrame, TypeStep DEF TypeOK, Issued
    <3>2. disk[f].mod <= clock /\ disk[f].pair <= issued
      BY DEF Ordered
    <3>3. CASE disk'[f].mod = disk[f].mod /\ disk'[f].pair = disk[f].pair
      BY <2>1, <2>2, <3>1, <3>2, <3>3
    <3>4. CASE /\ disk'[f].mod = clock + 1 /\ clock' = clock + 1
               /\ disk'[f].pair \in {Garbage, issued}
      BY <2>1, <2>2, <3>1, <3>2, <3>4
    <3> QED
      BY <1>2, <3>3, <3>4, RotationFrame
  <2>5. UNCHANGED <<mods, stat>>
    BY <1>2, RotationFrame
  <2>6. ASSUME NEW f \in Part, NEW t \in Int, t <= disk[f].mod
        PROVE  t <= disk'[f].mod
    BY <2>2, <2>4, <2>6
  <2> QED
    BY <2>2, <2>3, <2>4, <2>5, <2>6 DEF Ordered
<1>3. ASSUME NEW c \in Caller, Call(c)
      PROVE  Ordered'
  <2>1. /\ UNCHANGED <<disk, clock, issued>>
        /\ \A d \in Caller \ {c} : stat'[d] = stat[d]
    BY <1>3, DiskFrame, CallFrame
  <2>2. \A f \in Part : mods'[f] <= disk[f].mod
    <3>1. CASE Load(c)
      BY <3>1 DEF Load, Ordered
    <3>2. CASE ~Load(c)
      <4>1. UNCHANGED mods
        BY <1>3, <3>2, CallEffect DEF StatCrt, StatKey, Stat, ReadCrt, ReadKey,
                                      Read, Unlock, reloader
      <4> QED
        BY <4>1 DEF Ordered
    <3> QED
      BY <3>1, <3>2
  <2>3. \A f \in Part : stat'[c][f] <= disk[f].mod
    <3>1. ASSUME NEW f \in Part, Stat(c, f)
          PROVE  \A g \in Part : stat'[c][g] <= disk[g].mod
      BY <3>1 DEF Stat, Ordered
    <3>2. CASE StatCrt(c) \/ StatKey(c)
      BY <3>1, <3>2 DEF StatCrt, StatKey, Part
    <3>3. CASE Unlock(c)
      BY <3>3 DEF Unlock
    <3>4. CASE UNCHANGED stat
      BY <3>4 DEF Ordered
    <3> QED
      BY <1>3, <3>2, <3>3, <3>4, CallEffect DEF ReadCrt, ReadKey, Read, Load
  <2> QED
    BY <2>1, <2>2, <2>3 DEF Ordered
<1> QED
  BY <1>1, <1>2, <1>3, Steps

\* The other calls have read nothing while one is inside.
LEMMA OthersOutside ==
    ASSUME TypeOK, Exclusive, NEW c \in Caller, Reload(c), NEW d \in Caller \ {c},
           NEW f \in Part
    PROVE  pc[d] \notin HasRead(f) \cup {"unlock"}
BY ReloadInside DEF Exclusive, Inside, HasRead

LEMMA BlankStep == TypeOK /\ Blank /\ [Next]_vars => Blank'
<1> SUFFICES ASSUME TypeOK, Blank, [Next]_vars
             PROVE  Blank'
  OBVIOUS
<1>1. CASE UNCHANGED vars
  BY <1>1 DEF Blank, vars, locals
<1>2. CASE Rotation
  BY <1>2, RotationFrame DEF Blank
<1>3. ASSUME NEW c \in Caller, Call(c)
      PROVE  Blank'
  <2> USE DEF TypeOK, HasRead, Goto
  <2>1. \A f \in Part : pc'[c] \notin HasRead(f) \cup {"unlock"} => got'[c][f] = Gone
    <3>1. CASE StatCrt(c) \/ StatKey(c)
      BY <3>1 DEF StatCrt, StatKey, Stat, Blank
    <3>2. CASE ReadCrt(c)
      BY <3>2 DEF ReadCrt, Read, Blank
    <3>3. CASE ReadKey(c)
      BY <3>3 DEF ReadKey, Read
    <3>4. CASE Load(c)
      BY <3>4 DEF Load
    <3>5. CASE Unlock(c)
      BY <3>5 DEF Unlock
    <3>6. CASE Begin(c) \/ Lock(c) \/ Finish(c)
      BY <3>6 DEF Begin, Lock, Finish, Blank
    <3>7. CASE CacheHit(c) \/ CacheMiss(c)
      BY <3>7 DEF CacheHit, CacheMiss, Blank
    <3>8. CASE FailAtStartup(c) \/ FallBack(c) \/ RefuseExpired(c)
      BY <3>8 DEF FailAtStartup, FallBack, RefuseExpired, Fail
    <3> QED
      BY <1>3, <3>1, <3>2, <3>3, <3>4, <3>5, <3>6, <3>7, <3>8 DEF Call, Reload
  <2> HIDE DEF TypeOK, HasRead, Goto
  <2>2. ASSUME NEW d \in Caller \ {c}
        PROVE  pc'[d] = pc[d] /\ got'[d] = got[d]
    BY <1>3, CallFrame
  <2> QED
    BY <2>1, <2>2 DEF Blank
<1> QED
  BY <1>1, <1>2, <1>3, Steps

\* CacheCoherent and ReadsHold carry each other: what is read holds by the
\* recorded times, and what is loaded was read.
LEMMA CoherentStep ==
    ASSUME TypeOK, Exclusive, Ordered, Blank, CacheCoherent, ReadsHold, [Next]_vars
    PROVE  CacheCoherent' /\ ReadsHold'
<1>1. CASE UNCHANGED vars
  BY <1>1 DEF CacheCoherent, ReadsHold, vars, files, reloader, locals
<1>2. CASE Rotation
  <2>1. UNCHANGED <<cert, mods, pc, stat, got>>
    BY <1>2, RotationFrame
  <2>2. ASSUME NEW f \in Part, NEW t \in Int, t <= disk[f].mod, t = disk'[f].mod
        PROVE  t = disk[f].mod /\ disk'[f].pair = disk[f].pair
    BY <1>2, <2>2, RotationFrame DEF Ordered, TypeOK, Stamp
  <2>3. ASSUME NEW f \in Part
        PROVE  mods[f] \in Int /\ mods[f] <= disk[f].mod
    BY DEF Ordered, TypeOK, Stamp, NoStamp
  <2>4. ASSUME NEW c \in Caller, NEW f \in Part
        PROVE  stat[c][f] \in Int /\ stat[c][f] <= disk[f].mod
    BY DEF Ordered, TypeOK, Stamp, NoStamp
  <2>5. CacheCoherent'
    BY <2>1, <2>2, <2>3 DEF CacheCoherent
  <2>6. ReadsHold'
    BY <2>1, <2>2, <2>3, <2>4 DEF ReadsHold
  <2> QED
    BY <2>5, <2>6
<1>3. ASSUME NEW c \in Caller, Call(c)
      PROVE  CacheCoherent' /\ ReadsHold'
  <2>1. UNCHANGED disk
    BY <1>3, DiskFrame
  <2>2. ASSUME NEW d \in Caller \ {c}
        PROVE  pc'[d] = pc[d] /\ stat'[d] = stat[d] /\ got'[d] = got[d]
    BY <1>3, CallFrame
  <2>3. CASE UNCHANGED <<cert, mods>>
            /\ \A f \in Part : pc'[c] \notin HasRead(f)
    BY <2>1, <2>2, <2>3 DEF CacheCoherent, ReadsHold
  <2>4. CASE ReadCrt(c) \/ ReadKey(c)
    <3>1. UNCHANGED <<cert, mods, stat>>
      BY <2>4 DEF ReadCrt, ReadKey, Read, reloader
    <3>2. ASSUME NEW f \in Part, pc'[c] \in HasRead(f), got'[c][f] # Gone,
                 mods[f] = disk[f].mod \/ stat[c][f] = disk[f].mod
          PROVE  got'[c][f] = disk[f].pair
      <4>1. CASE ReadCrt(c)
        BY <3>2, <4>1 DEF ReadCrt, Read, Goto, HasRead, Part, Blank, TypeOK
      <4>2. CASE ReadKey(c)
        BY <3>2, <4>2 DEF ReadKey, Read, Goto, HasRead, Part, ReadsHold, TypeOK
      <4> QED
        BY <2>4, <4>1, <4>2
    <3> QED
      BY <2>1, <2>2, <3>1, <3>2 DEF CacheCoherent, ReadsHold
  <2>5. CASE Load(c)
    <3>1. /\ pc[c] = "apply" /\ pc'[c] = "unlock" /\ cert' = got[c]["crt"]
          /\ got[c]["crt"] = got[c]["key"] /\ got[c]["crt"] # Gone
          /\ mods' = mods \/ mods' = stat[c]
      BY <2>5 DEF Load, Loaded, Goto, TypeOK, Issued, Gone
    <3>2. \A f \in Part : pc[c] \in HasRead(f) /\ cert' = got[c][f] /\ got[c][f] # Gone
      BY <3>1 DEF HasRead, Part
    <3>3. CacheCoherent'
      BY <2>1, <3>1, <3>2 DEF CacheCoherent, ReadsHold
    <3>4. \A d \in Caller, f \in Part : pc'[d] \notin HasRead(f)
      BY <2>2, <2>5, <3>1, OthersOutside DEF Reload, HasRead
    <3> QED
      BY <3>3, <3>4 DEF ReadsHold
  <2>6. CASE StatCrt(c) \/ StatKey(c) \/ Unlock(c)
    BY <2>3, <2>6 DEF StatCrt, StatKey, Stat, Unlock, Goto, HasRead, TypeOK, reloader
  <2>7. CASE UNCHANGED <<cert, mods>> /\ pc'[c] = "unlock"
    BY <2>3, <2>7 DEF HasRead
  <2> QED
    BY <1>3, <2>3, <2>4, <2>5, <2>6, <2>7, CallEffect
<1> QED
  BY <1>1, <1>2, <1>3, Steps

LEMMA ForwardStep ==
    ASSUME TypeOK, TypeOK', Exclusive, Ordered, Blank, Forward, [Next]_vars
    PROVE  Forward' /\ cert <= cert'
<1>1. CASE UNCHANGED vars
  BY <1>1 DEF Forward, TypeOK, Issued, vars, files, reloader, locals
<1>2. CASE Rotation
  <2>1. UNCHANGED <<cert, pc, got>> /\ issued <= issued'
    BY <1>2, RotationFrame
  <2>2. issued \in Int /\ issued' \in Int /\ cert \in Int
    BY DEF TypeOK, Issued
  <2>3. ASSUME NEW p \in Int, p <= issued
        PROVE  p <= issued'
    BY <2>1, <2>2, <2>3
  <2>4. ASSUME NEW f \in Part, NEW p \in Int, p <= issued,
               disk[f].pair = Garbage \/ p <= disk[f].pair
        PROVE  disk'[f].pair = Garbage \/ p <= disk'[f].pair
    BY <1>2, <2>4, RotationFrame
  <2>5. cert' <= issued' /\ cert <= cert'
    BY <2>1, <2>2, <2>3 DEF Forward
  <2>6. ASSUME NEW f \in Part
        PROVE  disk'[f].pair = Garbage \/ cert' <= disk'[f].pair
    BY <2>1, <2>2, <2>4 DEF Forward
  <2>7. ASSUME NEW c \in Caller, NEW f \in Part, pc'[c] \in HasRead(f),
               got'[c][f] \in Issued
        PROVE  /\ cert' <= got'[c][f] /\ got'[c][f] <= issued'
               /\ disk'[f].pair = Garbage \/ got'[c][f] <= disk'[f].pair
    <3>1. /\ cert <= got[c][f] /\ got[c][f] <= issued
          /\ disk[f].pair = Garbage \/ got[c][f] <= disk[f].pair
      BY <2>1, <2>7 DEF Forward
    <3>2. got[c][f] \in Int
      BY <2>1, <2>7 DEF Issued
    <3> QED
      BY <2>1, <2>3, <2>4, <3>1, <3>2
  <2> QED
    BY <2>5, <2>6, <2>7 DEF Forward
<1>3. ASSUME NEW c \in Caller, Call(c)
      PROVE  Forward' /\ cert <= cert'
  <2>1. UNCHANGED <<disk, issued>>
    BY <1>3, DiskFrame
  <2>2. ASSUME NEW d \in Caller \ {c}
        PROVE  pc'[d] = pc[d] /\ got'[d] = got[d]
    BY <1>3, CallFrame
  <2>3. CASE UNCHANGED cert /\ \A f \in Part : pc'[c] \notin HasRead(f)
    <3>1. cert <= cert'
      BY <2>3 DEF TypeOK, Issued
    <3> QED
      BY <2>1, <2>2, <2>3, <3>1 DEF Forward
  <2>4. CASE ReadCrt(c) \/ ReadKey(c)
    <3>1. UNCHANGED cert /\ cert <= cert'
      BY <2>4 DEF ReadCrt, ReadKey, Read, reloader, TypeOK, Issued
    <3>2. ASSUME NEW f \in Part, pc'[c] \in HasRead(f), got'[c][f] \in Issued
          PROVE  /\ cert <= got'[c][f] /\ got'[c][f] <= issued
                 /\ disk[f].pair = Garbage \/ got'[c][f] <= disk[f].pair
      <4>1. CASE got'[c][f] = disk[f].pair
        BY <3>2, <4>1 DEF Forward, Ordered, Issued, Garbage
      <4>2. CASE got'[c][f] = got[c][f] /\ pc[c] \in HasRead(f)
        BY <3>2, <4>2 DEF Forward
      <4>3. CASE ReadCrt(c)
        <5>1. got'[c]["key"] = got[c]["key"] /\ got[c]["key"] = Gone
          BY <4>3 DEF ReadCrt, Read, Goto, HasRead, Part, TypeOK, Blank
        <5>2. Gone \notin Issued
          BY DEF Gone, Issued
        <5>3. f = "crt"
          BY <3>2, <5>1, <5>2 DEF Part
        <5>4. got'[c][f] = IF disk[f].there THEN disk[f].pair ELSE Gone
          BY <4>3, <5>3 DEF ReadCrt, Read, TypeOK
        <5> QED
          BY <3>2, <4>1, <5>2, <5>4
      <4>4. CASE ReadKey(c)
        BY <3>2, <4>1, <4>2, <4>4
           DEF ReadKey, Read, Goto, HasRead, Part, TypeOK, Gone, Issued
      <4> QED
        BY <2>4, <4>3, <4>4
    <3> QED
      BY <2>1, <2>2, <3>1, <3>2 DEF Forward
  <2>5. CASE Load(c)
    <3>1. /\ pc[c] = "apply" /\ pc'[c] = "unlock" /\ cert' = got[c]["crt"]
          /\ got[c]["crt"] = got[c]["key"] /\ got[c]["crt"] \in Issued
      BY <2>5 DEF Load, Loaded, Goto, TypeOK
    <3>2. \A f \in Part : pc[c] \in HasRead(f) /\ cert' = got[c][f]
      BY <3>1 DEF HasRead, Part
    <3>3. /\ cert <= cert' /\ cert' <= issued
          /\ \A f \in Part : disk[f].pair = Garbage \/ cert' <= disk[f].pair
      BY <3>1, <3>2 DEF Forward, Part
    <3>4. \A d \in Caller, f \in Part : pc'[d] \notin HasRead(f)
      BY <2>2, <2>5, <3>1, OthersOutside DEF Reload, HasRead
    <3> QED
      BY <2>1, <3>3, <3>4 DEF Forward
  <2>6. CASE StatCrt(c) \/ StatKey(c) \/ Unlock(c)
    BY <2>3, <2>6 DEF StatCrt, StatKey, Stat, Unlock, Goto, HasRead, TypeOK, reloader
  <2>7. CASE UNCHANGED cert /\ pc'[c] = "unlock"
    BY <2>3, <2>7 DEF HasRead
  <2> QED
    BY <1>3, <2>3, <2>4, <2>5, <2>6, <2>7, CallEffect
<1> QED
  BY <1>1, <1>2, <1>3, Steps

LEMMA KnowsStep ==
    ASSUME TypeOK, CacheCoherent, Knows, [Next]_vars
    PROVE  Knows'
<1>1. CASE UNCHANGED vars
  BY <1>1 DEF Knows, KnowsOf, vars, files, locals, history
<1>2. CASE Rotation
  <2>1. CASE UNCHANGED <<disk, undisturbed>>
    BY <1>2, <2>1, RotationFrame DEF Knows, KnowsOf
  <2>2. CASE undisturbed' = [c \in Caller |-> FALSE]
    BY <2>2 DEF Knows, KnowsOf
  <2> QED
    BY <1>2, <2>1, <2>2, RotationFrame
<1>3. ASSUME NEW c \in Caller, Call(c)
      PROVE  Knows'
  <2>1. UNCHANGED disk
    BY <1>3, DiskFrame
  <2>2. ASSUME NEW d \in Caller \ {c}
        PROVE  KnowsOf(d)'
    BY <1>3, <2>1, CallFrame DEF Knows, KnowsOf
  <2>3. KnowsOf(c)'
    <3> USE <2>1 DEF Knows, KnowsOf, Seen, HasRead, Part, TypeOK, Goto
    <3>1. CASE Begin(c) \/ Lock(c) \/ Finish(c)
      BY <3>1 DEF Begin, Lock, Finish
    <3>2. CASE StatCrt(c) \/ StatKey(c)
      BY <3>2 DEF StatCrt, StatKey, Stat, history
    <3>3. CASE CacheMiss(c)
      BY <3>3 DEF CacheMiss, history
    <3>4. CASE ReadCrt(c)
      BY <3>4 DEF ReadCrt, Read, history
    <3>5. CASE ReadKey(c)
      BY <3>5 DEF ReadKey, Read, history
    <3>6. CASE CacheHit(c)
      BY <3>6 DEF CacheHit, CacheHolds, Return, CacheCoherent
    <3>7. CASE Load(c)
      BY <3>7 DEF Load, Loaded, Return
    <3>8. CASE FailAtStartup(c)
      BY <3>8 DEF FailAtStartup, Loaded, Return
    <3>9. CASE FallBack(c) \/ RefuseExpired(c)
      BY <3>9 DEF FallBack, RefuseExpired, Fail, Loaded, Return
    <3>10. CASE Unlock(c)
      BY <3>10 DEF Unlock, history
    <3> HIDE DEF Knows, KnowsOf, Seen, HasRead, Part, TypeOK, Goto
    <3> QED
      BY <1>3, <3>1, <3>2, <3>3, <3>4, <3>5, <3>6, <3>7, <3>8, <3>9, <3>10
         DEF Call, Reload
  <2> QED
    BY <2>2, <2>3 DEF Knows, KnowsOf
<1> QED
  BY <1>1, <1>2, <1>3, Steps

\* The cached certificate is never given up, and a call that fails while there
\* is one refuses it for its age alone.
LEMMA ServedStep ==
    ASSUME TypeOK, TypeOK', Exclusive, Served, [Next]_vars
    PROVE  Served'
<1>1. CASE UNCHANGED vars
  BY <1>1 DEF Served, KeepsServing, vars, files, reloader, locals
<1>2. CASE Rotation
  <2>1. UNCHANGED <<status, cert, pc, result>> /\ expired <= expired'
    BY <1>2, RotationFrame
  <2>2. cert \in 1..expired => cert' \in 1..expired'
    BY <2>1 DEF TypeOK
  <2> QED
    BY <2>1, <2>2 DEF Served, KeepsServing
<1>3. ASSUME NEW c \in Caller, Call(c)
      PROVE  Served'
  <2> USE DEF TypeOK, Goto, Return
  <2>1. ASSUME NEW d \in Caller \ {c}
        PROVE  pc'[d] = pc[d] /\ result'[d] = result[d]
    BY <1>3, CallFrame
  <2>2. Main \in Caller /\ Main \notin Handshake /\ Handshake \subseteq Caller
    BY CallerAssumption DEF Caller
  <2>3. UNCHANGED expired
    BY <1>3 DEF Call, Reload, Begin, Lock, Finish, StatCrt, StatKey, Stat,
                CacheHit, CacheMiss, ReadCrt, ReadKey, Read, Load, FailAtStartup,
                FallBack, RefuseExpired, Fail, Unlock, files
  <2>4. CASE c \in Handshake /\ Begin(c)
    BY <2>1, <2>2, <2>3, <2>4 DEF Begin, reloader, Served, KeepsServing
  <2>5. CASE Finish(c)
    <3>1. pc[c] = "log" /\ pc'[c] = "idle" /\ UNCHANGED cert
      BY <2>5 DEF Finish, reloader
    <3>2. CASE c = Main
      <4>1. /\ status' \in {"exited", "serving"}
            /\ status' = "serving" => result[c] # 0
        BY <2>5, <3>2 DEF Finish
      <4>2. \A h \in Handshake : pc[h] = "idle"
        BY <3>1, <3>2 DEF Served
      <4> QED
        BY <2>1, <2>2, <3>1, <3>2, <4>1, <4>2 DEF Served, KeepsServing
    <3>3. CASE c # Main
      <4>1. UNCHANGED status
        BY <2>5, <3>3 DEF Finish
      <4> QED
        BY <2>1, <2>2, <2>3, <3>1, <3>3, <4>1 DEF Served, KeepsServing
    <3> QED
      BY <3>2, <3>3
  <2>6. CASE Lock(c)
    BY <2>1, <2>2, <2>3, <2>6 DEF Lock, Served, KeepsServing
  <2>7. CASE Reload(c)
    <3>1. UNCHANGED status /\ pc[c] \notin {"idle", "log"}
      BY <2>7 DEF Reload, StatCrt, StatKey, Stat, CacheHit, CacheMiss, ReadCrt,
                  ReadKey, Read, Load, FailAtStartup, FallBack, RefuseExpired,
                  Fail, Unlock, reloader, history
    <3>2. cert' = cert \/ cert' # 0
      BY <2>7 DEF Reload, StatCrt, StatKey, Stat, CacheHit, CacheMiss, ReadCrt,
                  ReadKey, Read, Load, Loaded, FailAtStartup, FallBack,
                  RefuseExpired, Fail, Unlock, reloader, history, Issued
    <3>3. ASSUME NEW d \in Caller \ {c}
          PROVE  pc[d] # "unlock"
      BY <2>7, ReloadInside DEF Exclusive, Inside
    <3>4. CASE pc'[c] # "unlock"
      <4>1. UNCHANGED <<cert, result>>
        BY <2>7, <3>4 DEF Reload, StatCrt, StatKey, Stat, CacheHit, CacheMiss,
                    ReadCrt, ReadKey, Read, Load, FailAtStartup, FallBack,
                    RefuseExpired, Fail, Unlock, reloader, history
      <4>2. pc'[c] = "log" => pc[c] = "unlock"
        BY <2>7, <3>4 DEF Reload, StatCrt, StatKey, Stat, CacheHit, CacheMiss,
                    ReadCrt, ReadKey, Read, Load, FailAtStartup, FallBack,
                    RefuseExpired, Fail, Unlock, reloader, history
      <4> QED
        BY <2>1, <2>2, <2>3, <3>1, <3>3, <3>4, <4>1, <4>2 DEF Served, KeepsServing
    <3>5. CASE pc'[c] = "unlock"
      <4>1. \/ result'[c] # 0 /\ cert' # 0
            \/ result'[c] = 0 /\ cert' = 0 /\ cert = 0
            \/ result'[c] = 0 /\ cert' \in 1..expired'
        BY <2>7, <2>3, <3>5 DEF Reload, StatCrt, StatKey, Stat, CacheHit,
                    CacheHolds, CacheMiss, ReadCrt, ReadKey, Read, Load, Loaded,
                    FailAtStartup, FallBack, RefuseExpired, Fail, Unlock,
                    reloader, history, Issued
      <4>2. c \in Handshake => cert # 0
        BY <3>1, <2>2 DEF Served
      <4> QED
        BY <2>1, <2>2, <2>3, <3>1, <3>2, <3>3, <3>5, <4>1, <4>2
           DEF Served, KeepsServing
    <3> QED
      BY <3>4, <3>5
  <2> QED
    BY <1>3, <2>4, <2>5, <2>6, <2>7 DEF Call
<1> QED
  BY <1>1, <1>2, <1>3, Steps

-----------------------------------------------------------------------------
(* The theorems.                                                           *)

LEMMA InitIInv == Init => IInv
<1> SUFFICES ASSUME Init PROVE IInv
  OBVIOUS
<1>1. TypeOK
  BY TypeInit
<1>2. \A c \in Caller : pc[c] \in {"lock", "idle"} /\ ~undisturbed[c]
  BY DEF Init
<1>3. Exclusive /\ ReadsHold /\ Knows
  BY <1>2 DEF Exclusive, ReadsHold, Knows, KnowsOf, Inside, HasRead
<1>disk. ASSUME NEW f \in Part
         PROVE  disk[f].mod = 1 /\ disk[f].pair \in {Garbage, 1} /\ mods[f] = 0
  BY DEF Init, NoStamp
<1>4. Blank /\ CacheCoherent
  <2>1. \A c \in Caller, f \in Part : got[c][f] = Gone
    BY DEF Init
  <2> QED
    BY <1>disk, <2>1 DEF Blank, CacheCoherent
<1>5. Ordered
  <2>1. clock = 1 /\ issued = 1 /\ \A c \in Caller, f \in Part : stat[c][f] = 0
    BY DEF Init, NoStamp
  <2> QED
    BY <1>disk, <2>1 DEF Ordered, Garbage
<1>6. Forward
  <2>1. cert = 0 /\ issued = 1
    BY DEF Init
  <2>2. \A c \in Caller, f \in Part : pc[c] \notin HasRead(f)
    BY <1>2 DEF HasRead
  <2> QED
    BY <1>disk, <2>1, <2>2 DEF Forward, Garbage
<1>7. Served
  BY CallerAssumption DEF Init, Served, KeepsServing, Caller
<1> QED
  BY <1>1, <1>3, <1>4, <1>5, <1>6, <1>7 DEF IInv

LEMMA StepIInv == IInv /\ [Next]_vars => IInv'
BY TypeStep, ExclusiveStep, OrderedStep, CoherentStep, BlankStep, ForwardStep,
   KnowsStep, ServedStep DEF IInv

LEMMA Invariance == Spec => []IInv
BY InitIInv, StepIInv, PTL DEF Spec

\* Every variable of the reloader keeps its type.
THEOREM TypeCorrect == Spec => []TypeOK
BY Invariance, PTL DEF IInv

\* An unchanged modification time means an unchanged file, for any number of
\* handshakes and whatever changed while the files were read: the cache of
\* tls.go:131 never hides a rotation.
THEOREM CacheCorrect == Spec => []CacheCoherent
BY Invariance, PTL DEF IInv

\* Concurrent handshakes never put an older certificate back in the cache.
THEOREM NeverRegresses == Spec => NeverRegress
<1>1. IInv /\ [Next]_vars => [cert' >= cert]_vars
  BY StepIInv, ForwardStep DEF IInv, TypeOK, Issued
<1> QED
  BY <1>1, Invariance, PTL DEF Spec, NeverRegress

\* A handshake is refused for the age of the last good certificate only: no
\* rotation, however far it has come, takes that certificate away (tls.go:135).
THEOREM KeepsServingCorrect == Spec => []KeepsServing
<1>1. IInv => KeepsServing
  BY DEF IInv, Served
<1> QED
  BY <1>1, Invariance, PTL

\* A call during which no file changed returns the pair on disk.
THEOREM CurrentCorrect == Spec => []Current
<1>1. IInv => Current
  BY DEF IInv, Knows, KnowsOf, Current
<1> QED
  BY <1>1, Invariance, PTL
=============================================================================
