--------------------------- MODULE EvKQueueProofs ---------------------------
(***************************************************************************)
(* For every number of descriptors and changes: after a close that lingers *)
(* no event of the old socket reaches the next one, no callback of a       *)
(* closed socket starts, and an open one that asks to be told is watched   *)
(* or has its event on the way.                                            *)
(***************************************************************************)
EXTENDS EvKQueue, WellFoundedInduction, SequenceTheorems, TLAPS

(***************************************************************************)
(* The inductive invariant.  A close job that will close its descriptor at *)
(* this walk (or the next, once events are dispatched) finds no change of  *)
(* it left, and no event: that is what waiting one loop is for.            *)
(***************************************************************************)
Quiet == /\ pc # "events" => ready = {} /\ cur = Idle
         /\ pc = "jobs" => errs = <<>>
JobCloses == \A n \in Fds : desc[n].job # None => desc[n].closing
Owned == \A n \in Fds : \A c \in Codes :
            handler[n][c].cb # "stale" /\ (~Open(n) => handler[n][c] = Blank)
ForOwn(e) == e.own \/ quick[e.fd]
StaleIsQuick == /\ \A i \in 1 .. Len(chg) : ForOwn(chg[i])
                /\ \A i \in 1 .. Len(errs) : ForOwn(errs[i])
                /\ \A e \in ready : ForOwn(e)
                /\ cur # Idle => ForOwn(cur)
Closes(n) == desc[n].job = 0 /\ (pc = "events" \/ (pc = "jobs" /\ n \in todo))
ChangesApplied == \A n \in Fds : Closes(n) => \A i \in 1 .. Len(chg) : chg[i].fd # n
KInv == TypeOK /\ Quiet /\ JobCloses /\ Owned /\ StaleIsQuick /\ ChangesApplied

LEMMA KInit == Init => KInv
BY KQueueAssumption DEF Init, KInv, TypeOK, Quiet, JobCloses, Owned, StaleIsQuick, ForOwn,
   ChangesApplied, Closes, Desc, Flags0, Handler, Blank, KNote, Absent, Idle, None, Codes,
   EOF, Open

-----------------------------------------------------------------------------
(* What the calls of a client add to the change list.                        *)

LEMMA EnqueueOf ==
  ASSUME TypeOK, NEW n \in Fds, NEW c \in Codes, NEW op \in Ops
  PROVE  /\ EnqueueEvChg(n, c, op) \in Seq(Change)
         /\ \A i \in 1 .. Len(EnqueueEvChg(n, c, op)) :
               EnqueueEvChg(n, c, op)[i].fd = n /\ EnqueueEvChg(n, c, op)[i].own = sock[n]
<1>1. CASE c = EOF BY <1>1 DEF EnqueueEvChg
<1>2. CASE c # EOF
  <2>. DEFINE r == [fd |-> n, filter |-> c, op |-> op, own |-> sock[n]]
  <2>1. r \in Change BY <1>2 DEF Change, Codes, TypeOK
  <2>2. EnqueueEvChg(n, c, op) = <<r>> BY <1>2 DEF EnqueueEvChg
  <2>3. r.fd = n /\ r.own = sock[n] OBVIOUS
  <2>. HIDE DEF r
  <2>. QED BY <2>1, <2>2, <2>3
<1>. QED BY <1>1, <1>2

LEMMA ClearOf ==
  ASSUME TypeOK, NEW n \in Fds
  PROVE  /\ ClearChg(n) \in Seq(Change)
         /\ \A i \in 1 .. Len(ClearChg(n)) : ClearChg(n)[i].fd = n /\ ClearChg(n)[i].own = sock[n]
         /\ (\A c \in Codes : handler[n][c] = Blank) => ClearChg(n) = <<>>
<1>1. ASSUME NEW c
      PROVE  /\ DeleteChg(n, c) \in Seq(Change)
             /\ \A i \in 1 .. Len(DeleteChg(n, c)) :
                   DeleteChg(n, c)[i].fd = n /\ DeleteChg(n, c)[i].own = sock[n]
             /\ (\A d \in Codes : handler[n][d] = Blank) => DeleteChg(n, c) = <<>>
  BY EnqueueOf DEF DeleteChg, Codes, Ops, Blank
<1>. QED BY <1>1 DEF ClearChg

Callback == [fd : Fds, code : Codes, own : BOOLEAN]
LEMMA DeadChange ==
  ASSUME NEW n \in Fds, NEW e \in Change
  PROVE  Dead(n, e) \in Change /\ Dead(n, e).fd = e.fd /\ (e.fd # n => Dead(n, e) = e)
BY DEF Dead, Change

LEMMA DeadEvent ==
  ASSUME NEW n \in Fds, NEW e \in Event
  PROVE  Dead(n, e) \in Event /\ Dead(n, e).fd = e.fd /\ (e.fd # n => Dead(n, e) = e)
BY DEF Dead, Event

LEMMA DeadCallback ==
  ASSUME NEW n \in Fds, NEW e \in Callback \cup {Idle}
  PROVE  /\ Dead(n, e) \in Callback \cup {Idle}
         /\ Dead(n, e).fd = e.fd /\ Dead(n, e).code = e.code /\ (e.fd # n => Dead(n, e) = e)
         /\ e = Idle <=> Dead(n, e) = Idle
<1>1. Idle.fd # n BY KQueueAssumption DEF Idle, None
<1>2. CASE e = Idle BY <1>1, <1>2 DEF Dead
<1>3. CASE e \in Callback
  <2>1. e # Idle BY <1>3, KQueueAssumption DEF Callback, Idle, None
  <2>2. /\ Dead(n, e) \in Callback /\ Dead(n, e).fd = e.fd /\ Dead(n, e).code = e.code
        /\ e.fd # n => Dead(n, e) = e
    BY <1>3 DEF Dead, Callback
  <2>3. Dead(n, e) # Idle BY <2>2, KQueueAssumption DEF Callback, Idle, None
  <2>. QED BY <2>1, <2>2, <2>3
<1>. QED BY <1>2, <1>3

LEMMA DeadOf ==
  ASSUME NEW n \in Fds, NEW S, S = Change \/ S = Event, NEW s \in Seq(S),
         NEW t, t = AllDead(n, s)
  PROVE  /\ t \in Seq(S) /\ Len(t) = Len(s)
         /\ \A i \in 1 .. Len(s) : t[i].fd = s[i].fd /\ (s[i].fd # n => t[i] = s[i])
<1>1. \A e \in S : Dead(n, e) \in S /\ Dead(n, e).fd = e.fd /\ (e.fd # n => Dead(n, e) = e)
  <2>1. CASE S = Change BY <2>1, DeadChange
  <2>2. CASE S = Event BY <2>2, DeadEvent
  <2>. QED BY <2>1, <2>2
<1>2. \A i \in 1 .. Len(s) : s[i] \in S OBVIOUS
<1>3. \A i \in 1 .. Len(s) : t[i] = Dead(n, s[i]) BY DEF AllDead
<1>4. t \in [1 .. Len(s) -> S] BY <1>1, <1>2 DEF AllDead
<1>5. t \in Seq(S) /\ Len(t) = Len(s) BY <1>4, Len(s) \in Nat
<1>. QED BY <1>1, <1>2, <1>3, <1>5

LEMMA CloseTypes ==
  ASSUME TypeOK, NEW n \in Fds, EvKQBaseFDDoClose(n), UNCHANGED <<linger, pc>>,
         todo' \subseteq Fds, quick' \in [Fds -> BOOLEAN]
  PROVE  TypeOK'
<1>1. chg \o ClearChg(n) \in Seq(Change) BY ClearOf DEF TypeOK
<1>2. chg' \in Seq(Change) BY <1>1, DeadOf DEF EvKQBaseFDDoClose
<1>3. errs' \in Seq(Event) BY DeadOf DEF EvKQBaseFDDoClose, CloseFd, TypeOK
<1>4. ready' \subseteq Event BY DeadEvent DEF EvKQBaseFDDoClose, CloseFd, TypeOK
<1>5. cur' \in Callback \cup {Idle}
  BY DeadCallback DEF EvKQBaseFDDoClose, CloseFd, TypeOK, Callback
<1>6. desc' \in [Fds -> Desc] BY DEF EvKQBaseFDDoClose, TypeOK, Flags0, Desc, None
<1>7. handler' \in [Fds -> [Codes -> Handler]]
  BY DEF EvKQBaseFDDoClose, TypeOK, Cleared, Blank, Handler
<1>8. sock' \in [Fds -> BOOLEAN] /\ knote' \in [Fds -> [Filters -> KNote]]
  BY DEF EvKQBaseFDDoClose, CloseFd, TypeOK, Absent, KNote
<1>. QED BY <1>2, <1>3, <1>4, <1>5, <1>6, <1>7, <1>8 DEF TypeOK, Callback

(* A close touches only what is about its own descriptor. *)
LEMMA CloseItems ==
  ASSUME TypeOK, NEW n \in Fds, EvKQBaseFDDoClose(n)
  PROVE  /\ \A i \in 1 .. Len(chg') : chg'[i].fd = n \/ (i \in 1 .. Len(chg) /\ chg'[i] = chg[i])
         /\ \A i \in 1 .. Len(errs') : errs'[i].fd = n
                                        \/ (i \in 1 .. Len(errs) /\ errs'[i] = errs[i])
         /\ \A e \in ready' : e.fd = n \/ e \in ready
         /\ cur' = Idle <=> cur = Idle
         /\ cur'.code = cur.code /\ (cur'.fd = n \/ cur' = cur)
         /\ errs = <<>> => errs' = <<>>
         /\ ready = {} => ready' = {}
<1>. DEFINE s == chg \o ClearChg(n)
<1>1. /\ s \in Seq(Change)
      /\ \A i \in 1 .. Len(s) : s[i].fd = n \/ (i \in 1 .. Len(chg) /\ s[i] = chg[i])
  BY ClearOf DEF TypeOK
<1>. HIDE DEF s
<1>2. chg' = AllDead(n, s) BY DEF EvKQBaseFDDoClose, s
<1>3. \A i \in 1 .. Len(chg') : chg'[i].fd = n \/ (i \in 1 .. Len(chg) /\ chg'[i] = chg[i])
  <2>1. /\ Len(chg') = Len(s)
        /\ \A i \in 1 .. Len(s) : chg'[i].fd = s[i].fd /\ (s[i].fd # n => chg'[i] = s[i])
    BY <1>1, <1>2, DeadOf
  <2>2. ASSUME NEW i \in 1 .. Len(chg')
        PROVE  chg'[i].fd = n \/ (i \in 1 .. Len(chg) /\ chg'[i] = chg[i])
    <3>1. i \in 1 .. Len(s) BY <2>1
    <3>2. s[i].fd = n \/ (i \in 1 .. Len(chg) /\ s[i] = chg[i]) BY <3>1, <1>1
    <3>. QED BY <2>1, <3>1, <3>2
  <2>. QED BY <2>2
<1>4. errs' = AllDead(n, errs) /\ errs \in Seq(Event)
  BY DEF EvKQBaseFDDoClose, CloseFd, TypeOK
<1>5. /\ \A i \in 1 .. Len(errs') : errs'[i].fd = n
                                     \/ (i \in 1 .. Len(errs) /\ errs'[i] = errs[i])
      /\ errs = <<>> => errs' = <<>>
  <2>1. /\ errs' \in Seq(Event) /\ Len(errs') = Len(errs)
        /\ \A i \in 1 .. Len(errs) : errs'[i].fd = errs[i].fd
                                      /\ (errs[i].fd # n => errs'[i] = errs[i])
    BY <1>4, DeadOf
  <2>3. \A i \in 1 .. Len(errs') : errs'[i].fd = n \/ (i \in 1 .. Len(errs) /\ errs'[i] = errs[i])
    BY <2>1
  <2>4. errs = <<>> => errs' = <<>> BY <2>1
  <2>. QED BY <2>3, <2>4
<1>6. ready' = {Dead(n, e) : e \in ready} /\ ready \subseteq Event
  BY DEF EvKQBaseFDDoClose, CloseFd, TypeOK
<1>7. (\A e \in ready' : e.fd = n \/ e \in ready) /\ (ready = {} => ready' = {})
  BY <1>6, DeadEvent
<1>8. cur' = Dead(n, cur) /\ cur \in Callback \cup {Idle}
  BY DEF EvKQBaseFDDoClose, CloseFd, TypeOK, Callback
<1>9. /\ cur' = Idle <=> cur = Idle
      /\ cur'.code = cur.code /\ (cur'.fd = n \/ cur' = cur)
  BY <1>8, DeadCallback
<1>. QED BY <1>3, <1>5, <1>7, <1>9

LEMMA CloseOthers ==
  ASSUME TypeOK, JobCloses, Owned, NEW n \in Fds, EvKQBaseFDDoClose(n)
  PROVE  /\ JobCloses' /\ Owned' /\ desc'[n].job = None
         /\ \A m \in Fds \ {n} : desc'[m] = desc[m]
<1>1. /\ desc' = [desc EXCEPT ![n] = [Flags0 EXCEPT !.closed = TRUE]]
      /\ sock' = [sock EXCEPT ![n] = FALSE]
      /\ handler' = [handler EXCEPT ![n] = [c \in Codes |-> Blank]]
  BY DEF EvKQBaseFDDoClose, CloseFd, Cleared
<1>2. desc'[n].job = None /\ \A m \in Fds \ {n} : desc'[m] = desc[m] /\ sock'[m] = sock[m]
  BY <1>1 DEF TypeOK, Flags0
<1>3. JobCloses' BY <1>2 DEF JobCloses
<1>4. \A c \in Codes : handler'[n][c] = Blank /\ \A m \in Fds \ {n} : handler'[m][c] = handler[m][c]
  BY <1>1 DEF TypeOK
<1>5. Owned' BY <1>2, <1>4 DEF Owned, Open, Blank
<1>. QED BY <1>2, <1>3, <1>5

(* CloseNow: what is left of the socket is stale, and its close was quick. *)
LEMMA CloseNowKeeps ==
  ASSUME KInv, NEW n \in Fds, CloseNow(n)
  PROVE  KInv'
<1>. USE DEF KInv
<1>1. /\ EvKQBaseFDDoClose(n) /\ UNCHANGED <<linger, pc, todo>>
      /\ quick' = [quick EXCEPT ![n] = TRUE]
  BY DEF CloseNow, loop
<1>2. TypeOK' BY <1>1, CloseTypes DEF TypeOK
<1>3. Quiet' BY <1>1, CloseItems DEF Quiet
<1>4. JobCloses' /\ Owned' BY <1>1, CloseOthers
<1>5. StaleIsQuick'
  <2>1. \A m \in Fds : quick[m] \/ m = n => quick'[m] BY <1>1 DEF TypeOK
  <2>2. \A i \in 1 .. Len(chg') : chg'[i].own \/ quick'[chg'[i].fd]
    <3>1. \A i \in 1 .. Len(chg) : chg[i].fd \in Fds
      <4>1. \A i \in 1 .. Len(chg) : chg[i] \in Change BY DEF TypeOK
      <4>. QED BY <4>1 DEF Change
    <3>. QED BY <2>1, <3>1, <1>1, CloseItems DEF StaleIsQuick, ForOwn
  <2>3. \A i \in 1 .. Len(errs') : errs'[i].own \/ quick'[errs'[i].fd]
    <3>1. \A i \in 1 .. Len(errs) : errs[i].fd \in Fds
      <4>1. \A i \in 1 .. Len(errs) : errs[i] \in Event BY DEF TypeOK
      <4>. QED BY <4>1 DEF Event
    <3>. QED BY <2>1, <3>1, <1>1, CloseItems DEF StaleIsQuick, ForOwn
  <2>4. \A e \in ready' : e.own \/ quick'[e.fd]
    <3>1. \A e \in ready : e.fd \in Fds BY DEF TypeOK, Event
    <3>. QED BY <2>1, <3>1, <1>1, CloseItems DEF StaleIsQuick, ForOwn
  <2>5. cur' # Idle => cur'.own \/ quick'[cur'.fd]
    <3>1. cur # Idle => cur.fd \in Fds BY DEF TypeOK
    <3>. QED BY <2>1, <3>1, <1>1, CloseItems DEF StaleIsQuick, ForOwn
  <2>. QED BY <2>2, <2>3, <2>4, <2>5 DEF StaleIsQuick, ForOwn
<1>6. ChangesApplied'
  <2>1. ASSUME NEW m \in Fds, Closes(m)', NEW i \in 1 .. Len(chg')
        PROVE  chg'[i].fd # m
    <3>1. m # n BY <2>1, <1>1, CloseOthers DEF Closes, None
    <3>2. Closes(m) BY <2>1, <3>1, <1>1, CloseOthers DEF Closes
    <3>. QED BY <3>1, <3>2, <1>1, CloseItems DEF ChangesApplied
  <2>. QED BY <2>1 DEF ChangesApplied
<1>. QED BY <1>2, <1>3, <1>4, <1>5, <1>6

(* What the client adds to the change list is about a socket it has open. *)
LEMMA ChangesAdded ==
  ASSUME TypeOK, NEW n \in Fds, sock[n], NEW s, chg' = chg \o s, s \in Seq(Change),
         \A i \in 1 .. Len(s) : s[i].fd = n /\ s[i].own = sock[n]
  PROVE  /\ chg' \in Seq(Change)
         /\ \A i \in 1 .. Len(chg') : (chg'[i].fd = n /\ chg'[i].own)
                                        \/ (i \in 1 .. Len(chg) /\ chg'[i] = chg[i])
<1>1. chg \in Seq(Change) BY DEF TypeOK
<1>2. /\ chg' \in Seq(Change)
      /\ \A i \in 1 .. Len(chg') : \/ i \in 1 .. Len(chg) /\ chg'[i] = chg[i]
                                   \/ \E j \in 1 .. Len(s) : chg'[i] = s[j]
  <2>1. /\ chg' \in Seq(Change) /\ Len(chg') = Len(chg) + Len(s)
        /\ \A i \in 1 .. Len(chg') :
              chg'[i] = IF i <= Len(chg) THEN chg[i] ELSE s[i - Len(chg)]
    BY <1>1
  <2>2. Len(chg) \in Nat /\ Len(s) \in Nat BY <1>1
  <2>3. ASSUME NEW i \in 1 .. Len(chg'), ~(i <= Len(chg))
        PROVE  i - Len(chg) \in 1 .. Len(s)
    BY <2>1, <2>2, <2>3
  <2>4. ASSUME NEW i \in 1 .. Len(chg'), i <= Len(chg)
        PROVE  i \in 1 .. Len(chg)
    BY <2>2, <2>4
  <2>. QED BY <2>1, <2>3, <2>4
<1>3. \A j \in 1 .. Len(s) : s[j].fd = n /\ s[j].own OBVIOUS
<1>. QED BY <1>2, <1>3

(* EvKQBaseFDCloseJob: nothing is left of the socket. *)
LEMMA CloseJobKeeps ==
  ASSUME KInv, NEW n \in Fds, VisitCloseJob(n), EvKQBaseFDCloseJob(n)
  PROVE  KInv'
<1>. USE DEF KInv
<1>1. /\ pc = "jobs" /\ n \in todo /\ desc[n].job = 0 /\ EvKQBaseFDDoClose(n)
      /\ quick' = [quick EXCEPT ![n] = FALSE]
      /\ todo' = todo \ {n} /\ UNCHANGED <<linger, pc>>
  BY DEF VisitCloseJob, EvKQBaseFDCloseJob
<1>2. errs = <<>> /\ ready = {} /\ cur = Idle BY <1>1 DEF Quiet
<1>3. ~Open(n) BY <1>1 DEF JobCloses, Open, None
<1>4. ClearChg(n) = <<>> BY <1>3, ClearOf DEF Owned
<1>5. \A i \in 1 .. Len(chg) : chg[i].fd # n BY <1>1 DEF ChangesApplied, Closes
<1>6. chg' = AllDead(n, chg)
  <2>1. chg \o <<>> = chg BY DEF TypeOK
  <2>. QED BY <1>1, <1>4, <2>1 DEF EvKQBaseFDDoClose
<1>7. Len(chg') = Len(chg) /\ \A i \in 1 .. Len(chg) : chg'[i] = chg[i]
  BY <1>5, <1>6, DeadOf DEF TypeOK
<1>8. errs' = <<>> /\ ready' = {} /\ cur' = Idle BY <1>1, <1>2, CloseItems
<1>9. TypeOK' BY <1>1, CloseTypes DEF TypeOK
<1>10. Quiet' BY <1>8 DEF Quiet
<1>11. JobCloses' /\ Owned' BY <1>1, CloseOthers
<1>12. StaleIsQuick'
  <2>1. \A i \in 1 .. Len(chg) : chg[i].fd \in Fds
    <3>1. \A i \in 1 .. Len(chg) : chg[i] \in Change BY DEF TypeOK
    <3>. QED BY <3>1 DEF Change
  <2>2. \A m \in Fds : m # n => quick'[m] = quick[m] BY <1>1 DEF TypeOK
  <2>. QED BY <1>5, <1>7, <1>8, <2>1, <2>2 DEF StaleIsQuick, ForOwn
<1>13. ChangesApplied'
  <2>1. ASSUME NEW m \in Fds, Closes(m)', NEW i \in 1 .. Len(chg')
        PROVE  chg'[i].fd # m
    <3>1. m # n BY <2>1, <1>1 DEF Closes
    <3>2. Closes(m) BY <2>1, <3>1, <1>1, CloseOthers DEF Closes
    <3>. QED BY <3>2, <1>7 DEF ChangesApplied
  <2>. QED BY <2>1 DEF ChangesApplied
<1>. QED BY <1>9, <1>10, <1>11, <1>12, <1>13

LEMMA WaitKeeps ==
  ASSUME KInv, NEW n \in Fds, VisitCloseJob(n), WaitLoop(n)
  PROVE  KInv'
<1>. USE DEF KInv
<1>1. /\ pc = "jobs" /\ desc[n].job > 0 /\ desc' = [desc EXCEPT ![n].job = @ - 1]
      /\ todo' = todo \ {n}
      /\ UNCHANGED <<linger, pc, handler, chg, batch, cur, kernel, quick>>
  BY DEF VisitCloseJob, WaitLoop
<1>2. desc[n].job = 1
  <2>1. desc[n] \in Desc BY DEF TypeOK
  <2>2. desc[n].job \in {-1, 0, 1} BY <2>1 DEF Desc, None
  <2>. QED BY <1>1, <2>2
<1>3. /\ desc' \in [Fds -> Desc] /\ desc'[n].job = 0
      /\ \A m \in Fds : m # n => desc'[m] = desc[m]
  <2>1. desc' = [desc EXCEPT ![n] = [desc[n] EXCEPT !.job = 0]] BY <1>1, <1>2 DEF TypeOK
  <2>2. desc \in [Fds -> Desc] /\ desc[n] \in Desc BY DEF TypeOK
  <2>3. [desc[n] EXCEPT !.job = 0] \in Desc BY <2>2 DEF Desc
  <2>4. [desc[n] EXCEPT !.job = 0].job = 0 BY <2>2 DEF Desc
  <2>. QED BY <2>1, <2>2, <2>3, <2>4
<1>4. \A m \in Fds : desc'[m].closing = desc[m].closing
  BY <1>1 DEF TypeOK, Desc
<1>5. TypeOK' BY <1>1, <1>3 DEF TypeOK, batch, kernel
<1>6. Quiet' BY <1>1 DEF Quiet, batch
<1>7. JobCloses' BY <1>2, <1>3, <1>4 DEF JobCloses, None
<1>8. Owned' BY <1>1, <1>4 DEF Owned, Open, kernel
<1>9. StaleIsQuick' BY <1>1 DEF StaleIsQuick, ForOwn, batch
<1>10. ChangesApplied' BY <1>1, <1>3 DEF ChangesApplied, Closes
<1>. QED BY <1>5, <1>6, <1>7, <1>8, <1>9, <1>10

LEMMA LingerKeeps ==
  ASSUME KInv, NEW n \in Fds, Open(n), CloseJobAdd(n)
  PROVE  KInv'
<1>. USE DEF KInv
<1>1. /\ desc' = [desc EXCEPT ![n].closing = TRUE, ![n].job = 1]
      /\ handler' = [handler EXCEPT ![n] = Cleared(handler[n])]
      /\ chg' = chg \o ClearChg(n)
      /\ todo' = todo \/ (pc = "jobs" /\ todo' = todo \cup {n})
      /\ UNCHANGED <<linger, pc, batch, cur, kernel, quick>>
  BY DEF CloseJobAdd, LoopsToClose
<1>2. /\ desc' \in [Fds -> Desc] /\ desc'[n].closing /\ desc'[n].job = 1
      /\ \A m \in Fds : m # n => desc'[m] = desc[m]
  BY <1>1, ZenonT(40) DEF TypeOK, Desc
<1>3. /\ handler' \in [Fds -> [Codes -> Handler]]
      /\ \A c \in Codes : /\ handler'[n][c] = Blank
                          /\ \A m \in Fds : m # n => handler'[m][c] = handler[m][c]
  BY <1>1 DEF TypeOK, Cleared, Blank, Handler
<1>4. /\ chg' \in Seq(Change)
      /\ \A i \in 1 .. Len(chg') : (chg'[i].fd = n /\ chg'[i].own)
                                     \/ (i \in 1 .. Len(chg) /\ chg'[i] = chg[i])
  BY <1>1, ClearOf, ChangesAdded DEF Open
<1>5. TypeOK' BY <1>1, <1>2, <1>3, <1>4 DEF TypeOK, batch, kernel
<1>6. Quiet' BY <1>1 DEF Quiet, batch
<1>7. JobCloses' BY <1>2 DEF JobCloses
<1>8. Owned'
  <2>1. sock' = sock BY <1>1 DEF kernel
  <2>2. \A c \in Codes : Blank.cb # "stale" /\ handler'[n][c] = Blank BY <1>3 DEF Blank
  <2>3. ASSUME NEW m \in Fds, m # n, NEW c \in Codes
        PROVE  handler'[m][c].cb # "stale" /\ (~Open(m)' => handler'[m][c] = Blank)
    BY <1>2, <1>3, <2>1, <2>3 DEF Owned, Open
  <2>. QED BY <2>2, <2>3 DEF Owned
<1>9. StaleIsQuick' BY <1>1, <1>4 DEF StaleIsQuick, ForOwn, batch
<1>10. ChangesApplied' BY <1>1, <1>2, <1>4 DEF ChangesApplied, Closes
<1>. QED BY <1>5, <1>6, <1>7, <1>8, <1>9, <1>10

LEMMA OpenKeeps ==
  ASSUME KInv, NEW n \in Fds, EvKQBaseSocketGenericNew(n)
  PROVE  KInv'
<1>. USE DEF KInv
<1>1. /\ ~sock[n] /\ sock' = [sock EXCEPT ![n] = TRUE]
      /\ desc' = [desc EXCEPT ![n] = [Flags0 EXCEPT !.active = TRUE]]
      /\ UNCHANGED <<linger, handler, chg, loop, batch, cur, knote, quick>>
  BY DEF EvKQBaseSocketGenericNew
<1>2. /\ desc' \in [Fds -> Desc] /\ desc'[n].job = None
      /\ \A m \in Fds : m # n => desc'[m] = desc[m] /\ sock'[m] = sock[m]
  BY <1>1 DEF TypeOK, Desc, Flags0
<1>3. sock' \in [Fds -> BOOLEAN] BY <1>1 DEF TypeOK
<1>4. TypeOK' BY <1>1, <1>2, <1>3 DEF TypeOK, batch, loop
<1>5. Quiet' BY <1>1 DEF Quiet, batch, loop
<1>6. JobCloses' BY <1>2 DEF JobCloses
<1>7. Owned'
  <2>1. \A c \in Codes : handler'[n][c] = Blank BY <1>1 DEF Owned, Open
  <2>2. ASSUME NEW m \in Fds, m # n, NEW c \in Codes
        PROVE  handler'[m][c].cb # "stale" /\ (~Open(m)' => handler'[m][c] = Blank)
    BY <1>1, <1>2, <2>2 DEF Owned, Open
  <2>3. Blank.cb # "stale" BY DEF Blank
  <2>. QED BY <2>1, <2>2, <2>3 DEF Owned
<1>8. StaleIsQuick' BY <1>1 DEF StaleIsQuick, ForOwn, batch
<1>9. ChangesApplied' BY <1>1, <1>2 DEF ChangesApplied, Closes, loop, None
<1>. QED BY <1>4, <1>5, <1>6, <1>7, <1>8, <1>9

(* EvKQBaseSetEvent changes one handler, which stays the socket's own. *)
LEMMA SetHandler ==
  ASSUME KInv, NEW n \in Fds, NEW c \in Codes, EvKQBaseSetEvent(n, c)
  PROVE  \E h \in Handler, s \in Seq(Change) :
            /\ handler' = [handler EXCEPT ![n][c] = h] /\ h.cb # "stale"
            /\ chg' = chg \o s
            /\ \A i \in 1 .. Len(s) : s[i].fd = n /\ s[i].own = sock[n]
<1>. USE DEF KInv
<1>1. handler[n][c] \in Handler /\ handler[n][c].cb # "stale" BY DEF TypeOK, Owned
<1>2. CASE \E persist \in BOOLEAN : Add(n, c, persist)
  <2>1. PICK persist \in BOOLEAN : Add(n, c, persist) BY <1>2
  <2>. DEFINE h == [cb |-> "own", enabled |-> TRUE, persist |-> persist]
  <2>2. h \in Handler /\ h.cb # "stale" BY DEF Handler
  <2>3. /\ AddChg(n, c, persist) \in Seq(Change)
        /\ \A i \in 1 .. Len(AddChg(n, c, persist)) :
              AddChg(n, c, persist)[i].fd = n /\ AddChg(n, c, persist)[i].own = sock[n]
    BY EnqueueOf DEF AddChg, Ops
  <2>. QED BY <2>1, <2>2, <2>3 DEF Add, EventSet
<1>3. CASE Delete(n, c)
  <2>1. Blank \in Handler /\ Blank.cb # "stale" BY DEF Blank, Handler
  <2>2. /\ DeleteChg(n, c) \in Seq(Change)
        /\ \A i \in 1 .. Len(DeleteChg(n, c)) :
              DeleteChg(n, c)[i].fd = n /\ DeleteChg(n, c)[i].own = sock[n]
    BY EnqueueOf DEF DeleteChg, Ops
  <2>. QED BY <1>3, <2>1, <2>2 DEF Delete
<1>4. CASE \E on \in BOOLEAN : Toggle(n, c, on)
  <2>1. PICK on \in BOOLEAN : Toggle(n, c, on) BY <1>4
  <2>. DEFINE h == [handler[n][c] EXCEPT !.enabled = on]
              op == IF on THEN "enable" ELSE "disable"
  <2>2. h \in Handler /\ h.cb # "stale" BY <1>1 DEF Handler
  <2>3. handler' = [handler EXCEPT ![n][c] = h] BY <2>1 DEF Toggle
  <2>4. op \in Ops BY DEF Ops
  <2>5. chg' = chg \o EnqueueEvChg(n, c, op) BY <2>1 DEF Toggle
  <2>. HIDE DEF h, op
  <2>6. /\ EnqueueEvChg(n, c, op) \in Seq(Change)
        /\ \A i \in 1 .. Len(EnqueueEvChg(n, c, op)) :
              EnqueueEvChg(n, c, op)[i].fd = n /\ EnqueueEvChg(n, c, op)[i].own = sock[n]
    BY <2>4, EnqueueOf
  <2>. QED BY <2>2, <2>3, <2>5, <2>6
<1>. QED BY <1>2, <1>3, <1>4 DEF EvKQBaseSetEvent

LEMMA SetEventKeeps ==
  ASSUME KInv, NEW n \in Fds, NEW c \in Codes, EvKQBaseSetEvent(n, c)
  PROVE  KInv'
<1>. USE DEF KInv
<1>1. Open(n) /\ UNCHANGED <<linger, desc, loop, batch, cur, kernel, quick>>
  BY DEF EvKQBaseSetEvent
<1>2. PICK h \in Handler, s \in Seq(Change) :
            /\ handler' = [handler EXCEPT ![n][c] = h] /\ h.cb # "stale"
            /\ chg' = chg \o s
            /\ \A i \in 1 .. Len(s) : s[i].fd = n /\ s[i].own = sock[n]
  BY SetHandler
<1>3. /\ chg' \in Seq(Change)
      /\ \A i \in 1 .. Len(chg') : (chg'[i].fd = n /\ chg'[i].own)
                                     \/ (i \in 1 .. Len(chg) /\ chg'[i] = chg[i])
  BY <1>1, <1>2, ChangesAdded DEF Open
<1>4. /\ handler' \in [Fds -> [Codes -> Handler]]
      /\ \A m \in Fds, d \in Codes : handler'[m][d] = IF m = n /\ d = c THEN h ELSE handler[m][d]
  BY <1>2 DEF TypeOK
<1>5. TypeOK' BY <1>1, <1>3, <1>4 DEF TypeOK, batch, kernel, loop
<1>6. Quiet' BY <1>1 DEF Quiet, batch, loop
<1>7. JobCloses' BY <1>1 DEF JobCloses
<1>8. Owned'
  <2>1. \A m \in Fds : Open(m)' <=> Open(m) BY <1>1 DEF Open, kernel
  <2>. QED BY <1>1, <1>2, <1>4, <2>1 DEF Owned
<1>9. StaleIsQuick' BY <1>1, <1>3 DEF StaleIsQuick, ForOwn, batch
<1>10. ChangesApplied'
  <2>1. \A m \in Fds : Closes(m)' => m # n /\ Closes(m)
    BY <1>1 DEF Closes, loop, JobCloses, Open, None
  <2>. QED BY <1>3, <2>1 DEF ChangesApplied
<1>. QED BY <1>5, <1>6, <1>7, <1>8, <1>9, <1>10

-----------------------------------------------------------------------------
(* kevent(), and the callbacks.                                              *)

LEMMA InvokeKEventKeeps ==
  ASSUME KInv, EvKQBaseKEventInvoke
  PROVE  KInv'
BY DEF EvKQBaseKEventInvoke, KInv, TypeOK, Quiet, JobCloses, Owned, Open, StaleIsQuick, ForOwn,
   ChangesApplied, Closes, batch, kernel

LEMMA ChangeKeeps ==
  ASSUME KInv, KEventChange
  PROVE  KInv'
<1>. USE DEF KInv
<1>1. /\ pc = "kevent" /\ chg # <<>> /\ chg' = Tail(chg) /\ chg \in Seq(Change)
      /\ UNCHANGED <<linger, desc, handler, loop, ready, cur, sock, quick>>
  BY DEF KEventChange, TypeOK
<1>. DEFINE c == Head(chg)
<1>2. c = chg[1] /\ c \in Change /\ 1 \in 1 .. Len(chg) BY <1>1
<1>3. /\ Len(chg') = Len(chg) - 1
      /\ \A i \in 1 .. Len(chg') : i + 1 \in 1 .. Len(chg) /\ chg'[i] = chg[i + 1]
  BY <1>1
<1>4. \/ errs' = Append(errs, AsError(c)) /\ UNCHANGED knote
      \/ errs' = errs /\ knote' = [knote EXCEPT ![c.fd][c.filter] = Change1(@, c.op)]
  BY DEF KEventChange
<1>. HIDE DEF c
<1>5. AsError(c) \in Event /\ AsError(c).own = c.own /\ AsError(c).fd = c.fd
  BY <1>2 DEF AsError, Event, Change
<1>6. /\ errs' \in Seq(Event)
      /\ \A i \in 1 .. Len(errs') : (i \in 1 .. Len(errs) /\ errs'[i] = errs[i]) \/ errs'[i] = AsError(c)
  <2>1. errs \in Seq(Event) BY DEF TypeOK
  <2>2. CASE errs' = errs BY <2>1, <2>2
  <2>3. CASE errs' = Append(errs, AsError(c))
    <3>. DEFINE a == AsError(c)
    <3>1. a \in Event /\ errs' = Append(errs, a) BY <1>5, <2>3
    <3>. HIDE DEF a
    <3>2. /\ errs' \in Seq(Event)
          /\ \A i \in 1 .. Len(errs') : (i \in 1 .. Len(errs) /\ errs'[i] = errs[i]) \/ errs'[i] = a
      BY <2>1, <3>1
    <3>. QED BY <3>2 DEF a
  <2>. QED BY <1>4, <2>2, <2>3
<1>7. knote' \in [Fds -> [Filters -> KNote]]
  <2>1. c.fd \in Fds /\ c.filter \in Filters /\ c.op \in Ops BY <1>2 DEF Change
  <2>2. knote[c.fd][c.filter] \in KNote BY <2>1 DEF TypeOK
  <2>3. Change1(knote[c.fd][c.filter], c.op) \in KNote BY <2>1, <2>2 DEF Change1, KNote, Absent, Ops
  <2>4. knote \in [Fds -> [Filters -> KNote]] BY DEF TypeOK
  <2>. QED BY <1>4, <2>1, <2>3, <2>4
<1>8. TypeOK'
  <2>1. chg' \in Seq(Change) BY <1>1
  <2>. QED BY <1>1, <1>6, <1>7, <2>1 DEF TypeOK, loop
<1>9. Quiet' BY <1>1 DEF Quiet, loop
<1>10. JobCloses' /\ Owned' BY <1>1 DEF JobCloses, Owned, Open
<1>11. StaleIsQuick'
  <2>1. ForOwn(c) BY <1>2 DEF StaleIsQuick
  <2>2. ForOwn(AsError(c)) BY <2>1, <1>5 DEF ForOwn
  <2>. QED BY <1>1, <1>3, <1>6, <2>2 DEF StaleIsQuick, ForOwn
<1>12. ChangesApplied' BY <1>1 DEF ChangesApplied, Closes, loop
<1>. QED BY <1>8, <1>9, <1>10, <1>11, <1>12

LEMMA ReturnKeeps ==
  ASSUME KInv, KEventReturn
  PROVE  KInv'
<1>. USE DEF KInv
<1>1. /\ pc = "kevent" /\ chg = <<>> /\ pc' = "events"
      /\ UNCHANGED <<linger, desc, handler, chg, todo, errs, cur, sock, quick>>
  BY DEF KEventReturn
<1>2. PICK fire \in SUBSET Watched : \E eofs \in SUBSET fire :
         /\ ready' = Raised(fire, eofs)
         /\ knote' = [n \in Fds |-> [f \in Filters |->
                        IF <<n, f>> \in fire /\ knote[n][f].oneshot
                        THEN Absent ELSE knote[n][f]]]
  BY DEF KEventReturn
<1>3. ready' \subseteq Event /\ \A e \in ready' : e.own
  <2>1. PICK eofs \in SUBSET fire : ready' = Raised(fire, eofs) BY <1>2
  <2>2. ASSUME NEW e \in ready'
        PROVE  e \in Event /\ e.own
    <3>1. PICK w \in fire : e = [fd |-> w[1], filter |-> w[2], own |-> TRUE, eof |-> w \in eofs]
      BY <2>1 DEF Raised
    <3>2. w[1] \in Fds /\ w[2] \in Filters BY DEF Watched
    <3>3. (w \in eofs) \in BOOLEAN OBVIOUS
    <3>. QED BY <3>1, <3>2, <3>3 DEF Event
  <2>. QED BY <2>2
<1>4. knote' \in [Fds -> [Filters -> KNote]] BY <1>2 DEF TypeOK, Absent, KNote
<1>5. TypeOK' BY <1>1, <1>3, <1>4 DEF TypeOK
<1>6. Quiet' BY <1>1 DEF Quiet
<1>7. JobCloses' /\ Owned' BY <1>1 DEF JobCloses, Owned, Open
<1>8. StaleIsQuick' BY <1>1, <1>3 DEF StaleIsQuick, ForOwn
<1>9. ChangesApplied' BY <1>1 DEF ChangesApplied
<1>. QED BY <1>5, <1>6, <1>7, <1>8, <1>9

(* A callback starts for a socket that is open, with the socket's own handler. *)
LEMMA InvokeOf ==
  ASSUME KInv, NEW n \in Fds, NEW c \in Codes, NEW own \in BOOLEAN, Invoke(n, c, own)
  PROVE  /\ handler' \in [Fds -> [Codes -> Handler]]
         /\ \A m \in Fds, d \in Codes : handler'[m][d].cb # "stale" /\ (~Open(m) => handler'[m][d] = Blank)
         /\ cur' \in Callback /\ cur'.fd = n /\ cur'.own = own
         /\ Open(n) /\ handler[n][c].cb = "own"
<1>. USE DEF KInv
<1>. DEFINE h == [handler[n][c] EXCEPT !.enabled = handler[n][c].persist]
<1>1. handler[n][c] \in Handler /\ handler[n][c].cb \notin {"none", "stale"}
  BY DEF Invoke, Calls, TypeOK, Owned
<1>2. Open(n) /\ handler[n][c].cb = "own" BY <1>1 DEF Owned, Blank, Handler
<1>3. h \in Handler /\ h.cb = handler[n][c].cb BY <1>1 DEF Handler
<1>4. handler' = [handler EXCEPT ![n][c] = h] BY DEF Invoke
<1>. HIDE DEF h
<1>5. /\ handler' \in [Fds -> [Codes -> Handler]]
      /\ \A m \in Fds, d \in Codes : handler'[m][d] = IF m = n /\ d = c THEN h ELSE handler[m][d]
  BY <1>3, <1>4 DEF TypeOK
<1>6. cur' \in Callback /\ cur'.fd = n /\ cur'.own = own BY DEF Invoke, Callback
<1>. QED BY <1>1, <1>2, <1>3, <1>5, <1>6 DEF Owned

(* EvKQInvokeKQFDCallbacks, at an event of the array. *)
LEMMA DispatchOf ==
  ASSUME KInv, pc = "events", cur = Idle, NEW e \in Event, ForOwn(e), DispatchEvent(e),
         UNCHANGED <<linger, chg, loop, kernel, quick>>,
         errs' \in Seq(Event), \A i \in 1 .. Len(errs') : ForOwn(errs'[i]),
         ready' \subseteq ready
  PROVE  /\ KInv'
         /\ Starts => Open(cur'.fd) /\ handler[cur'.fd][cur'.code].cb = "own"
<1>. USE DEF KInv
<1>1. e.fd \in Fds /\ e.filter \in Codes /\ EOF \in Codes /\ e.own \in BOOLEAN /\ e.eof \in BOOLEAN
  BY DEF Event, Codes
<1>2. \/ UNCHANGED <<handler, cur>>
      \/ \E c \in Codes : Invoke(e.fd, c, e.own)
  BY <1>1 DEF DispatchEvent
<1>3. /\ desc' \in [Fds -> Desc]
      /\ \A n \in Fds : desc'[n].closing = desc[n].closing /\ desc'[n].job = desc[n].job
  BY <1>1, ZenonT(40) DEF DispatchEvent, TypeOK, Desc
<1>4. \A n \in Fds : Open(n)' <=> Open(n) BY <1>3 DEF Open, kernel
<1>5. /\ handler' \in [Fds -> [Codes -> Handler]] /\ Owned'
      /\ cur' \in Callback \cup {Idle} /\ (cur' # Idle => cur'.own \/ quick[cur'.fd])
      /\ cur' # Idle => Open(cur'.fd) /\ handler[cur'.fd][cur'.code].cb = "own"
  <2>1. CASE UNCHANGED <<handler, cur>> BY <1>4, <2>1 DEF TypeOK, Owned, Callback
  <2>2. CASE \E c \in Codes : Invoke(e.fd, c, e.own)
    <3>1. PICK c \in Codes : Invoke(e.fd, c, e.own) BY <2>2
    <3>2. /\ handler' \in [Fds -> [Codes -> Handler]]
          /\ \A m \in Fds, d \in Codes : handler'[m][d].cb # "stale" /\ (~Open(m) => handler'[m][d] = Blank)
          /\ cur' \in Callback /\ cur'.fd = e.fd /\ cur'.own = e.own
          /\ Open(e.fd) /\ handler[e.fd][c].cb = "own"
      BY <3>1, <1>1, InvokeOf
    <3>3. cur'.code = c BY <3>1 DEF Invoke
    <3>4. Owned'
      <4>1. \A m \in Fds, d \in Codes : handler'[m][d].cb # "stale" /\ (~Open(m) => handler'[m][d] = Blank)
        BY <3>2
      <4>. QED BY <4>1, <1>4 DEF Owned
    <3>5. cur'.own \/ quick[cur'.fd] BY <3>2 DEF ForOwn
    <3>. QED BY <3>2, <3>3, <3>4, <3>5
  <2>. QED BY <1>2, <2>1, <2>2
<1>6. TypeOK' BY <1>3, <1>5 DEF TypeOK, Callback, loop, kernel
<1>7. Quiet' BY DEF Quiet, loop
<1>8. JobCloses' BY <1>3 DEF JobCloses
<1>9. StaleIsQuick'
  <2>1. quick' = quick /\ chg' = chg OBVIOUS
  <2>. QED BY <1>5, <2>1 DEF StaleIsQuick, ForOwn
<1>10. ChangesApplied' BY <1>3 DEF ChangesApplied, Closes, loop
<1>. QED BY <1>5, <1>6, <1>7, <1>8, <1>9, <1>10 DEF Starts

StartsOwn == Starts => Open(cur'.fd) /\ handler[cur'.fd][cur'.code].cb = "own"

LEMMA DispatchKeeps ==
  ASSUME KInv, DispatchError \/ DispatchReady
  PROVE  KInv' /\ StartsOwn
<1>. USE DEF KInv, StartsOwn
<1>1. CASE DispatchError
  <2>1. /\ pc = "events" /\ cur = Idle /\ errs # <<>> /\ errs \in Seq(Event)
        /\ DispatchEvent(Head(errs)) /\ errs' = Tail(errs)
        /\ UNCHANGED <<linger, chg, loop, kernel, quick>> /\ ready' = ready
    BY <1>1 DEF DispatchError, Dispatching, TypeOK
  <2>2. Head(errs) = errs[1] /\ errs[1] \in Event /\ 1 \in 1 .. Len(errs) BY <2>1
  <2>3. ForOwn(Head(errs)) BY <2>2 DEF StaleIsQuick
  <2>4. errs' \in Seq(Event)
        /\ \A i \in 1 .. Len(errs') : i + 1 \in 1 .. Len(errs) /\ errs'[i] = errs[i + 1]
    BY <2>1
  <2>5. \A i \in 1 .. Len(errs') : ForOwn(errs'[i]) BY <2>4 DEF StaleIsQuick
  <2>. QED BY <2>1, <2>2, <2>3, <2>4, <2>5, DispatchOf
<1>2. CASE DispatchReady
  <2>1. PICK e \in ready : DispatchEvent(e) /\ ready' = ready \ {e} BY <1>2 DEF DispatchReady
  <2>2. /\ pc = "events" /\ cur = Idle /\ errs' = errs
        /\ UNCHANGED <<linger, chg, loop, kernel, quick>>
    BY <1>2 DEF DispatchReady, Dispatching
  <2>3. e \in Event /\ ForOwn(e) BY DEF TypeOK, StaleIsQuick
  <2>4. errs' \in Seq(Event) /\ \A i \in 1 .. Len(errs') : ForOwn(errs'[i])
    BY <2>2 DEF TypeOK, StaleIsQuick
  <2>5. ready' \subseteq ready BY <2>1
  <2>. QED BY <2>1, <2>2, <2>3, <2>4, <2>5, DispatchOf
<1>. QED BY <1>1, <1>2

LEMMA CallbackKeeps ==
  ASSUME KInv, CallbackReturn
  PROVE  KInv' /\ StartsOwn
<1>. USE DEF KInv
<1>1. /\ cur # Idle /\ cur \in Callback /\ pc = "events"
      /\ UNCHANGED <<linger, desc, chg, loop, batch, kernel, quick>>
  BY DEF CallbackReturn, TypeOK, Quiet, Callback
<1>2. cur.fd \in Fds /\ cur.own \in BOOLEAN /\ EOF \in Codes BY <1>1 DEF Callback, Codes
<1>3. \/ Invoke(cur.fd, EOF, cur.own)
      \/ cur' = Idle /\ handler' = handler
  BY DEF CallbackReturn
<1>4. \A n \in Fds : Open(n)' <=> Open(n) BY <1>1 DEF Open, kernel
<1>5. /\ handler' \in [Fds -> [Codes -> Handler]] /\ Owned'
      /\ cur' \in Callback \cup {Idle} /\ (cur' # Idle => cur'.own \/ quick[cur'.fd])
      /\ cur' # Idle => Open(cur'.fd) /\ handler[cur'.fd][cur'.code].cb = "own"
  <2>1. CASE cur' = Idle /\ handler' = handler BY <1>4, <2>1 DEF TypeOK, Owned
  <2>2. CASE Invoke(cur.fd, EOF, cur.own)
    <3>1. /\ handler' \in [Fds -> [Codes -> Handler]]
          /\ \A m \in Fds, d \in Codes :
                handler'[m][d].cb # "stale" /\ (~Open(m) => handler'[m][d] = Blank)
          /\ cur' \in Callback /\ cur'.fd = cur.fd /\ cur'.own = cur.own
          /\ Open(cur.fd) /\ handler[cur.fd][EOF].cb = "own"
      BY <2>2, <1>2, InvokeOf
    <3>2. cur'.code = EOF BY <2>2 DEF Invoke
    <3>3. cur.own \/ quick[cur.fd] BY <1>1 DEF StaleIsQuick, ForOwn
    <3>4. Owned' BY <3>1, <1>4 DEF Owned
    <3>5. cur'.own \/ quick[cur'.fd] BY <3>1, <3>3
    <3>. QED BY <3>1, <3>2, <3>4, <3>5
  <2>. QED BY <1>3, <2>1, <2>2
<1>6. TypeOK' BY <1>1, <1>5 DEF TypeOK, Callback, loop, kernel, batch
<1>7. Quiet' BY <1>1 DEF Quiet, loop
<1>8. JobCloses' BY <1>1 DEF JobCloses
<1>9. StaleIsQuick' BY <1>1, <1>5 DEF StaleIsQuick, ForOwn, batch
<1>10. ChangesApplied' BY <1>1 DEF ChangesApplied, Closes, loop
<1>. QED BY <1>5, <1>6, <1>7, <1>8, <1>9, <1>10 DEF StartsOwn, Starts

LEMMA NextTurnKeeps ==
  ASSUME KInv, NextTurn
  PROVE  KInv'
<1>. USE DEF KInv
<1>1. /\ pc = "events" /\ cur = Idle /\ errs = <<>> /\ ready = {} /\ pc' = "jobs"
      /\ todo' \subseteq Fds
      /\ UNCHANGED <<linger, desc, handler, chg, batch, cur, kernel, quick>>
  BY DEF NextTurn, Dispatching
<1>2. TypeOK' BY <1>1 DEF TypeOK, batch, kernel
<1>3. Quiet' BY <1>1 DEF Quiet, batch
<1>4. JobCloses' /\ Owned' BY <1>1 DEF JobCloses, Owned, Open, kernel
<1>5. StaleIsQuick' BY <1>1 DEF StaleIsQuick, ForOwn, batch
<1>6. ChangesApplied' BY <1>1 DEF ChangesApplied, Closes
<1>. QED BY <1>2, <1>3, <1>4, <1>5, <1>6

(* A client's call and the end of a descriptor start no callback. *)
LEMMA CloseStartsNone ==
  ASSUME TypeOK, NEW n \in Fds, EvKQBaseFDDoClose(n)
  PROVE  StartsOwn
BY CloseItems DEF StartsOwn, Starts

LEMMA KNext == KInv /\ [Next]_vars => KInv' /\ StartsOwn
<1>. SUFFICES ASSUME KInv, [Next]_vars PROVE KInv' /\ StartsOwn OBVIOUS
<1>0. cur' = cur => StartsOwn BY DEF StartsOwn, Starts
<1>1. CASE Client
  <2>1. PICK n \in Fds : \/ EvKQBaseSocketGenericNew(n)
                         \/ EvKQBaseSocketClose(n)
                         \/ \E c \in Codes : EvKQBaseSetEvent(n, c)
    BY <1>1 DEF Client
  <2>2. CASE EvKQBaseSocketGenericNew(n)
    BY <2>2, <1>0, OpenKeeps DEF EvKQBaseSocketGenericNew
  <2>3. CASE \E c \in Codes : EvKQBaseSetEvent(n, c)
    BY <2>3, <1>0, SetEventKeeps DEF EvKQBaseSetEvent
  <2>4. CASE EvKQBaseSocketClose(n)
    <3>1. CASE CloseJobAdd(n)
      BY <2>4, <3>1, <1>0, LingerKeeps DEF EvKQBaseSocketClose, CloseJobAdd
    <3>2. CASE CloseNow(n)
      BY <3>2, CloseNowKeeps, CloseStartsNone DEF CloseNow, KInv
    <3>. QED BY <2>4, <3>1, <3>2 DEF EvKQBaseSocketClose
  <2>. QED BY <2>1, <2>2, <2>3, <2>4
<1>2. CASE \E n \in Fds : VisitCloseJob(n)
  <2>1. PICK n \in Fds : VisitCloseJob(n) BY <1>2
  <2>2. CASE WaitLoop(n) BY <2>1, <2>2, <1>0, WaitKeeps DEF WaitLoop
  <2>3. CASE EvKQBaseFDCloseJob(n)
    BY <2>1, <2>3, CloseJobKeeps, CloseStartsNone DEF EvKQBaseFDCloseJob, KInv
  <2>. QED BY <2>1, <2>2, <2>3 DEF VisitCloseJob
<1>3. CASE EvKQBaseKEventInvoke
  BY <1>3, <1>0, InvokeKEventKeeps DEF EvKQBaseKEventInvoke
<1>4. CASE KEventChange BY <1>4, <1>0, ChangeKeeps DEF KEventChange
<1>5. CASE KEventReturn BY <1>5, <1>0, ReturnKeeps DEF KEventReturn
<1>6. CASE DispatchError \/ DispatchReady BY <1>6, DispatchKeeps
<1>7. CASE CallbackReturn BY <1>7, CallbackKeeps
<1>8. CASE NextTurn BY <1>8, <1>0, NextTurnKeeps DEF NextTurn
<1>9. CASE UNCHANGED vars
  <2>1. KInv' BY <1>9 DEF vars, KInv, TypeOK, Quiet, JobCloses, Owned, Open, StaleIsQuick,
           ForOwn, ChangesApplied, Closes
  <2>2. cur' = cur BY <1>9 DEF vars
  <2>. QED BY <1>0, <2>1, <2>2
<1>. QED BY <1>1, <1>2, <1>3, <1>4, <1>5, <1>6, <1>7, <1>8, <1>9 DEF Next, Turn

-----------------------------------------------------------------------------
\* The invariant behind the results below: a close job whose wait is over finds no
\* change and no event of its descriptor, so none of them outlives the socket.
THEOREM KInvariant == Spec => []KInv
BY KInit, KNext, PTL DEF Spec

\* The descriptors, the change list and the event array keep their types through
\* every close, re-open and turn of the loop (EvKQBaseFD and the arrays of kq_base).
THEOREM KQueueTypes == Spec => []TypeOK
<1>1. KInv => TypeOK BY DEF KInv
<1>. QED BY <1>1, KInvariant, PTL

\* One loop of lingering (EvKQBaseFDCloseJobAdd) is enough: a callback runs for an event
\* of an earlier socket of its number only if that socket was closed at once.
THEOREM LingerIsEnough == Spec => []OwnEvents
<1>1. KInv => OwnEvents
  <2>. SUFFICES ASSUME KInv, cur # Idle, ~cur.own PROVE quick[cur.fd] BY DEF OwnEvents
  <2>. QED BY DEF KInv, StaleIsQuick, ForOwn
<1>. QED BY <1>1, KInvariant, PTL

\* EvKQBaseSocketClose is the last a socket's callbacks hear: none starts after it,
\* nor for the next socket with the number until it sets its own.
THEOREM ClosedIsSilent == Spec => OnlyOpenCalled
<1>1. KInv /\ [Next]_vars => [StartsOwn]_vars BY KNext
<1>2. [StartsOwn]_vars => [Starts => Open(cur'.fd) /\ handler[cur'.fd][cur'.code].cb = "own"]_vars
  BY DEF StartsOwn
<1>. QED BY <1>1, <1>2, KInvariant, PTL DEF Spec, OnlyOpenCalled

-----------------------------------------------------------------------------
(***************************************************************************)
(* Induction on natural numbers, for a set instead of a predicate.         *)
(***************************************************************************)
LEMMA LeastNat ==
  ASSUME NEW T, T \subseteq Nat, T # {}
  PROVE  \E x \in T : \A y \in T : x <= y
<1>. DEFINE R == OpToRel(<, Nat)
<1>1. IsWellFoundedOn(R, Nat)
  BY NatLessThanWellFounded
<1>2. \A x, y \in Nat : <<y, x>> \in R <=> y < x
  BY DEF OpToRel
<1>. HIDE DEF R
<1>3. PICK x \in T : \A y \in T : ~ (<<y, x>> \in R)
  BY <1>1, WFMin
<1>4. ASSUME NEW y \in T PROVE x <= y
  <2>1. x \in Nat /\ y \in Nat /\ ~ (<<y, x>> \in R)
    BY <1>3
  <2>2. ~ (y < x)
    BY <1>2, <2>1
  <2>. QED BY <2>1, <2>2
<1>. QED BY <1>4

LEMMA InductNat ==
  ASSUME NEW T, 0 \in T, \A n \in Nat : n \in T => n + 1 \in T
  PROVE  Nat \subseteq T
<1>. DEFINE U == Nat \ T
<1>. SUFFICES ASSUME U # {} PROVE FALSE
  OBVIOUS
<1>1. PICK x \in U : \A y \in U : x <= y
  BY LeastNat
<1>2. x # 0 /\ x - 1 \in Nat /\ x - 1 \in T /\ (x - 1) + 1 = x
  BY <1>1
<1>. QED BY <1>2

(***************************************************************************)
(* What kevent() does with a change list: KnoteAfter folded over it, with  *)
(* the open sockets, the state and the list as parameters.                 *)
(***************************************************************************)
After(sk, s, c) ==
    IF ~sk[c.fd] \/ (c.op \notin {"add", "oneshot"} /\ ~s.knote[c.fd][c.filter].on)
    THEN [s EXCEPT !.errs = Append(@, AsError(c))]
    ELSE [s EXCEPT !.knote[c.fd][c.filter] = Change1(@, c.op)]
AppliedTo(sk, s, q) == LET Step(x, c) == After(sk, x, c) IN FoldLeft(Step, s, q)
State == [knote : [Fds -> [Filters -> KNote]], errs : Seq(Event)]
Kernel == [knote |-> knote, errs |-> errs]

LEMMA AppliedIs == Applied = AppliedTo(sock, Kernel, chg)
BY DEF Applied, AppliedTo, KnoteAfter, Fails, After, Kernel, FoldLeft, MapThenFoldSet

\* The fold goes over the set of positions, taking the largest off first.
Iterates(F, sk, n, s, q) ==
    F = [p \in SUBSET (1 .. n) |->
            IF p = {} THEN s ELSE After(sk, F[p \ {Max(p)}], q[Max(p)])]

LEMMA MaxOfInterval ==
  ASSUME NEW n \in Nat, NEW s \in SUBSET (1 .. (n + 1)), n + 1 \in s
  PROVE  Max(s) = n + 1 /\ s \ {n + 1} \in SUBSET (1 .. n)
<1>1. \A y \in s : n + 1 >= y
  OBVIOUS
<1>2. \A x \in s : (\A y \in s : x >= y) => x = n + 1
  OBVIOUS
<1>3. Max(s) = n + 1
  BY <1>1, <1>2 DEF Max
<1>. QED BY <1>3

LEMMA IterateExists ==
  ASSUME NEW sk, NEW s, NEW q, NEW n \in Nat
  PROVE  \E F : Iterates(F, sk, n, s, q)
<1>. DEFINE T == {m \in Nat : \E F : Iterates(F, sk, m, s, q)}
<1>1. 0 \in T
  <2>1. SUBSET (1 .. 0) = {{}}
    OBVIOUS
  <2>2. Iterates([p \in SUBSET (1 .. 0) |-> s], sk, 0, s, q)
    BY <2>1 DEF Iterates
  <2>. QED BY <2>2
<1>2. ASSUME NEW m \in Nat, m \in T PROVE m + 1 \in T
  <2>1. PICK F : Iterates(F, sk, m, s, q)
    BY <1>2
  <2>. DEFINE G == [p \in SUBSET (1 .. (m + 1)) |->
                       IF m + 1 \in p THEN After(sk, F[p \ {m + 1}], q[m + 1]) ELSE F[p]]
  <2>2. ASSUME NEW p \in SUBSET (1 .. (m + 1))
        PROVE  G[p] = IF p = {} THEN s ELSE After(sk, G[p \ {Max(p)}], q[Max(p)])
    <3>1. CASE m + 1 \in p
      <4>1. Max(p) = m + 1 /\ p \ {m + 1} \in SUBSET (1 .. m)
        BY <3>1, MaxOfInterval
      <4>2. p \ {m + 1} \in SUBSET (1 .. (m + 1)) /\ m + 1 \notin p \ {m + 1}
        OBVIOUS
      <4>. QED BY <3>1, <4>1, <4>2
    <3>2. CASE m + 1 \notin p
      <4>0. \A x \in 1 .. (m + 1) : x # m + 1 => x \in 1 .. m
        OBVIOUS
      <4>1. p \in SUBSET (1 .. m) /\ p \ {Max(p)} \in SUBSET (1 .. m)
        BY <3>2, <4>0
      <4>2. p \ {Max(p)} \in SUBSET (1 .. (m + 1)) /\ m + 1 \notin p \ {Max(p)}
        BY <3>2
      <4>3. F[p] = IF p = {} THEN s ELSE After(sk, F[p \ {Max(p)}], q[Max(p)])
        BY <2>1, <4>1 DEF Iterates
      <4>. QED BY <3>2, <4>2, <4>3
    <3>. QED BY <3>1, <3>2
  <2>3. Iterates(G, sk, m + 1, s, q)
    BY <2>2 DEF Iterates
  <2>. QED BY <2>3
<1>. HIDE DEF T
<1>3. Nat \subseteq T
  BY <1>1, <1>2, InductNat
<1>. QED BY <1>3 DEF T

\* The states the kernel goes through while the list is applied.
Stages(g, sk, s, q) ==
    /\ g[0] = s
    /\ \A i \in 1 .. Len(q) : g[i] = After(sk, g[i - 1], q[i])

LEMMA StagesApply ==
  ASSUME NEW sk, NEW s, NEW q \in Seq(Change)
  PROVE  \E g : Stages(g, sk, s, q) /\ AppliedTo(sk, s, q) = g[Len(q)]
<1>. PICK n : n = Len(q)
  OBVIOUS
<1>0. n \in Nat /\ DOMAIN q = 1 .. n
  OBVIOUS
<1>1. AppliedTo(sk, s, q) = (CHOOSE F : Iterates(F, sk, n, s, q))[1 .. n]
  BY <1>0 DEF AppliedTo, FoldLeft, MapThenFoldSet, Iterates
<1>2. PICK F : Iterates(F, sk, n, s, q) /\ AppliedTo(sk, s, q) = F[1 .. n]
  BY <1>0, <1>1, IterateExists
<1>. DEFINE g == [i \in 0 .. n |-> F[1 .. i]]
<1>3. g[0] = s
  <2>1. 1 .. 0 = {} /\ {} \in SUBSET (1 .. n)
    OBVIOUS
  <2>2. F[{}] = s
    BY <1>2, <2>1 DEF Iterates
  <2>. QED BY <1>0, <2>1, <2>2
<1>4. ASSUME NEW i \in 1 .. n PROVE g[i] = After(sk, g[i - 1], q[i])
  <2>0. i - 1 \in Nat /\ (i - 1) + 1 = i /\ i \in 1 .. i
    BY <1>0
  <2>1. Max(1 .. i) = i
    BY <2>0, MaxOfInterval
  <2>2. (1 .. i) \ {i} = 1 .. (i - 1) /\ 1 .. i \in SUBSET (1 .. n) /\ 1 .. i # {}
    <3>1. \A x : x \in (1 .. i) \ {i} <=> x \in 1 .. (i - 1)
      BY <2>0
    <3>2. \A x \in 1 .. i : x \in 1 .. n
      BY <1>0
    <3>. QED BY <2>0, <3>1, <3>2
  <2>3. F[1 .. i] = After(sk, F[(1 .. i) \ {i}], q[i])
    BY <1>2, <2>1, <2>2 DEF Iterates
  <2>4. g[i] = F[1 .. i] /\ g[i - 1] = F[1 .. (i - 1)]
    BY <1>0
  <2>. QED BY <2>2, <2>3, <2>4
<1>5. g[n] = F[1 .. n]
  BY <1>0
<1>6. Stages(g, sk, s, q)
  BY <1>3, <1>4 DEF Stages
<1>. QED BY <1>2, <1>5, <1>6

LEMMA ApplyNone ==
  ASSUME NEW sk, NEW s
  PROVE  AppliedTo(sk, s, <<>>) = s
<1>1. <<>> \in Seq(Change) /\ Len(<<>>) = 0
  OBVIOUS
<1>2. PICK g : Stages(g, sk, s, <<>>) /\ AppliedTo(sk, s, <<>>) = g[Len(<<>>)]
  BY <1>1, StagesApply
<1>. QED BY <1>1, <1>2 DEF Stages

\* KEventChange: the head of the list applied, the tail still to be.
LEMMA ApplyHead ==
  ASSUME NEW sk, NEW s, NEW q \in Seq(Change), q # <<>>
  PROVE  AppliedTo(sk, After(sk, s, Head(q)), Tail(q)) = AppliedTo(sk, s, q)
<1>. PICK t, r : t = After(sk, s, Head(q)) /\ r = Tail(q)
  OBVIOUS
<1>0. /\ r \in Seq(Change) /\ Len(r) = Len(q) - 1 /\ Len(q) \in Nat \ {0} /\ Head(q) = q[1]
      /\ \A i \in 1 .. Len(r) : r[i] = q[i + 1]
  OBVIOUS
<1>1. PICK f : Stages(f, sk, s, q) /\ AppliedTo(sk, s, q) = f[Len(q)]
  BY StagesApply
<1>2. PICK g : Stages(g, sk, t, r) /\ AppliedTo(sk, t, r) = g[Len(r)]
  BY <1>0, StagesApply, ZenonT(40)
<1>. DEFINE T == {i \in Nat : i \in 0 .. Len(r) => g[i] = f[i + 1]}
<1>3. 0 \in T
  <2>1. 1 \in 1 .. Len(q) /\ 1 - 1 = 0 /\ 0 + 1 = 1
    BY <1>0
  <2>2. f[1] = After(sk, f[0], q[1]) /\ f[0] = s /\ g[0] = t
    BY <1>1, <1>2, <2>1 DEF Stages
  <2>. QED BY <1>0, <2>1, <2>2
<1>4. ASSUME NEW i \in Nat, i \in T PROVE i + 1 \in T
  <2>. SUFFICES ASSUME i + 1 \in 0 .. Len(r) PROVE g[i + 1] = f[(i + 1) + 1]
    OBVIOUS
  <2>1. /\ i \in 0 .. Len(r) /\ i + 1 \in 1 .. Len(r) /\ (i + 1) - 1 = i
        /\ (i + 1) + 1 \in 1 .. Len(q) /\ ((i + 1) + 1) - 1 = i + 1
    BY <1>0
  <2>2. g[i + 1] = After(sk, g[i], r[i + 1]) /\ r[i + 1] = q[(i + 1) + 1]
    BY <1>0, <1>2, <2>1 DEF Stages
  <2>3. f[(i + 1) + 1] = After(sk, f[i + 1], q[(i + 1) + 1])
    BY <1>1, <2>1 DEF Stages
  <2>4. g[i] = f[i + 1]
    BY <1>4, <2>1
  <2>. QED BY <2>2, <2>3, <2>4
<1>. HIDE DEF T
<1>5. Nat \subseteq T
  BY <1>3, <1>4, InductNat
<1>6. Len(r) \in Nat /\ Len(r) \in 0 .. Len(r) /\ Len(r) + 1 = Len(q)
  BY <1>0
<1>. QED BY <1>1, <1>2, <1>5, <1>6 DEF T

(***************************************************************************)
(* One change is about one filter of one descriptor: it changes that knote *)
(* or reports an error for it, and leaves every other filter as it was.    *)
(***************************************************************************)
FailsIn(sk, note, n, op) == ~sk[n] \/ (op \notin {"add", "oneshot"} /\ ~note.on)
HasErr(s, n, f) == \E i \in 1 .. Len(s.errs) : ForFilter(s.errs[i], n, f)

LEMMA OneAfter ==
  ASSUME NEW sk, NEW s \in State, NEW c \in Change, NEW n \in Fds, NEW f \in Filters
  PROVE  /\ After(sk, s, c) \in State
         /\ ~ForFilter(c, n, f) => /\ After(sk, s, c).knote[n][f] = s.knote[n][f]
                                   /\ HasErr(After(sk, s, c), n, f) = HasErr(s, n, f)
         /\ ForFilter(c, n, f) /\ FailsIn(sk, s.knote[n][f], n, c.op) =>
               /\ After(sk, s, c).knote[n][f] = s.knote[n][f]
               /\ HasErr(After(sk, s, c), n, f)
         /\ ForFilter(c, n, f) /\ ~FailsIn(sk, s.knote[n][f], n, c.op) =>
               /\ After(sk, s, c).knote[n][f] = Change1(s.knote[n][f], c.op)
               /\ HasErr(After(sk, s, c), n, f) = HasErr(s, n, f)
<1>. PICK m, g, t : m = c.fd /\ g = c.filter /\ t = After(sk, s, c)
  OBVIOUS
<1>0. /\ m \in Fds /\ g \in Filters /\ c.op \in Ops /\ c.own \in BOOLEAN
      /\ s.knote \in [Fds -> [Filters -> KNote]] /\ s.errs \in Seq(Event)
      /\ s.knote[m][g] \in KNote
  BY DEF Change, State
<1>1. CASE FailsIn(sk, s.knote[m][g], m, c.op)
  <2>. PICK e : e = AsError(c)
    OBVIOUS
  <2>1. e \in Event /\ e.fd = m /\ e.filter = g
    BY <1>0 DEF AsError, Event
  <2>2. t = [s EXCEPT !.errs = Append(@, e)]
    BY <1>1 DEF After, FailsIn
  <2>3. t.knote = s.knote /\ t.errs = Append(s.errs, e) /\ t \in State
    <3>1. Append(s.errs, e) \in Seq(Event)
      BY <1>0, <2>1
    <3>. QED BY <2>2, <3>1 DEF State
  <2>4. HasErr(t, n, f) <=> HasErr(s, n, f) \/ ForFilter(e, n, f)
    <3>1. /\ Len(t.errs) = Len(s.errs) + 1 /\ t.errs[Len(s.errs) + 1] = e
          /\ \A i \in 1 .. Len(s.errs) : t.errs[i] = s.errs[i]
      BY <1>0, <2>1, <2>3, AppendProperties
    <3>2. /\ Len(s.errs) \in Nat /\ Len(s.errs) + 1 \in 1 .. Len(t.errs)
          /\ 1 .. Len(s.errs) \subseteq 1 .. Len(t.errs)
          /\ \A i \in 1 .. Len(t.errs) : i \in 1 .. Len(s.errs) \/ i = Len(s.errs) + 1
      BY <1>0, <3>1
    <3>3. HasErr(t, n, f) => HasErr(s, n, f) \/ ForFilter(e, n, f)
      BY <3>1, <3>2 DEF HasErr
    <3>4. HasErr(s, n, f) => HasErr(t, n, f)
      BY <3>1, <3>2 DEF HasErr
    <3>5. ForFilter(e, n, f) => HasErr(t, n, f)
      BY <3>1, <3>2 DEF HasErr
    <3>. QED BY <3>3, <3>4, <3>5
  <2>5. ForFilter(e, n, f) <=> ForFilter(c, n, f)
    BY <2>1 DEF ForFilter
  <2>6. HasErr(t, n, f) \in BOOLEAN /\ HasErr(s, n, f) \in BOOLEAN
    BY DEF HasErr
  <2>7. ForFilter(c, n, f) => m = n /\ g = f
    BY DEF ForFilter
  <2>. QED BY <1>1, <2>3, <2>4, <2>5, <2>6, <2>7
<1>2. CASE ~FailsIn(sk, s.knote[m][g], m, c.op)
  <2>. PICK k : k = Change1(s.knote[m][g], c.op)
    OBVIOUS
  <2>1. k \in KNote
    BY <1>0 DEF Change1, KNote, Absent, Ops
  <2>2. t = [s EXCEPT !.knote[m][g] = k]
    BY <1>2 DEF After, FailsIn
  <2>3. /\ t.errs = s.errs /\ t.knote = [s.knote EXCEPT ![m][g] = k]
    BY <2>2 DEF State
  <2>4. t \in State
    <3>1. t.knote \in [Fds -> [Filters -> KNote]]
      BY <1>0, <2>1, <2>3
    <3>2. t = [knote |-> t.knote, errs |-> t.errs]
      BY <2>2 DEF State
    <3>. QED BY <1>0, <2>3, <3>1, <3>2 DEF State
  <2>5. t.knote[n][f] = IF m = n /\ g = f THEN k ELSE s.knote[n][f]
    BY <1>0, <2>3
  <2>6. HasErr(t, n, f) = HasErr(s, n, f)
    BY <2>3 DEF HasErr
  <2>7. ForFilter(c, n, f) <=> m = n /\ g = f
    BY DEF ForFilter
  <2>. QED BY <1>2, <2>4, <2>5, <2>6, <2>7
<1>. QED BY <1>1, <1>2

LEMMA ApplyTyped ==
  ASSUME NEW sk, NEW s \in State, NEW q \in Seq(Change)
  PROVE  AppliedTo(sk, s, q) \in State
<1>1. PICK g : Stages(g, sk, s, q) /\ AppliedTo(sk, s, q) = g[Len(q)]
  BY StagesApply
<1>. DEFINE T == {i \in Nat : i \in 0 .. Len(q) => g[i] \in State}
<1>2. 0 \in T
  BY <1>1 DEF Stages
<1>3. ASSUME NEW i \in Nat, i \in T PROVE i + 1 \in T
  <2>. SUFFICES ASSUME i + 1 \in 0 .. Len(q) PROVE g[i + 1] \in State
    OBVIOUS
  <2>1. i \in 0 .. Len(q) /\ i + 1 \in 1 .. Len(q) /\ (i + 1) - 1 = i
    OBVIOUS
  <2>. PICK x, c : x = g[i] /\ c = q[i + 1]
    OBVIOUS
  <2>2. x \in State /\ c \in Change
    BY <1>3, <2>1
  <2>3. g[i + 1] = After(sk, x, c)
    BY <1>1, <2>1 DEF Stages
  <2>4. PICK n \in Fds, f \in Filters : n = c.fd /\ f = c.filter
    BY <2>2 DEF Change
  <2>5. After(sk, x, c) \in State
    BY <2>2, OneAfter
  <2>. QED BY <2>3, <2>5
<1>. HIDE DEF T
<1>4. Nat \subseteq T
  BY <1>2, <1>3, InductNat
<1>5. Len(q) \in Nat /\ Len(q) \in 0 .. Len(q)
  OBVIOUS
<1>. QED BY <1>1, <1>4, <1>5 DEF T

(***************************************************************************)
(* A filter fares alike in two kernels that agree on it, whatever happens  *)
(* to the other filters and sockets: in two lists of one length whose      *)
(* changes for it are the same, and in a list with others' changes added.  *)
(***************************************************************************)
AlikeNote(s, t, n, f) == s.knote[n][f] = t.knote[n][f]
AlikeErr(s, t, n, f) == HasErr(s, n, f) = HasErr(t, n, f)
Alike(s, t, n, f) == AlikeNote(s, t, n, f) /\ AlikeErr(s, t, n, f)

LEMMA StepAlike ==
  ASSUME NEW sk, NEW tk, NEW n \in Fds, NEW f \in Filters, sk[n] = tk[n],
         NEW x \in State, NEW y \in State, AlikeNote(x, y, n, f),
         NEW c \in Change, NEW d \in Change,
         ForFilter(c, n, f) = ForFilter(d, n, f), ForFilter(c, n, f) => c.op = d.op
  PROVE  /\ AlikeNote(After(sk, x, c), After(tk, y, d), n, f)
         /\ AlikeErr(x, y, n, f) => AlikeErr(After(sk, x, c), After(tk, y, d), n, f)
<1>1. CASE ~ForFilter(c, n, f)
  BY <1>1, OneAfter DEF AlikeNote, AlikeErr
<1>2. CASE ForFilter(c, n, f) /\ FailsIn(sk, x.knote[n][f], n, c.op)
  <2>1. FailsIn(tk, y.knote[n][f], n, d.op)
    BY <1>2 DEF FailsIn, AlikeNote
  <2>2. /\ After(sk, x, c).knote[n][f] = x.knote[n][f]
        /\ HasErr(After(sk, x, c), n, f)
    BY <1>2, OneAfter
  <2>3. /\ After(tk, y, d).knote[n][f] = y.knote[n][f]
        /\ HasErr(After(tk, y, d), n, f)
    BY <1>2, <2>1, OneAfter
  <2>4. HasErr(After(sk, x, c), n, f) \in BOOLEAN /\ HasErr(After(tk, y, d), n, f) \in BOOLEAN
    BY DEF HasErr
  <2>. QED BY <2>2, <2>3, <2>4 DEF AlikeNote, AlikeErr
<1>3. CASE ForFilter(c, n, f) /\ ~FailsIn(sk, x.knote[n][f], n, c.op)
  <2>1. ~FailsIn(tk, y.knote[n][f], n, d.op)
    BY <1>3 DEF FailsIn, AlikeNote
  <2>2. /\ After(sk, x, c).knote[n][f] = Change1(x.knote[n][f], c.op)
        /\ HasErr(After(sk, x, c), n, f) = HasErr(x, n, f)
    BY <1>3, OneAfter
  <2>3. /\ After(tk, y, d).knote[n][f] = Change1(y.knote[n][f], d.op)
        /\ HasErr(After(tk, y, d), n, f) = HasErr(y, n, f)
    BY <1>3, <2>1, OneAfter
  <2>. QED BY <1>3, <2>2, <2>3 DEF AlikeNote, AlikeErr
<1>. QED BY <1>1, <1>2, <1>3

LEMMA ListAlike ==
  ASSUME NEW sk, NEW tk, NEW n \in Fds, NEW f \in Filters, sk[n] = tk[n],
         NEW s \in State, NEW t \in State, AlikeNote(s, t, n, f),
         NEW q \in Seq(Change), NEW r \in Seq(Change), Len(q) = Len(r),
         \A i \in 1 .. Len(q) : /\ ForFilter(q[i], n, f) = ForFilter(r[i], n, f)
                                /\ ForFilter(q[i], n, f) => q[i].op = r[i].op
  PROVE  /\ AlikeNote(AppliedTo(sk, s, q), AppliedTo(tk, t, r), n, f)
         /\ AlikeErr(s, t, n, f) => AlikeErr(AppliedTo(sk, s, q), AppliedTo(tk, t, r), n, f)
<1>1. PICK g : Stages(g, sk, s, q) /\ AppliedTo(sk, s, q) = g[Len(q)]
  BY StagesApply
<1>2. PICK h : Stages(h, tk, t, r) /\ AppliedTo(tk, t, r) = h[Len(r)]
  BY StagesApply
<1>. DEFINE T == {i \in Nat : i \in 0 .. Len(q) =>
                     /\ g[i] \in State /\ h[i] \in State /\ AlikeNote(g[i], h[i], n, f)
                     /\ AlikeErr(s, t, n, f) => AlikeErr(g[i], h[i], n, f)}
<1>3. 0 \in T
  BY <1>1, <1>2 DEF Stages
<1>4. ASSUME NEW i \in Nat, i \in T PROVE i + 1 \in T
  <2>. SUFFICES ASSUME i + 1 \in 0 .. Len(q)
                PROVE  /\ g[i + 1] \in State /\ h[i + 1] \in State
                       /\ AlikeNote(g[i + 1], h[i + 1], n, f)
                       /\ AlikeErr(s, t, n, f) => AlikeErr(g[i + 1], h[i + 1], n, f)
    OBVIOUS
  <2>1. /\ i \in 0 .. Len(q) /\ i + 1 \in 1 .. Len(q) /\ i + 1 \in 1 .. Len(r)
        /\ (i + 1) - 1 = i
    OBVIOUS
  <2>. PICK x, y, c, d : x = g[i] /\ y = h[i] /\ c = q[i + 1] /\ d = r[i + 1]
    OBVIOUS
  <2>2. /\ x \in State /\ y \in State /\ AlikeNote(x, y, n, f) /\ c \in Change /\ d \in Change
        /\ AlikeErr(s, t, n, f) => AlikeErr(x, y, n, f)
        /\ ForFilter(c, n, f) = ForFilter(d, n, f) /\ (ForFilter(c, n, f) => c.op = d.op)
    BY <1>4, <2>1
  <2>3. g[i + 1] = After(sk, x, c) /\ h[i + 1] = After(tk, y, d)
    BY <1>1, <1>2, <2>1 DEF Stages
  <2>4. After(sk, x, c) \in State /\ After(tk, y, d) \in State
    BY <2>2, OneAfter
  <2>5. /\ AlikeNote(After(sk, x, c), After(tk, y, d), n, f)
        /\ AlikeErr(x, y, n, f) => AlikeErr(After(sk, x, c), After(tk, y, d), n, f)
    BY <2>2, StepAlike
  <2>. QED BY <2>2, <2>3, <2>4, <2>5
<1>. HIDE DEF T
<1>5. Nat \subseteq T
  BY <1>3, <1>4, InductNat
<1>6. Len(q) \in Nat /\ Len(q) \in 0 .. Len(q)
  OBVIOUS
<1>. QED BY <1>1, <1>2, <1>5, <1>6 DEF T

LEMMA StagesAgree ==
  ASSUME NEW sk, NEW s, NEW q \in Seq(Change), NEW r \in Seq(Change), NEW g, NEW h,
         Stages(g, sk, s, q), Stages(h, sk, s, r), Len(q) <= Len(r),
         \A i \in 1 .. Len(q) : q[i] = r[i]
  PROVE  \A i \in 0 .. Len(q) : g[i] = h[i]
<1>. DEFINE T == {i \in Nat : i \in 0 .. Len(q) => g[i] = h[i]}
<1>0. Len(q) \in Nat /\ Len(r) \in Nat
  OBVIOUS
<1>1. 0 \in T
  BY DEF Stages
<1>2. ASSUME NEW i \in Nat, i \in T PROVE i + 1 \in T
  <2>. SUFFICES ASSUME i + 1 \in 0 .. Len(q) PROVE g[i + 1] = h[i + 1]
    OBVIOUS
  <2>1. i \in 0 .. Len(q) /\ i + 1 \in 1 .. Len(q) /\ i + 1 \in 1 .. Len(r) /\ (i + 1) - 1 = i
    BY <1>0
  <2>2. g[i] = h[i]
    BY <1>2, <2>1
  <2>3. g[i + 1] = After(sk, g[i], q[i + 1]) /\ h[i + 1] = After(sk, h[i], r[i + 1])
    BY <2>1 DEF Stages
  <2>. QED BY <2>1, <2>2, <2>3
<1>. HIDE DEF T
<1>3. Nat \subseteq T
  BY <1>1, <1>2, InductNat
<1>4. ASSUME NEW i \in 0 .. Len(q) PROVE g[i] = h[i]
  <2>1. i \in T
    BY <1>0, <1>3
  <2>. QED BY <2>1 DEF T
<1>. QED BY <1>4

LEMMA LongerAlike ==
  ASSUME NEW sk, NEW s \in State, NEW n \in Fds, NEW f \in Filters,
         NEW q \in Seq(Change), NEW r \in Seq(Change), Len(q) <= Len(r),
         \A i \in 1 .. Len(q) : r[i] = q[i],
         \A i \in 1 .. Len(r) : i > Len(q) => ~ForFilter(r[i], n, f)
  PROVE  Alike(AppliedTo(sk, s, q), AppliedTo(sk, s, r), n, f)
<1>. PICK l : l = Len(q)
  OBVIOUS
<1>0. l \in Nat /\ Len(r) \in Nat /\ l \in 0 .. l
  OBVIOUS
<1>1. PICK g : Stages(g, sk, s, q) /\ AppliedTo(sk, s, q) = g[l]
  BY StagesApply
<1>2. PICK h : Stages(h, sk, s, r) /\ AppliedTo(sk, s, r) = h[Len(r)]
  BY StagesApply
<1>3. g[l] = h[l] /\ g[l] \in State
  BY <1>0, <1>1, <1>2, StagesAgree, ApplyTyped
<1>. DEFINE T == {i \in Nat : l + i <= Len(r) =>
                     h[l + i] \in State /\ Alike(g[l], h[l + i], n, f)}
<1>4. 0 \in T
  BY <1>0, <1>3 DEF Alike, AlikeNote, AlikeErr
<1>5. ASSUME NEW i \in Nat, i \in T PROVE i + 1 \in T
  <2>. SUFFICES ASSUME l + (i + 1) <= Len(r)
                PROVE  h[l + (i + 1)] \in State /\ Alike(g[l], h[l + (i + 1)], n, f)
    OBVIOUS
  <2>. PICK j : j = l + i
    OBVIOUS
  <2>1. /\ j <= Len(r) /\ j + 1 \in 1 .. Len(r) /\ (j + 1) - 1 = j /\ j + 1 > l
        /\ l + (i + 1) = j + 1
    BY <1>0
  <2>. PICK x, c : x = h[j] /\ c = r[j + 1]
    OBVIOUS
  <2>2. x \in State /\ Alike(g[l], x, n, f)
    BY <1>5, <2>1
  <2>3. c \in Change /\ ~ForFilter(c, n, f) /\ h[j + 1] = After(sk, x, c)
    BY <1>2, <2>1 DEF Stages
  <2>4. After(sk, x, c) \in State /\ Alike(x, After(sk, x, c), n, f)
    BY <2>2, <2>3, OneAfter DEF Alike, AlikeNote, AlikeErr
  <2>. QED BY <2>1, <2>2, <2>3, <2>4 DEF Alike, AlikeNote, AlikeErr
<1>. HIDE DEF T
<1>6. Nat \subseteq T
  BY <1>4, <1>5, InductNat
<1>7. Len(r) - l \in Nat /\ l + (Len(r) - l) = Len(r)
  BY <1>0
<1>8. Alike(g[l], h[Len(r)], n, f)
  <2>. PICK i : i = Len(r) - l
    OBVIOUS
  <2>1. i \in T /\ l + i = Len(r)
    BY <1>6, <1>7
  <2>2. Alike(g[l], h[l + i], n, f)
    BY <1>0, <2>1 DEF T
  <2>. QED BY <2>1, <2>2
<1>. QED BY <1>1, <1>2, <1>8

\* EnqueueEvChg appends: the change applies to what the list leaves.
LEMMA ApplyOneMore ==
  ASSUME NEW sk, NEW s, NEW q \in Seq(Change), NEW r \in Seq(Change), NEW c,
         Len(r) = Len(q) + 1, r[Len(q) + 1] = c, \A i \in 1 .. Len(q) : r[i] = q[i]
  PROVE  AppliedTo(sk, s, r) = After(sk, AppliedTo(sk, s, q), c)
<1>1. PICK g : Stages(g, sk, s, q) /\ AppliedTo(sk, s, q) = g[Len(q)]
  BY StagesApply
<1>2. PICK h : Stages(h, sk, s, r) /\ AppliedTo(sk, s, r) = h[Len(r)]
  BY StagesApply
<1>3. Len(q) \in Nat /\ Len(q) <= Len(r) /\ Len(q) \in 0 .. Len(q)
  OBVIOUS
<1>4. \A i \in 0 .. Len(q) : g[i] = h[i]
  <2>1. Stages(g, sk, s, q) /\ Stages(h, sk, s, r) /\ Len(q) <= Len(r)
    BY <1>1, <1>2, <1>3
  <2>2. \A i \in 1 .. Len(q) : q[i] = r[i]
    OBVIOUS
  <2>. QED BY <2>1, <2>2, StagesAgree
<1>5. h[Len(r)] = After(sk, h[Len(q)], c)
  <2>1. Len(r) \in 1 .. Len(r) /\ Len(r) - 1 = Len(q)
    BY <1>3
  <2>. QED BY <2>1, <1>2 DEF Stages
<1>. QED BY <1>1, <1>2, <1>3, <1>4, <1>5

LEMMA ApplyAppend ==
  ASSUME NEW sk, NEW s, NEW q \in Seq(Change), NEW c \in Change
  PROVE  AppliedTo(sk, s, Append(q, c)) = After(sk, AppliedTo(sk, s, q), c)
<1>1. /\ Append(q, c) \in Seq(Change) /\ Len(Append(q, c)) = Len(q) + 1
      /\ Append(q, c)[Len(q) + 1] = c
      /\ \A i \in 1 .. Len(q) : Append(q, c)[i] = q[i]
  BY AppendProperties
<1>2. ASSUME NEW r \in Seq(Change), Len(r) = Len(q) + 1, r[Len(q) + 1] = c,
             \A i \in 1 .. Len(q) : r[i] = q[i]
      PROVE  AppliedTo(sk, s, r) = After(sk, AppliedTo(sk, s, q), c)
  BY <1>2, ApplyOneMore
<1>. QED BY <1>1, <1>2, Zenon

-----------------------------------------------------------------------------
(***************************************************************************)
(* The inductive invariant of Heard.  An event is not the last one of a    *)
(* persistent handler only because the kernel still has its knote: that    *)
(* the change list leaves such a knote, neither one-shot nor enabled       *)
(* otherwise than the handler, is what Heard alone does not say.  An       *)
(* open socket is not marked closed, so its events are not dropped.        *)
(***************************************************************************)
Kept(x, n, f) ==
    Open(n) /\ handler[n][f].cb # "none" /\ handler[n][f].persist =>
        /\ x.knote[n][f].on /\ ~x.knote[n][f].oneshot
        /\ x.knote[n][f].enabled = handler[n][f].enabled
OnItsWay(n, f) == \E e \in ready : ForFilter(e, n, f)
HeardOf(x, n, f) ==
    Open(n) /\ Calls(n, f) => x.knote[n][f].enabled \/ HasErr(x, n, f) \/ OnItsWay(n, f)
NotClosed == \A n \in Fds : sock[n] => ~desc[n].closed
AllHeard == \A n \in Fds, f \in Filters : Kept(Applied, n, f) /\ HeardOf(Applied, n, f)
HInv == KInv /\ NotClosed /\ AllHeard

LEMMA AppliedNext == Applied' = AppliedTo(sock', Kernel', chg')
BY DEF Applied, AppliedTo, KnoteAfter, Fails, After, Kernel, FoldLeft, MapThenFoldSet

LEMMA KernelTyped ==
  ASSUME TypeOK
  PROVE  Kernel \in State /\ Applied \in State /\ chg \in Seq(Change)
<1>1. Kernel \in State /\ chg \in Seq(Change)
  BY DEF TypeOK, Kernel, State
<1>. QED BY <1>1, AppliedIs, ApplyTyped

LEMMA FilterKinds ==
  /\ EOF \notin Filters /\ Filters \subseteq Codes /\ EOF \in Codes
  /\ Blank.cb = "none"
BY KQueueAssumption DEF READ, WRITE, EOF, Codes, Blank

\* A filter the step does not concern.
LEMMA StaysHeard ==
  ASSUME NEW n \in Fds, NEW f \in Filters, Kept(Applied, n, f), HeardOf(Applied, n, f),
         handler'[n][f] = handler[n][f], Open(n)' => Open(n),
         Alike(Applied, Applied', n, f), OnItsWay(n, f) => OnItsWay(n, f)'
  PROVE  Kept(Applied, n, f)' /\ HeardOf(Applied, n, f)'
<1>1. Kept(Applied, n, f)'
  BY DEF Kept, Alike, AlikeNote
<1>2. HeardOf(Applied, n, f)'
  <2>1. Calls(n, f)' = Calls(n, f)
    BY DEF Calls
  <2>2. HasErr(Applied, n, f)' = HasErr(Applied, n, f)
    BY DEF Alike, AlikeErr, HasErr
  <2>. QED BY <2>1, <2>2 DEF HeardOf, Alike, AlikeNote
<1>. QED BY <1>1, <1>2

\* Steps that leave the kernel, the changes and the events alone.
LEMMA SilentHeard ==
  ASSUME AllHeard, UNCHANGED <<chg, errs, ready, sock, knote>>,
         \A n \in Fds, f \in Filters : handler'[n][f] = handler[n][f],
         \A n \in Fds : Open(n)' => Open(n)
  PROVE  AllHeard'
<1>1. Applied' = Applied
  BY AppliedIs, AppliedNext DEF Kernel
<1>2. ASSUME NEW n \in Fds, NEW f \in Filters
      PROVE  Kept(Applied, n, f)' /\ HeardOf(Applied, n, f)'
  <2>1. Alike(Applied, Applied', n, f)
    BY <1>1 DEF Alike, AlikeNote, AlikeErr
  <2>2. OnItsWay(n, f) => OnItsWay(n, f)'
    BY DEF OnItsWay
  <2>. QED BY <2>1, <2>2, StaysHeard DEF AllHeard
<1>. QED BY <1>2 DEF AllHeard

\* The client or a close adds changes for one descriptor: other filters stay as they are.
LEMMA AddedAlike ==
  ASSUME TypeOK, NEW z \in Seq(Change), chg' = chg \o z, UNCHANGED <<errs, sock, knote>>,
         NEW n \in Fds, NEW f \in Filters, \A i \in 1 .. Len(z) : ~ForFilter(z[i], n, f)
  PROVE  Alike(Applied, Applied', n, f)
<1>. PICK r : r = chg \o z
  OBVIOUS
<1>1. /\ r \in Seq(Change) /\ Len(r) = Len(chg) + Len(z) /\ Len(chg) \in Nat /\ Len(z) \in Nat
      /\ \A i \in 1 .. Len(r) : r[i] = IF i <= Len(chg) THEN chg[i] ELSE z[i - Len(chg)]
  BY KernelTyped
<1>2. \A i \in 1 .. Len(chg) : r[i] = chg[i]
  BY <1>1
<1>3. ASSUME NEW i \in 1 .. Len(r), i > Len(chg) PROVE ~ForFilter(r[i], n, f)
  <2>1. i - Len(chg) \in 1 .. Len(z) /\ ~(i <= Len(chg))
    BY <1>1, <1>3
  <2>2. r[i] = z[i - Len(chg)]
    BY <1>1, <2>1
  <2>. QED BY <2>1, <2>2
<1>4. Alike(AppliedTo(sock, Kernel, chg), AppliedTo(sock, Kernel, r), n, f)
  <2>1. chg \in Seq(Change) /\ Kernel \in State /\ Len(chg) <= Len(r)
    BY <1>1, KernelTyped
  <2>. QED BY <1>1, <1>2, <1>3, <2>1, LongerAlike
<1>5. AppliedTo(sock', Kernel', chg') = AppliedTo(sock, Kernel, r)
  BY DEF Kernel
<1>. QED BY <1>4, <1>5, AppliedIs, AppliedNext

(* EvKQBaseSocketGenericNew: no handler of the number is set. *)
LEMMA OpenHeard ==
  ASSUME KInv, AllHeard, KInv', NEW m \in Fds, EvKQBaseSocketGenericNew(m)
  PROVE  AllHeard'
<1>1. /\ ~sock[m] /\ sock' = [sock EXCEPT ![m] = TRUE]
      /\ desc' = [desc EXCEPT ![m] = [Flags0 EXCEPT !.active = TRUE]]
      /\ UNCHANGED <<handler, chg, errs, ready, knote>>
  BY DEF EvKQBaseSocketGenericNew, batch
<1>2. TypeOK /\ Owned /\ sock \in [Fds -> BOOLEAN] /\ desc \in [Fds -> Desc]
  BY DEF KInv, TypeOK
<1>3. ASSUME NEW n \in Fds, NEW f \in Filters
      PROVE  Kept(Applied, n, f)' /\ HeardOf(Applied, n, f)'
  <2>1. CASE n = m
    <3>1. handler'[n][f].cb = "none"
      BY <1>1, <1>2, <2>1, FilterKinds DEF Owned, Open
    <3>. QED BY <3>1 DEF Kept, HeardOf, Calls
  <2>2. CASE n # m
    <3>1. sock'[n] = sock[n] /\ desc'[n] = desc[n]
      BY <1>1, <1>2, <2>2
    <3>2. Alike(AppliedTo(sock, Kernel, chg), AppliedTo(sock', Kernel, chg), n, f)
      <4>1. AlikeNote(Kernel, Kernel, n, f) /\ AlikeErr(Kernel, Kernel, n, f)
        BY DEF AlikeNote, AlikeErr
      <4>2. Kernel \in State /\ chg \in Seq(Change)
        BY <1>2, KernelTyped
      <4>. QED BY <3>1, <4>1, <4>2, ListAlike DEF Alike
    <3>3. Kernel' = Kernel /\ chg' = chg
      BY <1>1 DEF Kernel
    <3>4. Alike(Applied, Applied', n, f)
      BY <3>2, <3>3, AppliedIs, AppliedNext
    <3>5. Open(n)' = Open(n) /\ handler'[n][f] = handler[n][f] /\ OnItsWay(n, f)' = OnItsWay(n, f)
      BY <1>1, <3>1 DEF Open, OnItsWay
    <3>. QED BY <3>4, <3>5, StaysHeard DEF AllHeard
  <2>. QED BY <2>1, <2>2
<1>. QED BY <1>3 DEF AllHeard

(* EvKQBaseFDCloseJobAdd: what is added is about the socket that closes. *)
LEMMA LingerHeard ==
  ASSUME KInv, AllHeard, NEW m \in Fds, CloseJobAdd(m)
  PROVE  AllHeard'
<1>1. /\ desc' = [desc EXCEPT ![m].closing = TRUE, ![m].job = LoopsToClose]
      /\ handler' = [handler EXCEPT ![m] = Cleared(handler[m])]
      /\ chg' = chg \o ClearChg(m) /\ UNCHANGED <<errs, ready, sock, knote>>
  BY DEF CloseJobAdd, batch, kernel
<1>2. /\ TypeOK /\ desc \in [Fds -> Desc] /\ handler \in [Fds -> [Codes -> Handler]]
  BY DEF KInv, TypeOK
<1>3. ASSUME NEW n \in Fds, NEW f \in Filters
      PROVE  Kept(Applied, n, f)' /\ HeardOf(Applied, n, f)'
  <2>1. CASE n = m
    <3>1. desc'[m].closing
      BY <1>1, <1>2 DEF Desc
    <3>. QED BY <2>1, <3>1 DEF Kept, HeardOf, Open
  <2>2. CASE n # m
    <3>. PICK z : z = ClearChg(m)
      OBVIOUS
    <3>1. z \in Seq(Change) /\ \A i \in 1 .. Len(z) : ~ForFilter(z[i], n, f)
      BY <1>2, <2>2, ClearOf DEF ForFilter
    <3>2. Alike(Applied, Applied', n, f)
      BY <1>1, <1>2, <3>1, AddedAlike
    <3>3. desc'[n] = desc[n] /\ handler'[n] = handler[n]
      BY <1>1, <1>2, <2>2
    <3>4. Open(n)' = Open(n) /\ OnItsWay(n, f)' = OnItsWay(n, f)
      BY <1>1, <3>3 DEF Open, OnItsWay
    <3>. QED BY <3>2, <3>3, <3>4, StaysHeard DEF AllHeard
  <2>. QED BY <2>1, <2>2
<1>. QED BY <1>3 DEF AllHeard

(* EvKQBaseFDDoClose: what is left of the socket is dead, the others' is untouched. *)
LEMMA CloseHeard ==
  ASSUME KInv, AllHeard, KInv', NEW m \in Fds, EvKQBaseFDDoClose(m)
  PROVE  AllHeard'
<1>1. /\ sock' = [sock EXCEPT ![m] = FALSE]
      /\ knote' = [knote EXCEPT ![m] = [f \in Filters |-> Absent]]
      /\ errs' = AllDead(m, errs) /\ ready' = {Dead(m, e) : e \in ready}
      /\ handler' = [handler EXCEPT ![m] = Cleared(Orphans(m))]
      /\ chg' = AllDead(m, chg \o ClearChg(m))
      /\ desc' = [desc EXCEPT ![m] = [Flags0 EXCEPT !.closed = TRUE]]
  BY DEF EvKQBaseFDDoClose, CloseFd
<1>2. /\ TypeOK /\ desc \in [Fds -> Desc] /\ handler \in [Fds -> [Codes -> Handler]]
      /\ sock \in [Fds -> BOOLEAN] /\ knote \in [Fds -> [Filters -> KNote]]
      /\ errs \in Seq(Event) /\ ready \subseteq Event /\ chg \in Seq(Change)
  BY DEF KInv, TypeOK
<1>. PICK z : z = ClearChg(m)
  OBVIOUS
<1>3. /\ z \in Seq(Change) /\ \A i \in 1 .. Len(z) : z[i].fd = m
  BY <1>2, ClearOf
<1>4. PICK r \in Seq(Change) :
         /\ chg' = AllDead(m, r) /\ Len(r) = Len(chg) + Len(z)
         /\ Len(chg) \in Nat /\ Len(z) \in Nat
         /\ \A i \in 1 .. Len(r) : r[i] = IF i <= Len(chg) THEN chg[i] ELSE z[i - Len(chg)]
  <2>. DEFINE a == chg \o z
  <2>1. /\ a \in Seq(Change) /\ Len(a) = Len(chg) + Len(z)
        /\ Len(chg) \in Nat /\ Len(z) \in Nat
        /\ \A i \in 1 .. Len(a) : a[i] = IF i <= Len(chg) THEN chg[i] ELSE z[i - Len(chg)]
    BY <1>2, <1>3
  <2>2. chg' = AllDead(m, a)
    BY <1>1
  <2>. HIDE DEF a
  <2>. QED BY <2>1, <2>2
<1>. PICK d : d = AllDead(m, r)
  OBVIOUS
<1>5. /\ d \in Seq(Change) /\ Len(d) = Len(r) /\ chg' = d
      /\ \A i \in 1 .. Len(r) : d[i].fd = r[i].fd /\ (r[i].fd # m => d[i] = r[i])
  <2>1. r \in Seq(Change) /\ chg' = d
    BY <1>4
  <2>. QED BY <2>1, DeadOf
<1>6. ASSUME NEW n \in Fds, NEW f \in Filters
      PROVE  Kept(Applied, n, f)' /\ HeardOf(Applied, n, f)'
  <2>1. CASE n = m
    <3>1. sock'[m] = FALSE
      BY <1>1, <1>2
    <3>. QED BY <2>1, <3>1 DEF Kept, HeardOf, Open
  <2>2. CASE n # m
    <3>1. /\ sock'[n] = sock[n] /\ desc'[n] = desc[n] /\ handler'[n] = handler[n]
          /\ knote'[n] = knote[n]
      BY <1>1, <1>2, <2>2
    <3>2. Alike(AppliedTo(sock, Kernel, chg), AppliedTo(sock, Kernel, r), n, f)
      <4>1. \A i \in 1 .. Len(chg) : r[i] = chg[i]
        BY <1>4
      <4>2. ASSUME NEW i \in 1 .. Len(r), i > Len(chg) PROVE ~ForFilter(r[i], n, f)
        <5>1. i - Len(chg) \in 1 .. Len(z) /\ ~(i <= Len(chg))
          BY <1>4, <4>2
        <5>2. r[i].fd = m
          BY <1>3, <1>4, <5>1
        <5>. QED BY <2>2, <5>2 DEF ForFilter
      <4>3. Len(chg) <= Len(r) /\ Kernel \in State
        BY <1>2, <1>4, KernelTyped
      <4>. QED BY <1>2, <1>4, <4>1, <4>2, <4>3, LongerAlike
    <3>3. AlikeNote(Kernel, Kernel', n, f) /\ AlikeErr(Kernel, Kernel', n, f)
      <4>. PICK g : g = AllDead(m, errs)
        OBVIOUS
      <4>1. /\ Len(g) = Len(errs) /\ errs' = g
            /\ \A i \in 1 .. Len(errs) : g[i].fd = errs[i].fd
                                         /\ (errs[i].fd # m => g[i] = errs[i])
        BY <1>1, <1>2, DeadOf
      <4>2. \A i \in 1 .. Len(errs) : ForFilter(g[i], n, f) <=> ForFilter(errs[i], n, f)
        BY <2>2, <4>1 DEF ForFilter
      <4>3. HasErr(Kernel, n, f) <=> HasErr(Kernel', n, f)
        BY <4>1, <4>2 DEF HasErr, Kernel
      <4>4. HasErr(Kernel, n, f) \in BOOLEAN /\ HasErr(Kernel', n, f) \in BOOLEAN
        BY DEF HasErr
      <4>. QED BY <3>1, <4>3, <4>4 DEF AlikeNote, AlikeErr, Kernel
    <3>4. \A i \in 1 .. Len(r) : /\ ForFilter(r[i], n, f) = ForFilter(d[i], n, f)
                                 /\ ForFilter(r[i], n, f) => r[i].op = d[i].op
      BY <1>5, <2>2 DEF ForFilter
    <3>5. Alike(AppliedTo(sock, Kernel, r), AppliedTo(sock', Kernel', d), n, f)
      <4>. PICK s, t, sk, tk : s = Kernel /\ t = Kernel' /\ sk = sock /\ tk = sock'
        OBVIOUS
      <4>1. s \in State /\ t \in State /\ sk[n] = tk[n]
        BY <1>2, <3>1, KernelTyped DEF KInv, TypeOK, Kernel, State
      <4>2. AlikeNote(s, t, n, f) /\ AlikeErr(s, t, n, f)
        BY <3>3
      <4>3. /\ AlikeNote(AppliedTo(sk, s, r), AppliedTo(tk, t, d), n, f)
            /\ AlikeErr(AppliedTo(sk, s, r), AppliedTo(tk, t, d), n, f)
        BY <1>4, <1>5, <3>4, <4>1, <4>2, ListAlike
      <4>. QED BY <4>3 DEF Alike
    <3>6. Alike(Applied, Applied', n, f)
      BY <1>5, <3>2, <3>5, AppliedIs, AppliedNext DEF Alike, AlikeNote, AlikeErr
    <3>7. OnItsWay(n, f) => OnItsWay(n, f)'
      <4>1. ASSUME NEW e \in ready, ForFilter(e, n, f) PROVE e \in ready'
        <5>1. Dead(m, e) = e
          BY <1>2, <2>2, <4>1, DeadEvent DEF ForFilter
        <5>. QED BY <1>1, <5>1
      <4>. QED BY <4>1 DEF OnItsWay
    <3>8. Open(n)' = Open(n)
      BY <3>1 DEF Open
    <3>. QED BY <3>1, <3>6, <3>7, <3>8, StaysHeard DEF AllHeard
  <2>. QED BY <2>1, <2>2
<1>. QED BY <1>6 DEF AllHeard

(* EvKQBaseSetEvent. *)
LEMMA SetEventHeard ==
  ASSUME KInv, AllHeard, NEW m \in Fds, NEW c \in Codes, EvKQBaseSetEvent(m, c)
  PROVE  AllHeard'
<1>1. Open(m) /\ sock[m] /\ UNCHANGED <<desc, errs, ready, sock, knote>>
  BY DEF EvKQBaseSetEvent, Open, batch, kernel
<1>2. /\ TypeOK /\ handler \in [Fds -> [Codes -> Handler]] /\ chg \in Seq(Change)
  BY DEF KInv, TypeOK
<1>3. ASSUME NEW z \in Seq(Change), \A i \in 1 .. Len(z) : z[i].fd = m /\ z[i].filter = c,
             chg' = chg \o z, NEW h \in Handler, handler' = [handler EXCEPT ![m][c] = h],
             c \in Filters => Kept(Applied, m, c)' /\ HeardOf(Applied, m, c)'
      PROVE  AllHeard'
  <2>1. ASSUME NEW n \in Fds, NEW f \in Filters
        PROVE  Kept(Applied, n, f)' /\ HeardOf(Applied, n, f)'
    <3>1. CASE n = m /\ f = c
      BY <1>3, <3>1
    <3>2. CASE n # m \/ f # c
      <4>1. \A i \in 1 .. Len(z) : ~ForFilter(z[i], n, f)
        BY <1>3, <3>2 DEF ForFilter
      <4>2. Alike(Applied, Applied', n, f)
        BY <1>1, <1>2, <1>3, <4>1, AddedAlike
      <4>3. handler'[n][f] = handler[n][f]
        BY <1>2, <1>3, <3>2, FilterKinds
      <4>4. Open(n)' = Open(n) /\ OnItsWay(n, f)' = OnItsWay(n, f)
        BY <1>1 DEF Open, OnItsWay
      <4>. QED BY <4>2, <4>3, <4>4, StaysHeard DEF AllHeard
    <3>. QED BY <3>1, <3>2
  <2>. QED BY <2>1 DEF AllHeard
\* What one more change does to the filter it is for.
<1>4. ASSUME NEW op \in Ops, chg' = chg \o EnqueueEvChg(m, c, op), c \in Filters
      PROVE  /\ op \in {"add", "oneshot"} => Applied'.knote[m][c] = Change1(Applied.knote[m][c], op)
             /\ Applied.knote[m][c].on => Applied'.knote[m][c] = Change1(Applied.knote[m][c], op)
             /\ op \notin {"add", "oneshot"} /\ ~Applied.knote[m][c].on => HasErr(Applied', m, c)
  <2>. PICK e : e = [fd |-> m, filter |-> c, op |-> op, own |-> sock[m]]
    OBVIOUS
  <2>1. EnqueueEvChg(m, c, op) = <<e>> /\ e \in Change /\ e.fd = m /\ e.filter = c /\ e.op = op
    <3>1. c # EOF /\ sock[m] \in BOOLEAN
      BY <1>2, <1>4, FilterKinds DEF TypeOK
    <3>2. e \in Change
      BY <1>4, <3>1 DEF Change
    <3>. QED BY <3>1, <3>2 DEF EnqueueEvChg
  <2>2. chg' = Append(chg, e)
    BY <1>2, <1>4, <2>1
  <2>3. AppliedTo(sock, Kernel, Append(chg, e)) = After(sock, AppliedTo(sock, Kernel, chg), e)
    BY <1>2, <2>1, ApplyAppend
  <2>4. Applied' = After(sock, Applied, e)
    <3>1. AppliedTo(sock', Kernel', chg') = AppliedTo(sock, Kernel, Append(chg, e))
      BY <1>1, <2>2 DEF Kernel
    <3>. QED BY <2>3, <3>1, AppliedIs, AppliedNext
  <2>5. Applied \in State /\ ForFilter(e, m, c)
    BY <1>2, <2>1, KernelTyped DEF ForFilter
  <2>6. FailsIn(sock, Applied.knote[m][c], m, e.op)
           <=> op \notin {"add", "oneshot"} /\ ~Applied.knote[m][c].on
    BY <1>1, <2>1 DEF FailsIn
  <2>. QED BY <1>4, <2>1, <2>4, <2>5, <2>6, OneAfter
<1>5. ASSUME NEW op \in Ops
      PROVE  /\ EnqueueEvChg(m, c, op) \in Seq(Change)
             /\ \A i \in 1 .. Len(EnqueueEvChg(m, c, op)) :
                   EnqueueEvChg(m, c, op)[i].fd = m /\ EnqueueEvChg(m, c, op)[i].filter = c
  <2>1. EnqueueEvChg(m, c, op) \in Seq(Change)
    BY <1>2, EnqueueOf
  <2>2. CASE c = EOF
    BY <2>1, <2>2 DEF EnqueueEvChg
  <2>3. CASE c # EOF
    <3>. PICK e : e = [fd |-> m, filter |-> c, op |-> op, own |-> sock[m]]
      OBVIOUS
    <3>1. EnqueueEvChg(m, c, op) = <<e>> /\ e.fd = m /\ e.filter = c
      BY <2>3 DEF EnqueueEvChg
    <3>. QED BY <2>1, <3>1
  <2>. QED BY <2>2, <2>3
<1>6. ASSUME NEW persist \in BOOLEAN, Add(m, c, persist) PROVE AllHeard'
  <2>. PICK op : op = IF persist THEN "add" ELSE "oneshot"
    OBVIOUS
  <2>. PICK z : z = EnqueueEvChg(m, c, op)
    OBVIOUS
  <2>. PICK h : h = [cb |-> "own", enabled |-> TRUE, persist |-> persist]
    OBVIOUS
  <2>1. op \in Ops /\ op \in {"add", "oneshot"} /\ (op = "oneshot" <=> ~persist)
    BY DEF Ops
  <2>2. /\ chg' = chg \o z /\ handler' = [handler EXCEPT ![m][c] = h] /\ h \in Handler
        /\ h.persist = persist /\ h.enabled = TRUE
    BY <1>6 DEF Add, EventSet, AddChg, Handler
  <2>3. handler'[m][c] = h
    BY <1>2, <2>2
  <2>4. ASSUME c \in Filters PROVE Kept(Applied, m, c)' /\ HeardOf(Applied, m, c)'
    <3>1. Applied'.knote[m][c] = Change1(Applied.knote[m][c], op)
      BY <1>4, <2>1, <2>2, <2>4
    <3>2. Change1(Applied.knote[m][c], op)
             = [on |-> TRUE, oneshot |-> (op = "oneshot"), enabled |-> TRUE]
      BY <2>1 DEF Change1
    <3>3. /\ Applied'.knote[m][c].on /\ Applied'.knote[m][c].enabled = TRUE
          /\ Applied'.knote[m][c].oneshot = (op = "oneshot")
      BY <3>1, <3>2
    <3>. QED BY <2>1, <2>2, <2>3, <3>3 DEF Kept, HeardOf
  <2>. QED BY <1>3, <1>5, <2>1, <2>2, <2>4
<1>7. CASE Delete(m, c)
  <2>. PICK z : z = DeleteChg(m, c)
    OBVIOUS
  <2>1. z \in Seq(Change) /\ \A i \in 1 .. Len(z) : z[i].fd = m /\ z[i].filter = c
    BY <1>5 DEF DeleteChg, Ops
  <2>2. /\ chg' = chg \o z /\ handler' = [handler EXCEPT ![m][c] = Blank] /\ Blank \in Handler
    BY <1>7 DEF Delete, Blank, Handler
  <2>3. handler'[m][c].cb = "none"
    BY <1>2, <2>2, FilterKinds
  <2>4. Kept(Applied, m, c)' /\ HeardOf(Applied, m, c)'
    BY <2>3 DEF Kept, HeardOf, Calls
  <2>. QED BY <1>3, <2>1, <2>2, <2>4
<1>8. ASSUME NEW on \in BOOLEAN, Toggle(m, c, on) PROVE AllHeard'
  <2>. PICK op : op = IF on THEN "enable" ELSE "disable"
    OBVIOUS
  <2>. PICK z : z = EnqueueEvChg(m, c, op)
    OBVIOUS
  <2>. PICK h : h = [handler[m][c] EXCEPT !.enabled = on]
    OBVIOUS
  <2>1. op \in Ops /\ op \notin {"add", "oneshot", "delete"} /\ (op = "enable") = on
        /\ op \in {"enable", "disable"}
    BY DEF Ops
  <2>2. /\ chg' = chg \o z /\ handler' = [handler EXCEPT ![m][c] = h] /\ h \in Handler
        /\ h.persist = handler[m][c].persist /\ h.enabled = on /\ h.cb = handler[m][c].cb
    <3>1. handler[m][c] \in Handler
      BY <1>2
    <3>. QED BY <1>2, <1>8, <3>1 DEF Toggle, Handler
  <2>3. handler'[m][c] = h
    BY <1>2, <2>2
  <2>4. ASSUME c \in Filters PROVE Kept(Applied, m, c)' /\ HeardOf(Applied, m, c)'
    <3>1. CASE Applied.knote[m][c].on
      <4>. PICK k : k = Applied.knote[m][c]
        OBVIOUS
      <4>1. k \in KNote
        BY <1>2, <2>4, KernelTyped DEF State
      <4>2. Applied'.knote[m][c] = [k EXCEPT !.enabled = on]
        BY <1>4, <2>1, <2>2, <2>4, <3>1 DEF Change1
      <4>3. /\ Applied'.knote[m][c].on = k.on /\ Applied'.knote[m][c].enabled = on
            /\ Applied'.knote[m][c].oneshot = k.oneshot
        BY <4>1, <4>2 DEF KNote
      <4>4. Kept(Applied, m, c)
        BY <2>4 DEF AllHeard
      <4>5. Kept(Applied, m, c)'
        BY <1>1, <2>2, <2>3, <4>3, <4>4 DEF Kept
      <4>. QED BY <2>2, <2>3, <4>3, <4>5 DEF HeardOf, Calls
    <3>2. CASE ~Applied.knote[m][c].on
      <4>1. HasErr(Applied', m, c)
        BY <1>4, <2>1, <2>2, <2>4, <3>2
      <4>2. ~(handler[m][c].cb # "none" /\ handler[m][c].persist)
        BY <1>1, <2>4, <3>2 DEF AllHeard, Kept
      <4>. QED BY <2>2, <2>3, <4>1, <4>2 DEF HeardOf, Kept, HasErr
    <3>. QED BY <3>1, <3>2
  <2>. QED BY <1>3, <1>5, <2>1, <2>2, <2>4
<1>. QED BY <1>6, <1>7, <1>8 DEF EvKQBaseSetEvent

(* In kevent() one change of the list is applied: what the list leaves is the same. *)
LEMMA ChangeHeard ==
  ASSUME KInv, AllHeard, KEventChange
  PROVE  AllHeard'
<1>1. /\ chg # <<>> /\ chg \in Seq(Change) /\ chg' = Tail(chg)
      /\ UNCHANGED <<desc, handler, ready, sock>>
  BY DEF KEventChange, KInv, TypeOK
<1>. PICK c : c = Head(chg)
  OBVIOUS
<1>2. Kernel' = After(sock, Kernel, c)
  BY DEF KEventChange, Kernel, After, Fails
<1>3. AppliedTo(sock, After(sock, Kernel, Head(chg)), Tail(chg)) = AppliedTo(sock, Kernel, chg)
  BY <1>1, ApplyHead
<1>4. Applied' = Applied
  BY <1>1, <1>2, <1>3, AppliedIs, AppliedNext
<1>5. ASSUME NEW n \in Fds, NEW f \in Filters
      PROVE  Kept(Applied, n, f)' /\ HeardOf(Applied, n, f)'
  <2>1. Alike(Applied, Applied', n, f)
    BY <1>4 DEF Alike, AlikeNote, AlikeErr
  <2>2. /\ OnItsWay(n, f) => OnItsWay(n, f)'
        /\ handler'[n][f] = handler[n][f] /\ Open(n)' = Open(n)
    BY <1>1 DEF OnItsWay, Open
  <2>. QED BY <2>1, <2>2, StaysHeard DEF AllHeard
<1>. QED BY <1>5 DEF AllHeard

(* kevent() returns: a knote that is gone, or was watched, is told by an event. *)
LEMMA ReturnHeard ==
  ASSUME KInv, AllHeard, KEventReturn
  PROVE  AllHeard'
<1>1. /\ chg = <<>> /\ chg' = <<>> /\ ready = {}
      /\ UNCHANGED <<desc, handler, errs, sock>>
  BY DEF KEventReturn, KInv, Quiet
<1>2. knote \in [Fds -> [Filters -> KNote]]
  BY DEF KInv, TypeOK
<1>3. PICK fire \in SUBSET Watched : \E eofs \in SUBSET fire :
         /\ ready' = Raised(fire, eofs)
         /\ knote' = [n \in Fds |-> [f \in Filters |->
                        IF <<n, f>> \in fire /\ knote[n][f].oneshot
                        THEN Absent ELSE knote[n][f]]]
  BY DEF KEventReturn
<1>4. Applied = Kernel /\ Applied' = Kernel'
  BY <1>1, ApplyNone, AppliedIs, AppliedNext
<1>5. ASSUME NEW n \in Fds, NEW f \in Filters
      PROVE  Kept(Applied, n, f)' /\ HeardOf(Applied, n, f)'
  <2>1. /\ Open(n)' = Open(n) /\ Calls(n, f)' = Calls(n, f)
        /\ handler'[n][f] = handler[n][f] /\ HasErr(Kernel', n, f) = HasErr(Kernel, n, f)
    BY <1>1 DEF Open, Calls, HasErr, Kernel
  <2>2. Kept(Kernel, n, f) /\ HeardOf(Kernel, n, f) /\ ~OnItsWay(n, f)
    BY <1>1, <1>4 DEF AllHeard, OnItsWay
  <2>3. CASE <<n, f>> \in fire
    <3>1. \E e \in ready' : ForFilter(e, n, f)
      <4>1. PICK eofs \in SUBSET fire : ready' = Raised(fire, eofs)
        BY <1>3
      <4>. PICK e : e = [fd |-> n, filter |-> f, own |-> TRUE, eof |-> <<n, f>> \in eofs]
        OBVIOUS
      <4>2. e \in ready'
        <5>. PICK w : w = <<n, f>>
          OBVIOUS
        <5>1. w \in fire /\ w[1] = n /\ w[2] = f
          BY <2>3
        <5>2. e = [fd |-> w[1], filter |-> w[2], own |-> TRUE, eof |-> w \in eofs]
          BY <5>1
        <5>. QED BY <4>1, <5>1, <5>2 DEF Raised
      <4>. QED BY <4>2 DEF ForFilter
    <3>2. HeardOf(Applied, n, f)'
      BY <3>1 DEF HeardOf, OnItsWay
    <3>3. Kept(Applied, n, f)'
      <4>1. knote[n][f].oneshot \/ knote'[n][f] = knote[n][f]
        BY <1>3, <2>3
      <4>. QED BY <1>4, <2>1, <2>2, <4>1 DEF Kept, Kernel
    <3>. QED BY <3>2, <3>3
  <2>4. CASE <<n, f>> \notin fire
    <3>1. knote'[n][f] = knote[n][f]
      BY <1>3, <2>4
    <3>2. Kept(Applied, n, f)'
      BY <1>4, <2>1, <2>2, <3>1 DEF Kept, Kernel
    <3>3. HeardOf(Kernel, n, f)'
      BY <2>1, <2>2, <3>1 DEF HeardOf, Kernel, HasErr
    <3>. QED BY <1>4, <3>2, <3>3 DEF HeardOf
  <2>. QED BY <2>3, <2>4
<1>. QED BY <1>5 DEF AllHeard

(* EvKQInvokeKQFDCallbacks: the event that is taken was the last of a filter only if   *)
(* its handler is not called, is disabled by the call, or has its knote.               *)
LEMMA DispatchHeard ==
  ASSUME KInv, NotClosed, AllHeard, NEW e \in Event, DispatchEvent(e),
         UNCHANGED <<chg, sock, knote>>, errs' \in Seq(Event),
         \A n, f : n # e.fd \/ f # e.filter =>
             /\ HasErr(Kernel, n, f) = HasErr(Kernel', n, f)
             /\ OnItsWay(n, f) => OnItsWay(n, f)'
  PROVE  AllHeard' /\ NotClosed'
<1>1. /\ e.fd \in Fds /\ e.filter \in Filters /\ e.eof \in BOOLEAN
      /\ TypeOK /\ desc \in [Fds -> Desc] /\ handler \in [Fds -> [Codes -> Handler]]
  BY DEF Event, KInv, TypeOK
<1>2. \A n \in Fds : /\ desc'[n].closing = desc[n].closing /\ desc'[n].closed = desc[n].closed
  BY <1>1 DEF DispatchEvent, Desc
<1>3. NotClosed'
  BY <1>2 DEF NotClosed
<1>4. \A n \in Fds : Open(n)' = Open(n)
  BY <1>2 DEF Open
<1>5. ASSUME NEW n \in Fds, NEW f \in Filters
      PROVE  /\ AlikeNote(Applied, Applied', n, f)
             /\ n # e.fd \/ f # e.filter => Alike(Applied, Applied', n, f)
  <2>. PICK s, t, sk, q : s = Kernel /\ t = Kernel' /\ sk = sock /\ q = chg
    OBVIOUS
  <2>1. s \in State /\ t \in State /\ q \in Seq(Change)
    BY <1>1, KernelTyped DEF Kernel, State, TypeOK
  <2>2. AlikeNote(s, t, n, f) /\ (n # e.fd \/ f # e.filter => AlikeErr(s, t, n, f))
    BY DEF AlikeNote, AlikeErr, Kernel
  <2>3. /\ AlikeNote(AppliedTo(sk, s, q), AppliedTo(sk, t, q), n, f)
        /\ AlikeErr(s, t, n, f) => AlikeErr(AppliedTo(sk, s, q), AppliedTo(sk, t, q), n, f)
    BY <2>1, <2>2, ListAlike
  <2>4. Applied = AppliedTo(sk, s, q) /\ Applied' = AppliedTo(sk, t, q)
    BY AppliedIs, AppliedNext
  <2>. QED BY <2>2, <2>3, <2>4 DEF Alike
<1>6. \/ handler' = handler /\ (Gone(e.fd) \/ ~Calls(e.fd, e.filter))
      \/ Invoke(e.fd, e.filter, e.own)
      \/ Invoke(e.fd, EOF, e.own) /\ ~Calls(e.fd, e.filter)
  BY DEF DispatchEvent, Calls
<1>7. ASSUME NEW n \in Fds, NEW f \in Filters, n # e.fd \/ f # e.filter
      PROVE  handler'[n][f] = handler[n][f]
  BY <1>1, <1>6, <1>7, FilterKinds DEF Invoke
<1>8. ASSUME NEW n \in Fds, NEW f \in Filters
      PROVE  Kept(Applied, n, f)' /\ HeardOf(Applied, n, f)'
  <2>0. Kept(Applied, n, f) /\ HeardOf(Applied, n, f)
    BY DEF AllHeard
  <2>1. CASE n # e.fd \/ f # e.filter
    BY <1>4, <1>5, <1>7, <2>0, <2>1, StaysHeard
  <2>2. CASE n = e.fd /\ f = e.filter
    <3>1. CASE handler' = handler /\ Gone(n)
      <4>1. ~Open(n)
        BY <3>1 DEF NotClosed, Gone, Open
      <4>. QED BY <1>4, <4>1 DEF Kept, HeardOf
    <3>2. CASE handler'[n][f] = handler[n][f] /\ ~Calls(n, f)
      BY <1>4, <1>5, <2>0, <3>2 DEF Kept, HeardOf, AlikeNote, Calls
    <3>3. CASE Invoke(n, f, e.own)
      <4>. PICK h : h = [handler[n][f] EXCEPT !.enabled = handler[n][f].persist]
        OBVIOUS
      <4>1. /\ handler'[n][f] = h /\ Calls(n, f) /\ handler[n][f] \in Handler
        BY <1>1, <3>3, FilterKinds DEF Invoke
      <4>2. h.cb = handler[n][f].cb /\ h.persist = handler[n][f].persist /\ h.enabled = h.persist
        BY <4>1 DEF Handler
      <4>3. handler[n][f].enabled = TRUE /\ handler[n][f].cb # "none"
        BY <4>1 DEF Calls, Handler
      <4>4. Kept(Applied, n, f)'
        BY <1>4, <1>5, <2>0, <4>1, <4>2, <4>3 DEF Kept, AlikeNote, Handler
      <4>5. Open(n)' /\ Calls(n, f)' => Applied'.knote[n][f].enabled
        BY <1>4, <1>5, <2>0, <4>1, <4>2, <4>3 DEF Kept, AlikeNote, Calls
      <4>. QED BY <4>4, <4>5 DEF HeardOf
    <3>4. CASE Invoke(n, EOF, e.own) /\ ~Calls(n, f)
      <4>1. handler'[n][f] = handler[n][f]
        BY <1>1, <3>4, FilterKinds DEF Invoke
      <4>. QED BY <3>2, <3>4, <4>1
    <3>. QED BY <1>6, <2>2, <3>1, <3>2, <3>3, <3>4
  <2>. QED BY <2>1, <2>2
<1>. QED BY <1>3, <1>8 DEF AllHeard

LEMMA EventHeard ==
  ASSUME KInv, NotClosed, AllHeard, DispatchError \/ DispatchReady
  PROVE  AllHeard' /\ NotClosed'
<1>1. CASE DispatchError
  <2>. PICK e : e = Head(errs)
    OBVIOUS
  <2>1. /\ errs # <<>> /\ errs \in Seq(Event) /\ DispatchEvent(e) /\ errs' = Tail(errs)
        /\ UNCHANGED <<chg, sock, knote, ready>>
    BY <1>1 DEF DispatchError, kernel, KInv, TypeOK
  <2>2. /\ e \in Event /\ errs' \in Seq(Event) /\ e = errs[1]
        /\ Len(errs') = Len(errs) - 1 /\ Len(errs) \in Nat \ {0}
        /\ \A i \in 1 .. Len(errs') : errs'[i] = errs[i + 1]
    BY <2>1
  <2>3. ASSUME NEW n, NEW f, n # e.fd \/ f # e.filter
        PROVE  /\ HasErr(Kernel, n, f) = HasErr(Kernel', n, f)
               /\ OnItsWay(n, f) => OnItsWay(n, f)'
    <3>1. ASSUME HasErr(Kernel, n, f) PROVE HasErr(Kernel', n, f)
      <4>1. PICK i \in 1 .. Len(errs) : ForFilter(errs[i], n, f)
        BY <3>1 DEF HasErr, Kernel
      <4>2. i # 1
        BY <2>2, <2>3, <4>1 DEF ForFilter
      <4>3. i - 1 \in 1 .. Len(errs') /\ (i - 1) + 1 = i
        BY <2>2, <4>2
      <4>4. ForFilter(errs'[i - 1], n, f)
        BY <2>2, <4>1, <4>3
      <4>. QED BY <4>3, <4>4 DEF HasErr, Kernel
    <3>2. ASSUME HasErr(Kernel', n, f) PROVE HasErr(Kernel, n, f)
      <4>1. PICK i \in 1 .. Len(errs') : ForFilter(errs'[i], n, f)
        BY <3>2 DEF HasErr, Kernel
      <4>2. i + 1 \in 1 .. Len(errs) /\ errs'[i] = errs[i + 1]
        BY <2>2
      <4>. QED BY <4>1, <4>2 DEF HasErr, Kernel
    <3>3. HasErr(Kernel, n, f) \in BOOLEAN /\ HasErr(Kernel', n, f) \in BOOLEAN
      BY DEF HasErr
    <3>4. OnItsWay(n, f) => OnItsWay(n, f)'
      BY <2>1 DEF OnItsWay
    <3>. QED BY <3>1, <3>2, <3>3, <3>4
  <2>. QED BY <2>1, <2>2, <2>3, DispatchHeard
<1>2. CASE DispatchReady
  <2>1. PICK e \in ready : DispatchEvent(e) /\ ready' = ready \ {e}
    BY <1>2 DEF DispatchReady
  <2>2. UNCHANGED <<chg, sock, knote, errs>> /\ e \in Event /\ errs' \in Seq(Event)
    BY <1>2 DEF DispatchReady, kernel, KInv, TypeOK
  <2>3. ASSUME NEW n, NEW f, n # e.fd \/ f # e.filter
        PROVE  /\ HasErr(Kernel, n, f) = HasErr(Kernel', n, f)
               /\ OnItsWay(n, f) => OnItsWay(n, f)'
    <3>1. OnItsWay(n, f) => OnItsWay(n, f)'
      BY <2>1, <2>3 DEF OnItsWay, ForFilter
    <3>2. Kernel' = Kernel
      BY <2>2 DEF Kernel
    <3>. QED BY <3>1, <3>2
  <2>. QED BY <2>1, <2>2, <2>3, DispatchHeard
<1>. QED BY <1>1, <1>2

LEMMA InitHInv == Init => HInv
<1>. SUFFICES ASSUME Init PROVE HInv
  OBVIOUS
<1>1. KInv /\ NotClosed
  BY KInit DEF Init, NotClosed
<1>2. \A n \in Fds : ~Open(n)
  BY DEF Init, Open
<1>. QED BY <1>1, <1>2 DEF HInv, AllHeard, Kept, HeardOf

LEMMA NextHInv == HInv /\ [Next]_vars => HInv'
<1>. SUFFICES ASSUME HInv, [Next]_vars PROVE HInv'
  OBVIOUS
<1>0. KInv /\ KInv' /\ NotClosed /\ AllHeard
  BY KNext DEF HInv
<1>1. CASE UNCHANGED <<sock, desc, handler, chg, errs, ready, knote>>
  <2>1. AllHeard'
    BY <1>0, <1>1, SilentHeard DEF Open
  <2>. QED BY <1>0, <1>1, <2>1 DEF HInv, NotClosed
<1>. SUFFICES ASSUME Next PROVE AllHeard' /\ NotClosed'
  BY <1>0, <1>1 DEF HInv, vars
<1>2. desc \in [Fds -> Desc] /\ sock \in [Fds -> BOOLEAN] /\ handler \in [Fds -> [Codes -> Handler]]
  BY <1>0 DEF KInv, TypeOK
<1>3. ASSUME NEW n \in Fds, EvKQBaseSocketGenericNew(n) PROVE AllHeard' /\ NotClosed'
  <2>1. NotClosed'
    BY <1>0, <1>2, <1>3 DEF EvKQBaseSocketGenericNew, NotClosed, Flags0
  <2>. QED BY <1>0, <1>3, <2>1, OpenHeard
<1>4. ASSUME NEW n \in Fds, EvKQBaseFDDoClose(n) PROVE AllHeard' /\ NotClosed'
  <2>1. NotClosed'
    BY <1>0, <1>2, <1>4 DEF EvKQBaseFDDoClose, CloseFd, NotClosed
  <2>. QED BY <1>0, <1>4, <2>1, CloseHeard
<1>5. ASSUME NEW n \in Fds, CloseJobAdd(n) PROVE AllHeard' /\ NotClosed'
  <2>1. NotClosed'
    BY <1>0, <1>2, <1>5 DEF CloseJobAdd, kernel, NotClosed, Desc
  <2>. QED BY <1>0, <1>5, <2>1, LingerHeard
<1>6. ASSUME NEW n \in Fds, NEW c \in Codes, EvKQBaseSetEvent(n, c)
      PROVE  AllHeard' /\ NotClosed'
  <2>1. NotClosed'
    BY <1>0, <1>6 DEF EvKQBaseSetEvent, kernel, NotClosed
  <2>. QED BY <1>0, <1>6, <2>1, SetEventHeard
<1>7. CASE Client
  BY <1>3, <1>4, <1>5, <1>6, <1>7 DEF Client, EvKQBaseSocketClose, CloseNow
<1>8. ASSUME NEW n \in Fds, VisitCloseJob(n), WaitLoop(n) PROVE AllHeard' /\ NotClosed'
  <2>1. UNCHANGED <<handler, chg, errs, ready, sock, knote>>
    BY <1>8 DEF WaitLoop, batch, kernel
  <2>2. \A m \in Fds : desc'[m].closing = desc[m].closing /\ desc'[m].closed = desc[m].closed
    BY <1>2, <1>8 DEF WaitLoop, Desc
  <2>3. AllHeard'
    BY <1>0, <2>1, <2>2, SilentHeard DEF Open
  <2>. QED BY <1>0, <2>1, <2>2, <2>3 DEF NotClosed
<1>9. CASE \E n \in Fds : VisitCloseJob(n)
  BY <1>4, <1>8, <1>9 DEF VisitCloseJob, EvKQBaseFDCloseJob
<1>10. CASE EvKQBaseKEventInvoke \/ NextTurn
  <2>1. UNCHANGED <<sock, desc, handler, chg, errs, ready, knote>>
    BY <1>10 DEF EvKQBaseKEventInvoke, NextTurn, batch, kernel
  <2>. QED BY <1>1, <2>1 DEF HInv
<1>11. CASE KEventChange
  <2>1. NotClosed'
    BY <1>0, <1>11 DEF KEventChange, NotClosed
  <2>. QED BY <1>0, <1>11, <2>1, ChangeHeard
<1>12. CASE KEventReturn
  <2>1. NotClosed'
    BY <1>0, <1>12 DEF KEventReturn, NotClosed
  <2>. QED BY <1>0, <1>12, <2>1, ReturnHeard
<1>13. CASE DispatchError \/ DispatchReady
  BY <1>0, <1>13, EventHeard
<1>14. CASE CallbackReturn
  <2>1. UNCHANGED <<desc, chg, errs, ready, sock, knote>>
    BY <1>14 DEF CallbackReturn, batch, kernel
  <2>2. ASSUME NEW n \in Fds, NEW f \in Filters PROVE handler'[n][f] = handler[n][f]
    <3>1. handler' = handler \/ Invoke(cur.fd, EOF, cur.own)
      BY <1>14 DEF CallbackReturn
    <3>2. CASE Invoke(cur.fd, EOF, cur.own)
      BY <1>2, <3>2, FilterKinds DEF Invoke
    <3>. QED BY <3>1, <3>2
  <2>3. AllHeard'
    BY <1>0, <2>1, <2>2, SilentHeard DEF Open
  <2>. QED BY <1>0, <2>1, <2>3 DEF NotClosed
<1>. QED BY <1>7, <1>9, <1>10, <1>11, <1>12, <1>13, <1>14 DEF Next, Turn

(***************************************************************************)
(* A socket's client never waits in vain: whatever EvKQBaseSetEvent, close *)
(* and re-open do between two calls of kevent() and during the dispatch of *)
(* its events, an enabled handler of an open socket is watched once the    *)
(* change list is applied, or an event for it is in the event array        *)
(* (ev_kq_fd.c, ev_kq_base.c).                                             *)
(***************************************************************************)
THEOREM ClientIsHeard == Spec => []Heard
<1>1. HInv => Heard
  <2>. SUFFICES ASSUME HInv, NEW n \in Fds, NEW f \in Filters, Open(n), Calls(n, f)
                PROVE  \/ Applied.knote[n][f].enabled
                       \/ \E e \in ready \cup ToSet(Applied.errs) : ForFilter(e, n, f)
    BY DEF Heard
  <2>1. Applied.knote[n][f].enabled \/ HasErr(Applied, n, f) \/ OnItsWay(n, f)
    BY DEF HInv, AllHeard, HeardOf
  <2>2. Applied.errs \in Seq(Event)
    BY KernelTyped DEF HInv, KInv, State
  <2>3. \A i \in 1 .. Len(Applied.errs) : Applied.errs[i] \in ToSet(Applied.errs)
    BY <2>2 DEF ToSet
  <2>. QED BY <2>1, <2>3 DEF HasErr, OnItsWay
<1>. QED BY <1>1, InitHInv, NextHInv, PTL DEF Spec
=============================================================================
