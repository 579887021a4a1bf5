------------------------------ MODULE ServeProof ------------------------------
(***************************************************************************)
(* For any number of gateways, commands and requests: the processes agree  *)
(* on the key, no credential of theirs is refused for its signature, and a *)
(* graceful stop loses nothing.                                            *)
(*                                                                         *)
(* The argument: until the file is contended for, a process that generates *)
(* a key is alone in doing so and no key is in use, so the file it writes  *)
(* is the first; and the store is closed under a handler only where the    *)
(* grace period ended, because a drained gateway has none and accepts no   *)
(* more.                                                                   *)
(***************************************************************************)
EXTENDS Serve, TLAPS

Making == {"generating", "writing"}

(* The only writer of the key file. *)
AloneMaking(p, is) ==
  file = is /\ \A q \in Procs \ {p} : phase[q] \notin Making

KeySafe ==
  ~contested =>
    /\ KeysAgree
    /\ \A r \in Requests : request[r].cred # NoKey => request[r].cred = file
    /\ \A p \in Procs :
         /\ phase[p] = "generating" => AloneMaking(p, Absent)
         /\ phase[p] = "writing" => AloneMaking(p, Torn)

Serving == {"ready", "signalled", "draining", "closing", "closed"}

Keyed == \A p \in Procs : phase[p] \in Serving => key[p] # NoKey

(* A gateway listens before Shutdown only, and its store is closed in order. *)
LifeSafe ==
  \A g \in Gateways :
    /\ listener[g] = "open" => phase[g] \in {"ready", "signalled"}
    /\ phase[g] \in {"closing", "closed"} => ending[g] \in {"drained", "timed out"}
    /\ ending[g] # "none" => phase[g] \in {"closing", "closed", "gone"}
    /\ ending[g] = "drained" => At(g) = {}

RequestSafe ==
  \A r \in Requests :
    /\ Active(r) => request[r].at \in Gateways /\ phase[request[r].at] \in Serving
    /\ request[r].state # "none" => request[r].cred # NoKey
    /\ request[r].state \notin {"none", "unsent"} => request[r].at \in Gateways
    /\ request[r].state \in {"none", "unsent"} => request[r].row = "none"

(* Inductive. *)
SInv ==
  /\ TypeOK
  /\ KeySafe
  /\ Keyed
  /\ LifeSafe
  /\ RequestSafe
  /\ RefusedOnlyAfterRace
  /\ GracefulStopLosesNothing

LEMMA Names ==
  /\ NoKey \notin Keys /\ Absent \notin Keys /\ Torn \notin Keys
  /\ Absent # Torn /\ Procs \subseteq Keys /\ Earlier \in Keys /\ Gateways \subseteq Procs
BY ProcsAssumption, GatewaysAssumption DEF Keys, NoKey, Absent, Torn, Earlier

(* A request goes on to another state, its connection being as it is, or   *)
(* another.                                                                *)
LEMMA NextState ==
  ASSUME NEW h \in Handling, NEW s \in HandlerStates \cup EndStates
  PROVE  /\ [h EXCEPT !.state = s] \in Handling
         /\ [h EXCEPT !.state = s].state = s
         /\ [h EXCEPT !.state = s].at = h.at
         /\ [h EXCEPT !.state = s].cred = h.cred
         /\ [h EXCEPT !.state = s].row = h.row
BY DEF Handling

Conns == {"none", "open", "left", "noticed"}

LEMMA NextStateAndConn ==
  ASSUME NEW h \in Handling, NEW s \in HandlerStates \cup EndStates, NEW c \in Conns
  PROVE  /\ [h EXCEPT !.state = s, !.conn = c] \in Handling
         /\ [h EXCEPT !.state = s, !.conn = c].state = s
         /\ [h EXCEPT !.state = s, !.conn = c].at = h.at
         /\ [h EXCEPT !.state = s, !.conn = c].cred = h.cred
         /\ [h EXCEPT !.state = s, !.conn = c].row = h.row
BY DEF Handling, Conns

LEMMA NextConn ==
  ASSUME NEW h \in Handling, NEW c \in Conns
  PROVE  /\ [h EXCEPT !.conn = c] \in Handling
         /\ [h EXCEPT !.conn = c].state = h.state
         /\ [h EXCEPT !.conn = c].at = h.at
         /\ [h EXCEPT !.conn = c].cred = h.cred
         /\ [h EXCEPT !.conn = c].row = h.row
BY DEF Handling, Conns

LEMMA EndOf ==
  ASSUME NEW h \in Handling, NEW s \in EndStates
  PROVE  /\ EndIn(h, s) \in Handling
         /\ EndIn(h, s).state = s
         /\ EndIn(h, s).at = h.at
         /\ EndIn(h, s).cred = h.cred
         /\ EndIn(h, s).row = h.row
BY NextStateAndConn DEF EndIn, Conns

-----------------------------------------------------------------------------
(* What a step of the start does, and what the others leave alone. *)

LEMMA StartSteps ==
  ASSUME TypeOK, NEW p \in Procs, Start(p)
  PROVE  /\ phase[p] \in {"off"} \cup Starting
         /\ phase'[p] \in Starting \cup {"ready", "gone"}
         /\ \A q \in Procs \ {p} : phase'[q] = phase[q] /\ key'[q] = key[q]
         /\ phase'[p] = "ready" => key'[p] \in Keys
         /\ key'[p] = key[p] \/ key'[p] \in Keys
         /\ phase' \in [Procs -> Phase] /\ KeyTypeOK'
         /\ contested => contested'
<1> USE Names DEF TypeOK, KeyTypeOK, Move, Starting, Phase
<1>1. CASE OpenStore(p)
  BY <1>1 DEF OpenStore
<1>2. CASE Stat(p)
  BY <1>2 DEF Stat, SetOutToGenerate
<1>3. CASE StatErrs(p)
  BY <1>3 DEF StatErrs, SetOutToGenerate
<1>4. CASE Load(p)
  <2>1. CASE file \in Keys
    <3>1. /\ phase[p] = "loading" /\ phase' = [phase EXCEPT ![p] = "ready"]
          /\ key' = [key EXCEPT ![p] = file]
          /\ file' = file /\ contested' = contested
      BY <1>4, <2>1 DEF Load
    <3>2. /\ phase' \in [Procs -> Phase] /\ phase'[p] = "ready"
          /\ \A q \in Procs \ {p} : phase'[q] = phase[q]
      BY <3>1
    <3>3. /\ key' \in [Procs -> {NoKey} \cup Keys] /\ key'[p] = file
          /\ \A q \in Procs \ {p} : key'[q] = key[q]
      BY <3>1, <2>1
    <3>4. KeyTypeOK'
      BY <3>1, <3>3
    <3> HIDE DEF TypeOK, KeyTypeOK, Move, Phase
    <3> QED
      BY <2>1, <3>1, <3>2, <3>3, <3>4
  <2>2. CASE file \notin Keys
    BY <1>4, <2>2 DEF Load
  <2> QED
    BY <2>1, <2>2
<1>5. CASE CreateFile(p)
  BY <1>5 DEF CreateFile
<1>6. CASE WriteFile(p)
  BY <1>6 DEF WriteFile
<1>7. CASE WriteErrs(p)
  BY <1>7 DEF WriteErrs
<1> QED
  BY <1>1, <1>2, <1>3, <1>4, <1>5, <1>6, <1>7 DEF Start

(* The key file is nobody's business after the start. *)
LEMMA KeyQuiet ==
  ASSUME TypeOK, KeySafe, UNCHANGED <<file, key, contested>>,
         \A p \in Procs : phase'[p] \in Making => phase'[p] = phase[p],
         \A r \in Requests :
           request'[r].cred = request[r].cred \/ \E p \in Procs : request'[r].cred = key[p]
  PROVE  KeySafe'
<1> SUFFICES ASSUME ~contested
             PROVE  /\ KeysAgree'
                    /\ \A r \in Requests : request'[r].cred # NoKey => request'[r].cred = file
                    /\ \A p \in Procs :
                         /\ phase'[p] = "generating" => AloneMaking(p, Absent)'
                         /\ phase'[p] = "writing" => AloneMaking(p, Torn)'
  BY DEF KeySafe
<1>1. KeysAgree /\ KeysAgree'
  BY DEF KeySafe, KeysAgree
<1>2. \A r \in Requests : request'[r].cred # NoKey => request'[r].cred = file
  BY <1>1 DEF KeySafe, KeysAgree
<1>3. \A p \in Procs :
         /\ phase'[p] = "generating" => AloneMaking(p, Absent)'
         /\ phase'[p] = "writing" => AloneMaking(p, Torn)'
  BY DEF KeySafe, AloneMaking, Making
<1> QED
  BY <1>1, <1>2, <1>3

(* No key on file: none is in use. *)
LEMMA NoKeyInUse ==
  ASSUME TypeOK, KeySafe, ~contested, file \notin Keys
  PROVE  /\ \A p \in Procs : key[p] = NoKey
         /\ \A r \in Requests : request[r].cred = NoKey
<1>1. \A p \in Procs : key[p] \in {NoKey} \cup Keys /\ (key[p] # NoKey => key[p] = file)
  BY DEF TypeOK, KeyTypeOK, KeySafe, KeysAgree
<1>2. \A r \in Requests : request[r].cred \in {NoKey} \cup Keys
  BY DEF TypeOK, Handling
<1>3. \A r \in Requests : request[r].cred # NoKey => request[r].cred = file
  BY DEF KeySafe
<1> QED
  BY <1>1, <1>2, <1>3

(* The start keeps the file and the keys in step. *)
LEMMA KeyStart ==
  ASSUME TypeOK, KeySafe, NEW p \in Procs, Start(p), UNCHANGED request
  PROVE  KeySafe'
<1> USE Names DEF TypeOK, KeyTypeOK, Move
<1>1. CASE OpenStore(p) \/ WriteErrs(p)
  BY <1>1, KeyQuiet DEF OpenStore, WriteErrs, Making
<1>2. CASE Stat(p) /\ file # Absent
  BY <1>2, KeyQuiet DEF Stat, Making
<1>3. CASE SetOutToGenerate(p) /\ phase[p] = "opened"
  <2> SUFFICES ASSUME ~contested'
               PROVE  /\ KeysAgree'
                      /\ \A r \in Requests : request[r].cred = NoKey
                      /\ \A q \in Procs :
                           /\ phase'[q] = "generating" => AloneMaking(q, Absent)'
                           /\ phase'[q] = "writing" => AloneMaking(q, Torn)'
    BY DEF KeySafe
  <2>1. /\ ~contested /\ file = Absent
        /\ \A q \in Procs \ {p} : phase[q] # "generating"
        /\ phase' = [phase EXCEPT ![p] = "generating"] /\ UNCHANGED <<file, key>>
    BY <1>3 DEF SetOutToGenerate
  <2>2. KeysAgree'
    BY <2>1 DEF KeySafe, KeysAgree
  <2>3. \A r \in Requests : request[r].cred = NoKey
    BY <2>1, NoKeyInUse
  <2>4. \A q \in Procs : phase[q] \notin Making
    BY <2>1, <1>3 DEF KeySafe, AloneMaking, Making
  <2>5. \A q \in Procs :
           /\ phase'[q] = "generating" => AloneMaking(q, Absent)'
           /\ phase'[q] = "writing" => AloneMaking(q, Torn)'
    BY <2>1, <2>4 DEF AloneMaking, Making
  <2> QED
    BY <2>2, <2>3, <2>5
<1>4. CASE Load(p)
  <2> SUFFICES ASSUME ~contested
               PROVE  /\ KeysAgree'
                      /\ \A r \in Requests : request[r].cred # NoKey => request[r].cred = file'
                      /\ \A q \in Procs :
                           /\ phase'[q] = "generating" => AloneMaking(q, Absent)'
                           /\ phase'[q] = "writing" => AloneMaking(q, Torn)'
    BY <1>4 DEF KeySafe, Load
  <2>1. KeysAgree'
    BY <1>4 DEF KeySafe, KeysAgree, Load
  <2>2. \A q \in Procs : phase'[q] \in Making => phase'[q] = phase[q]
    BY <1>4 DEF Load, Making
  <2>3. file' = file
    BY <1>4 DEF Load
  <2> QED
    BY <2>1, <2>2, <2>3 DEF KeySafe, AloneMaking, Making
<1>5. CASE CreateFile(p)
  <2>1. CASE UNCHANGED file /\ Move(p, "gone")
    BY <1>5, <2>1, KeyQuiet DEF CreateFile, Making
  <2>2. CASE file' = Torn /\ Move(p, "writing")
    <3> SUFFICES ASSUME ~contested
                 PROVE  /\ KeysAgree'
                        /\ \A r \in Requests : request[r].cred = NoKey
                        /\ \A q \in Procs :
                             /\ phase'[q] = "generating" => AloneMaking(q, Absent)'
                             /\ phase'[q] = "writing" => AloneMaking(q, Torn)'
      BY <1>5 DEF KeySafe, CreateFile
    <3>1. phase[p] = "generating" /\ AloneMaking(p, Absent) /\ UNCHANGED key
      BY <1>5 DEF KeySafe, CreateFile
    <3>2. \A q \in Procs : key[q] = NoKey
      BY <3>1, NoKeyInUse DEF AloneMaking
    <3>3. \A r \in Requests : request[r].cred = NoKey
      BY <3>1, NoKeyInUse DEF AloneMaking
    <3>4. \A q \in Procs \ {p} : phase'[q] \notin Making
      BY <3>1, <2>2 DEF AloneMaking
    <3>5. phase'[p] = "writing"
      BY <2>2
    <3> QED
      BY <2>2, <3>1, <3>2, <3>3, <3>4, <3>5 DEF KeysAgree, AloneMaking, Making
  <2> QED
    BY <1>5, <2>1, <2>2 DEF CreateFile
<1>6. CASE WriteFile(p)
  <2> SUFFICES ASSUME ~contested
               PROVE  /\ KeysAgree'
                      /\ \A r \in Requests : request[r].cred = NoKey
                      /\ \A q \in Procs : phase'[q] \notin Making
    BY <1>6 DEF KeySafe, WriteFile, Making
  <2>1. /\ phase[p] = "writing" /\ AloneMaking(p, Torn)
        /\ file' = p /\ key' = [key EXCEPT ![p] = p] /\ phase' = [phase EXCEPT ![p] = "ready"]
    BY <1>6 DEF KeySafe, WriteFile
  <2>2. \A q \in Procs : key[q] = NoKey
    BY <2>1, NoKeyInUse DEF AloneMaking
  <2>3. \A r \in Requests : request[r].cred = NoKey
    BY <2>1, NoKeyInUse DEF AloneMaking
  <2> QED
    BY <2>1, <2>2, <2>3 DEF KeysAgree, AloneMaking, Making
<1> QED
  BY <1>1, <1>2, <1>3, <1>4, <1>5, <1>6 DEF Start, Stat, StatErrs

-----------------------------------------------------------------------------
(* The invariant, step by step. *)

LEMMA StartKeeps ==
  ASSUME SInv, NEW p \in Procs, Start(p), UNCHANGED serveVars
  PROVE  SInv'
<1> USE Names
<1>1. /\ TypeOK /\ KeySafe /\ LifeSafe /\ RequestSafe
      /\ UNCHANGED <<listener, ending, request>>
  BY DEF SInv, serveVars
<1>2. /\ phase[p] \in {"off"} \cup Starting
      /\ phase'[p] \in Starting \cup {"ready", "gone"}
      /\ \A q \in Procs \ {p} : phase'[q] = phase[q] /\ key'[q] = key[q]
      /\ phase'[p] = "ready" => key'[p] \in Keys
      /\ key'[p] = key[p] \/ key'[p] \in Keys
      /\ phase' \in [Procs -> Phase] /\ KeyTypeOK'
      /\ contested => contested'
  BY <1>1, StartSteps
<1>3. TypeOK'
  BY <1>1, <1>2 DEF TypeOK
<1>4. KeySafe'
  BY <1>1, KeyStart
<1>5. LifeSafe'
  BY <1>1, <1>2 DEF LifeSafe, Serving, Starting, At, Active
<1>6. RequestSafe'
  BY <1>1, <1>2 DEF RequestSafe, Serving, Starting, Active
<1>7. RefusedOnlyAfterRace' /\ GracefulStopLosesNothing'
  BY <1>1, <1>2 DEF SInv, RefusedOnlyAfterRace, GracefulStopLosesNothing
<1>8. Keyed'
  BY <1>1, <1>2 DEF SInv, Keyed, Serving, Starting
<1> QED
  BY <1>3, <1>4, <1>5, <1>6, <1>7, <1>8 DEF SInv

(* The end of a process, however it came. *)
LEMMA VanishKeeps ==
  ASSUME SInv, NEW p \in Procs, Vanish(p), UNCHANGED <<file, key, contested>>,
         ending' \in [Gateways -> {"none", "drained", "timed out", "killed"}],
         \A g \in Gateways \ {p} : ending'[g] = ending[g],
         p \in Gateways => \/ ending'[p] = "killed"
                           \/ ending'[p] = ending[p] /\ ending[p] \in {"drained", "timed out"}
  PROVE  SInv'
<1> USE Names
<1>1. TypeOK /\ KeySafe /\ LifeSafe /\ RequestSafe
  BY DEF SInv
<1>2. /\ phase' = [phase EXCEPT ![p] = "gone"]
      /\ listener' = [g \in Gateways |-> IF g = p THEN "closed" ELSE listener[g]]
      /\ request' = [r \in Requests |->
                       IF r \in At(p) THEN EndIn(request[r], "cut") ELSE request[r]]
  BY DEF Vanish, Move
<1>3. \A r \in Requests :
         /\ request[r] \in Handling
         /\ r \in At(p) => request'[r] = EndIn(request[r], "cut")
         /\ r \notin At(p) => request'[r] = request[r]
  BY <1>1, <1>2 DEF TypeOK
<1>4. \A r \in Requests :
         /\ request'[r] \in Handling
         /\ request'[r].at = request[r].at /\ request'[r].cred = request[r].cred
         /\ request'[r].row = request[r].row
         /\ request'[r].state = IF r \in At(p) THEN "cut" ELSE request[r].state
  <2> SUFFICES ASSUME NEW r \in Requests
               PROVE  /\ request'[r] \in Handling
                      /\ request'[r].at = request[r].at /\ request'[r].cred = request[r].cred
                      /\ request'[r].row = request[r].row
                      /\ request'[r].state = IF r \in At(p) THEN "cut" ELSE request[r].state
    OBVIOUS
  <2>1. CASE r \in At(p)
    <3>1. request[r] \in Handling /\ "cut" \in EndStates
      BY <1>3 DEF EndStates
    <3>2. request'[r] = EndIn(request[r], "cut")
      BY <1>3, <2>1
    <3> DEFINE cut == EndIn(request[r], "cut")
    <3>3. /\ cut \in Handling /\ cut.state = "cut" /\ cut.at = request[r].at
          /\ cut.cred = request[r].cred /\ cut.row = request[r].row
      BY <3>1, EndOf
    <3> QED
      BY <2>1, <3>2, <3>3
  <2>2. CASE r \notin At(p)
    BY <1>3, <2>2
  <2> QED
    BY <2>1, <2>2
<1>5. phase' \in [Procs -> Phase] /\ phase'[p] = "gone"
      /\ \A q \in Procs \ {p} : phase'[q] = phase[q]
  BY <1>1, <1>2 DEF TypeOK, Phase
<1>6. TypeOK'
  <2>1. KeyTypeOK'
    BY <1>1 DEF TypeOK, KeyTypeOK
  <2>2. request' \in [Requests -> Handling]
    BY <1>2, <1>4
  <2> QED
    BY <1>1, <1>2, <1>5, <2>1, <2>2 DEF TypeOK
<1>7. KeySafe'
  BY <1>1, <1>4, <1>5, KeyQuiet DEF Making
<1>8. \A r \in Requests : Active(r)' => Active(r) /\ r \notin At(p)
  BY <1>4 DEF Active, HandlerStates
<1>9. LifeSafe'
  <2> SUFFICES ASSUME NEW g \in Gateways
               PROVE  /\ listener'[g] = "open" => phase'[g] \in {"ready", "signalled"}
                      /\ phase'[g] \in {"closing", "closed"} => ending'[g] \in {"drained", "timed out"}
                      /\ ending'[g] # "none" => phase'[g] \in {"closing", "closed", "gone"}
                      /\ ending'[g] = "drained" => At(g)' = {}
    BY DEF LifeSafe
  <2>1. At(g)' \subseteq At(g)
    BY <1>4, <1>8 DEF At
  <2>2. CASE g = p
    BY <1>1, <1>2, <1>5, <2>1, <2>2 DEF LifeSafe, Serving
  <2>3. CASE g # p
    BY <1>1, <1>2, <1>5, <2>1, <2>3 DEF LifeSafe
  <2> QED
    BY <2>2, <2>3
<1>10. RequestSafe'
  <2> SUFFICES ASSUME NEW r \in Requests
               PROVE  /\ Active(r)' => /\ request'[r].at \in Gateways
                                      /\ phase'[request'[r].at] \in Serving
                      /\ request'[r].state # "none" => request'[r].cred # NoKey
                      /\ request'[r].state \notin {"none", "unsent"} => request'[r].at \in Gateways
                      /\ request'[r].state \in {"none", "unsent"} => request'[r].row = "none"
    BY DEF RequestSafe
  <2>1. CASE r \in At(p)
    <3>1. Active(r) /\ request[r].state \notin {"none", "unsent"}
      BY <2>1 DEF At, Active, HandlerStates
    <3> QED
      BY <1>1, <1>4, <1>8, <2>1, <3>1 DEF RequestSafe
  <2>2. CASE r \notin At(p)
    <3>1. Active(r) => request[r].at # p
      BY <2>2 DEF At
    <3>2. /\ request'[r].state = request[r].state /\ request'[r].at = request[r].at
          /\ request'[r].cred = request[r].cred /\ request'[r].row = request[r].row
      BY <1>4, <2>2
    <3>3. Active(r)' => phase'[request[r].at] = phase[request[r].at]
      BY <1>1, <1>5, <1>8, <3>1 DEF RequestSafe
    <3> QED
      BY <1>1, <1>8, <3>2, <3>3 DEF RequestSafe
  <2> QED
    BY <2>1, <2>2
<1>11. RefusedOnlyAfterRace'
  BY <1>4 DEF SInv, RefusedOnlyAfterRace
<1>12. GracefulStopLosesNothing'
  <2> SUFFICES ASSUME NEW r \in Requests,
                      request'[r].state = "cut" \/ request'[r].row = "store closed"
               PROVE  ending'[request'[r].at] \in {"timed out", "killed"}
    BY DEF GracefulStopLosesNothing
  <2>1. CASE r \in At(p)
    <3>1. p \in Gateways /\ request[r].at = p
      BY <1>1, <2>1 DEF RequestSafe, At
    <3>2. ending[p] # "drained" /\ request'[r].at = p
      BY <1>1, <1>4, <2>1, <3>1 DEF LifeSafe
    <3> QED
      BY <3>1, <3>2
  <2>2. CASE r \notin At(p)
    <3>1. /\ ending[request[r].at] \in {"timed out", "killed"}
          /\ request'[r].at = request[r].at
      BY <1>4, <2>2 DEF SInv, GracefulStopLosesNothing
    <3>2. request[r].at \in Gateways
      BY <1>1, <1>4, <2>2 DEF RequestSafe
    <3> QED
      BY <3>1, <3>2
  <2> QED
    BY <2>1, <2>2
<1>13. Keyed'
  BY <1>5 DEF SInv, Keyed, Serving
<1> QED
  BY <1>6, <1>7, <1>9, <1>10, <1>11, <1>12, <1>13 DEF SInv

(* A step of runServe itself, once the gateway has its key. *)
LEMMA MainKeeps ==
  ASSUME SInv, NEW g \in Gateways, NEW to \in Serving \ {"ready"},
         phase[g] \in Serving, Move(g, to), UNCHANGED <<file, key, contested, request>>,
         listener' \in [Gateways -> {"none", "open", "closed"}],
         \A h \in Gateways \ {g} : listener'[h] = listener[h],
         listener'[g] = "open" => listener[g] = "open" /\ to = "signalled",
         ending' \in [Gateways -> {"none", "drained", "timed out", "killed"}],
         \A h \in Gateways \ {g} : ending'[h] = ending[h],
         ending'[g] = ending[g] \/ ending[g] = "none",
         to \in {"closing", "closed"} <=> ending'[g] # "none",
         ending'[g] # "killed",
         ending'[g] = "drained" => At(g) = {}
  PROVE  SInv'
<1> USE Names
<1>1. TypeOK /\ KeySafe /\ LifeSafe /\ RequestSafe
  BY DEF SInv
<1>2. /\ phase' \in [Procs -> Phase] /\ phase'[g] = to
      /\ \A q \in Procs \ {g} : phase'[q] = phase[q]
  BY <1>1 DEF TypeOK, Move, Serving, Phase
<1>3. TypeOK'
  <2>1. KeyTypeOK'
    BY <1>1 DEF TypeOK, KeyTypeOK
  <2>2. \A h \in Gateways : listener'[h] = "open" => listener[h] = "open"
    OBVIOUS
  <2>3. request' \in [Requests -> Handling]
    BY <1>1 DEF TypeOK
  <2>4. \A h, k \in Gateways : listener'[h] = "open" /\ listener'[k] = "open" => h = k
    <3>1. \A h, k \in Gateways : listener[h] = "open" /\ listener[k] = "open" => h = k
      BY <1>1 DEF TypeOK
    <3> QED
      BY <3>1, <2>2, Zenon
  <2>5. \A h \in Gateways : listener'[h] = "open" => key'[h] # NoKey
    <3>1. \A h \in Gateways : listener[h] = "open" => key[h] # NoKey
      BY <1>1 DEF TypeOK
    <3>2. key' = key
      OBVIOUS
    <3> QED
      BY <3>1, <3>2, <2>2
  <2> QED
    BY <1>2, <2>1, <2>3, <2>4, <2>5 DEF TypeOK
<1>4. KeySafe'
  BY <1>1, <1>2, KeyQuiet DEF Making, Serving
<1>5. LifeSafe'
  <2>1. \A h \in Gateways : At(h)' = At(h)
    BY DEF At, Active
  <2> SUFFICES ASSUME NEW h \in Gateways
               PROVE  /\ listener'[h] = "open" => phase'[h] \in {"ready", "signalled"}
                      /\ phase'[h] \in {"closing", "closed"} => ending'[h] \in {"drained", "timed out"}
                      /\ ending'[h] # "none" => phase'[h] \in {"closing", "closed", "gone"}
                      /\ ending'[h] = "drained" => At(h) = {}
    BY <2>1 DEF LifeSafe
  <2>2. CASE h = g
    <3>1. ending'[g] \in {"none", "drained", "timed out", "killed"}
      OBVIOUS
    <3> QED
      BY <1>1, <1>2, <2>2, <3>1 DEF LifeSafe
  <2>3. CASE h # g
    BY <1>1, <1>2, <2>3 DEF LifeSafe
  <2> QED
    BY <2>2, <2>3
<1>6. RequestSafe'
  BY <1>1, <1>2 DEF RequestSafe, Active, Serving
<1>7. RefusedOnlyAfterRace'
  BY DEF SInv, RefusedOnlyAfterRace
<1>8. GracefulStopLosesNothing'
  <2> SUFFICES ASSUME NEW r \in Requests,
                      request[r].state = "cut" \/ request[r].row = "store closed"
               PROVE  ending'[request[r].at] \in {"timed out", "killed"}
    BY DEF GracefulStopLosesNothing
  <2>1. request[r].at \in Gateways /\ ending[request[r].at] \in {"timed out", "killed"}
    BY <1>1 DEF RequestSafe, SInv, GracefulStopLosesNothing
  <2> QED
    BY <2>1
<1>9. Keyed'
  BY <1>2 DEF SInv, Keyed, Serving
<1> QED
  BY <1>3, <1>4, <1>5, <1>6, <1>7, <1>8, <1>9 DEF SInv

(* A step of one request; a command that signed may end in it. *)
LEMMA RequestKeeps ==
  ASSUME SInv, NEW r \in Requests, NEW h \in Handling,
         request' = [request EXCEPT ![r] = h],
         UNCHANGED <<file, key, contested, listener, ending>>,
         phase' \in [Procs -> Phase],
         \A p \in Procs : phase'[p] = phase[p] \/ (p \notin Gateways /\ phase'[p] = "gone"),
         h.cred = request[r].cred \/ \E p \in Procs : h.cred = key[p],
         h.state \in HandlerStates =>
           h.at \in Gateways /\ phase[h.at] \in Serving /\ ending[h.at] # "drained",
         h.state # "none" => h.cred # NoKey,
         h.state \notin {"none", "unsent"} => h.at \in Gateways,
         h.state \in {"none", "unsent"} => h.row = "none",
         h.state \in {"refusing", "refused"} => contested,
         h.state = "cut" \/ h.row = "store closed" => ending[h.at] \in {"timed out", "killed"}
  PROVE  SInv'
<1> USE Names
<1>1. TypeOK /\ KeySafe /\ LifeSafe /\ RequestSafe
  BY DEF SInv
<1>2. /\ request' \in [Requests -> Handling] /\ request'[r] = h
      /\ \A q \in Requests \ {r} : request'[q] = request[q]
      /\ \A q \in Requests : q = r \/ request'[q] = request[q]
  BY <1>1 DEF TypeOK
<1>3. \A g \in Gateways : phase'[g] = phase[g]
  OBVIOUS
<1>4. TypeOK'
  <2>1. KeyTypeOK'
    BY <1>1 DEF TypeOK, KeyTypeOK
  <2>2. /\ \A g \in Gateways : listener'[g] = "open" => key'[g] # NoKey
        /\ \A g, k \in Gateways : listener'[g] = "open" /\ listener'[k] = "open" => g = k
    <3>1. listener' = listener /\ key' = key
      OBVIOUS
    <3>2. /\ \A g \in Gateways : listener[g] = "open" => key[g] # NoKey
          /\ \A g, k \in Gateways : listener[g] = "open" /\ listener[k] = "open" => g = k
      BY <1>1 DEF TypeOK
    <3> QED
      BY <3>1, <3>2, Zenon
  <2>3. /\ listener' \in [Gateways -> {"none", "open", "closed"}]
        /\ ending' \in [Gateways -> {"none", "drained", "timed out", "killed"}]
    BY <1>1 DEF TypeOK
  <2> QED
    BY <1>2, <2>1, <2>2, <2>3 DEF TypeOK
<1>5. KeySafe'
  <2>1. \A p \in Procs : phase'[p] \in Making => phase'[p] = phase[p]
    BY DEF Making
  <2>2. ASSUME NEW q \in Requests
        PROVE  request'[q].cred = request[q].cred \/ \E p \in Procs : request'[q].cred = key[p]
    <3>1. CASE q = r
      BY <1>2, <3>1
    <3>2. CASE q # r
      BY <1>2, <3>2
    <3> QED
      BY <3>1, <3>2
  <2> QED
    BY <1>1, <2>1, <2>2, KeyQuiet
<1>6. LifeSafe'
  <2>1. ASSUME NEW g \in Gateways, ending[g] = "drained"
        PROVE  At(g)' = {}
    BY <1>1, <1>2, <2>1 DEF LifeSafe, At, Active
  <2> QED
    BY <1>1, <1>3, <2>1 DEF LifeSafe
<1>7. RequestSafe'
  BY <1>1, <1>2, <1>3 DEF RequestSafe, Active
<1>8. RefusedOnlyAfterRace'
  BY <1>2 DEF SInv, RefusedOnlyAfterRace
<1>9. GracefulStopLosesNothing'
  BY <1>2 DEF SInv, GracefulStopLosesNothing
<1>10. Keyed'
  BY DEF SInv, Keyed, Serving
<1> QED
  BY <1>4, <1>5, <1>6, <1>7, <1>8, <1>9, <1>10 DEF SInv

LEMMA InitSafe == Init => SInv
<1> SUFFICES ASSUME Init PROVE SInv
  OBVIOUS
<1> USE Names
<1>1. /\ file \in {Absent, Torn, Earlier} /\ contested = FALSE
      /\ phase = [p \in Procs |-> "off"] /\ key = [p \in Procs |-> NoKey]
      /\ listener = [g \in Gateways |-> "none"] /\ ending = [g \in Gateways |-> "none"]
  BY DEF Init, KeyInit
<1>2. ASSUME NEW s \in {"none", "unsent"}, NEW k \in {NoKey} \cup Keys
      PROVE  /\ Without(s, k) \in Handling
             /\ Without(s, k).state = s /\ Without(s, k).cred = k /\ Without(s, k).row = "none"
  BY DEF Without, Handling
<1>3. ASSUME NEW r \in Requests
      PROVE  /\ request[r] \in Handling /\ request[r].state \in {"none", "unsent"}
             /\ request[r].row = "none"
             /\ request[r].state # "none" => request[r].cred # NoKey
             /\ request[r].cred # NoKey => request[r].cred = file
  <2>1. \/ request[r] = Without("none", NoKey)
        \/ file = Earlier /\ request[r] = Without("unsent", Earlier)
    BY DEF Init
  <2>2. CASE request[r] = Without("none", NoKey)
    BY <1>2, <2>2
  <2>3. CASE file = Earlier /\ request[r] = Without("unsent", Earlier)
    <3>1. Earlier \in {NoKey} \cup Keys /\ Earlier # NoKey
      OBVIOUS
    <3> QED
      BY <1>2, <2>3, <3>1
  <2> QED
    BY <2>1, <2>2, <2>3
<1>4. request \in [Requests -> Handling]
  <2>1. request = [r \in Requests |-> request[r]]
    BY DEF Init
  <2> QED
    BY <1>3, <2>1
<1>5. \A r \in Requests : ~Active(r) /\ request[r].state \notin EndStates
  BY <1>3 DEF Active, HandlerStates, EndStates
<1>6. TypeOK
  BY <1>1, <1>4 DEF TypeOK, KeyTypeOK, Phase
<1>7. KeySafe
  BY <1>1, <1>3 DEF KeySafe, KeysAgree
<1>8. LifeSafe
  BY <1>1 DEF LifeSafe, Serving
<1>9. RequestSafe
  BY <1>3, <1>5 DEF RequestSafe
<1>10. RefusedOnlyAfterRace /\ GracefulStopLosesNothing
  BY <1>3, <1>5 DEF RefusedOnlyAfterRace, GracefulStopLosesNothing, EndStates
<1>11. Keyed
  BY <1>1 DEF Keyed, Serving
<1> QED
  BY <1>6, <1>7, <1>8, <1>9, <1>10, <1>11 DEF SInv

LEMMA ListenKeeps ==
  ASSUME SInv, NEW g \in Gateways, Listen(g)
  PROVE  SInv'
<1> USE Names
<1>1. TypeOK /\ KeySafe /\ LifeSafe /\ RequestSafe
  BY DEF SInv
<1>2. /\ phase[g] \in {"ready", "signalled"} /\ \A h \in Gateways : listener[h] # "open"
      /\ listener' = [listener EXCEPT ![g] = "open"]
      /\ UNCHANGED <<file, phase, key, contested, ending, request>>
  BY DEF Listen, keyVars
<1>3. /\ listener' \in [Gateways -> {"none", "open", "closed"}] /\ listener'[g] = "open"
      /\ \A h \in Gateways \ {g} : listener'[h] # "open"
  BY <1>1, <1>2 DEF TypeOK
<1>4. TypeOK'
  <2>1. KeyTypeOK' /\ key[g] # NoKey
    BY <1>1, <1>2 DEF TypeOK, KeyTypeOK, SInv, Keyed, Serving
  <2> QED
    BY <1>1, <1>2, <1>3, <2>1 DEF TypeOK
<1>5. KeySafe'
  BY <1>1, <1>2, KeyQuiet
<1>6. LifeSafe'
  BY <1>1, <1>2, <1>3 DEF LifeSafe, At, Active
<1>7. RequestSafe' /\ RefusedOnlyAfterRace' /\ GracefulStopLosesNothing'
  BY <1>1, <1>2 DEF SInv, RequestSafe, RefusedOnlyAfterRace, GracefulStopLosesNothing, Active
<1>8. Keyed'
  BY <1>2 DEF SInv, Keyed
<1> QED
  BY <1>4, <1>5, <1>6, <1>7, <1>8 DEF SInv

(* From the signal to the closed store. *)
LEMMA GatewaySteps ==
  ASSUME SInv, NEW g \in Gateways,
         Signal(g) \/ Shutdown(g) \/ Drained(g) \/ GraceExpires(g) \/ CloseStore(g)
  PROVE  SInv'
<1> USE Names DEF Serving
<1>1. TypeOK /\ LifeSafe
  BY DEF SInv
<1>2. /\ listener \in [Gateways -> {"none", "open", "closed"}]
      /\ ending \in [Gateways -> {"none", "drained", "timed out", "killed"}]
  BY <1>1 DEF TypeOK
<1>3. phase[g] \in {"ready", "signalled", "draining"} => ending[g] = "none"
  BY <1>1 DEF LifeSafe
<1>4. CASE Signal(g)
  BY <1>2, <1>3, <1>4, MainKeeps DEF Signal, serveVars
<1>5. CASE Shutdown(g)
  BY <1>2, <1>3, <1>5, MainKeeps DEF Shutdown
<1>6. listener[g] = "open" => phase[g] \in {"ready", "signalled"}
  BY <1>1 DEF LifeSafe
<1>7. CASE Drained(g)
  BY <1>2, <1>3, <1>6, <1>7, MainKeeps DEF Drained
<1>8. CASE GraceExpires(g)
  BY <1>2, <1>3, <1>6, <1>8, MainKeeps DEF GraceExpires
<1>9. CASE CloseStore(g)
  <2>1. /\ ending[g] \in {"drained", "timed out"}
        /\ ending[g] = "drained" => At(g) = {}
    BY <1>1, <1>9 DEF CloseStore, LifeSafe
  <2> QED
    BY <1>2, <1>6, <1>9, <2>1, MainKeeps DEF CloseStore, serveVars
<1> QED
  BY <1>4, <1>5, <1>7, <1>8, <1>9

(* The ends of a process. *)
LEMMA EndSteps ==
  ASSUME SInv, NEW p \in Procs,
         Die(p) \/ (p \in Gateways /\ (ListenErrs(p) \/ Exit(p)))
  PROVE  SInv'
<1> USE Names
<1>1. ending \in [Gateways -> {"none", "drained", "timed out", "killed"}] /\ LifeSafe
  BY DEF SInv, TypeOK
<1>2. CASE Die(p)
  BY <1>1, <1>2, VanishKeeps DEF Die
<1>3. CASE p \in Gateways /\ ListenErrs(p)
  BY <1>1, <1>3, VanishKeeps DEF ListenErrs
<1>4. CASE p \in Gateways /\ Exit(p)
  <2>1. ending[p] \in {"drained", "timed out"}
    BY <1>1, <1>4 DEF Exit, LifeSafe
  <2> QED
    BY <1>1, <1>4, <2>1, VanishKeeps DEF Exit
<1> QED
  BY <1>2, <1>3, <1>4

(* What happens to one request. *)
LEMMA RequestSteps ==
  ASSUME SInv, NEW r \in Requests,
         \/ \E p \in Procs : CreateTask(p, r)
         \/ \E g \in Gateways : CreateTaskAtGateway(g, r) \/ Accept(g, r)
         \/ HandlerStep(r) \/ PeerStep(r)
  PROVE  SInv'
<1> USE Names
<1>1. /\ TypeOK /\ KeySafe /\ Keyed /\ LifeSafe /\ RequestSafe
      /\ RefusedOnlyAfterRace /\ GracefulStopLosesNothing
  BY DEF SInv
<1>2. /\ phase \in [Procs -> Phase] /\ key \in [Procs -> {NoKey} \cup Keys]
      /\ request[r] \in Handling
  BY <1>1 DEF TypeOK, KeyTypeOK
<1> DEFINE now == request[r]
           going(s) == [now EXCEPT !.state = s]
<1>3. ASSUME NEW s \in HandlerStates \cup EndStates
      PROVE  /\ going(s) \in Handling /\ going(s).state = s /\ going(s).at = now.at
             /\ going(s).cred = now.cred /\ going(s).row = now.row
  BY <1>2, NextState
<1>4. ASSUME Active(r)
      PROVE  /\ now.at \in Gateways /\ phase[now.at] \in Serving /\ now.cred # NoKey
             /\ ending[now.at] # "drained" /\ key[now.at] # NoKey
             /\ now.row = "store closed" => ending[now.at] \in {"timed out", "killed"}
  <2>1. now.at \in Gateways /\ phase[now.at] \in Serving
    BY <1>1, <1>4 DEF RequestSafe
  <2>2. now.cred # NoKey
    BY <1>1, <1>4 DEF RequestSafe, Active, HandlerStates
  <2>3. r \in At(now.at)
    BY <1>4 DEF At
  <2>4. ending[now.at] # "drained"
    BY <1>1, <2>1, <2>3 DEF LifeSafe
  <2>5. key[now.at] # NoKey
    BY <1>1, <2>1 DEF Keyed
  <2>6. now.row = "store closed" => ending[now.at] \in {"timed out", "killed"}
    BY <1>1 DEF GracefulStopLosesNothing
  <2> QED
    BY <2>1, <2>2, <2>4, <2>5, <2>6
(* A handler that goes on, or comes to its end, its row as it was. *)
<1>5. ASSUME NEW h \in Handling, Active(r), request' = [request EXCEPT ![r] = h],
             UNCHANGED <<file, key, contested, phase, listener, ending>>,
             h.state \in HandlerStates \cup {"replied", "refused"},
             h.at = now.at, h.cred = now.cred, h.row = now.row,
             h.state \in {"refusing", "refused"} => contested
      PROVE  SInv'
  <2>1. h.state \notin {"none", "unsent", "cut"}
    BY <1>5 DEF HandlerStates
  <2>2. /\ phase' \in [Procs -> Phase]
        /\ \A q \in Procs : phase'[q] = phase[q] \/ (q \notin Gateways /\ phase'[q] = "gone")
        /\ UNCHANGED <<file, key, contested, listener, ending>>
    BY <1>2, <1>5
  <2>3. /\ h.at \in Gateways /\ phase[h.at] \in Serving /\ ending[h.at] # "drained"
        /\ h.cred # NoKey
        /\ h.row = "store closed" => ending[h.at] \in {"timed out", "killed"}
    BY <1>4, <1>5
  <2> QED
    BY <1>5, <2>1, <2>2, <2>3, RequestKeeps
<1>6. ASSUME NEW p \in Procs, Sign(p, r), key[p] # NoKey,
             phase' \in [Procs -> Phase],
             \A q \in Procs : phase'[q] = phase[q] \/ (q \notin Gateways /\ phase'[q] = "gone"),
             UNCHANGED <<file, key, contested, listener, ending>>
      PROVE  SInv'
  <2> DEFINE h == Without("unsent", key[p])
  <2>1. /\ h \in Handling /\ h.state = "unsent" /\ h.cred = key[p] /\ h.row = "none"
    BY <1>2 DEF Without, Handling
  <2>2. request' = [request EXCEPT ![r] = h]
    BY <1>6 DEF Sign
  <2> HIDE DEF h
  <2> QED
    BY <1>6, <2>1, <2>2, RequestKeeps DEF HandlerStates
<1>7. ASSUME NEW p \in Procs, CreateTask(p, r) PROVE SInv'
  <2>1. /\ p \notin Gateways /\ phase[p] = "ready" /\ Sign(p, r)
        /\ phase' = [phase EXCEPT ![p] = "gone"]
        /\ UNCHANGED <<file, key, contested, listener, ending>>
    BY <1>7 DEF CreateTask, Clients, Move
  <2>2. key[p] # NoKey
    BY <1>1, <2>1 DEF Keyed, Serving
  <2>3. phase' \in [Procs -> Phase]
    BY <1>2, <2>1 DEF Phase
  <2>4. \A q \in Procs : phase'[q] = phase[q] \/ (q \notin Gateways /\ phase'[q] = "gone")
    <3> SUFFICES ASSUME NEW q \in Procs, q # p PROVE phase'[q] = phase[q]
      BY <1>2, <2>1
    <3> QED
      BY <1>2, <2>1
  <2> QED
    BY <1>6, <2>1, <2>2, <2>3, <2>4
<1>8. ASSUME NEW g \in Gateways, CreateTaskAtGateway(g, r) PROVE SInv'
  <2>1. Sign(g, r) /\ UNCHANGED <<file, key, contested, phase, listener, ending>>
    BY <1>8 DEF CreateTaskAtGateway, keyVars
  <2>2. key[g] # NoKey
    BY <1>1, <1>8 DEF CreateTaskAtGateway, TypeOK
  <2>3. /\ g \in Procs /\ phase' \in [Procs -> Phase]
        /\ \A q \in Procs : phase'[q] = phase[q] \/ (q \notin Gateways /\ phase'[q] = "gone")
    BY <1>2, <2>1
  <2> QED
    BY <1>6, <2>1, <2>2, <2>3
<1>9. ASSUME NEW g \in Gateways, Accept(g, r) PROVE SInv'
  <2> DEFINE h == [now EXCEPT !.state = "accepted", !.at = g, !.conn = "open"]
  <2>1. /\ h \in Handling /\ h.state = "accepted" /\ h.at = g /\ h.cred = now.cred
        /\ h.row = now.row
    BY <1>2 DEF Handling, HandlerStates
  <2>2. /\ request' = [request EXCEPT ![r] = h] /\ now.state = "unsent"
        /\ UNCHANGED <<file, key, contested, phase, listener, ending>>
    BY <1>9 DEF Accept, keyVars
  <2>3. phase[g] \in {"ready", "signalled"} /\ ending[g] = "none"
    BY <1>1, <1>9 DEF Accept, LifeSafe, TypeOK
  <2>4. now.cred # NoKey /\ now.row = "none"
    BY <1>1, <2>2 DEF RequestSafe
  <2> HIDE DEF h
  <2>5. /\ phase' \in [Procs -> Phase]
        /\ \A q \in Procs : phase'[q] = phase[q] \/ (q \notin Gateways /\ phase'[q] = "gone")
        /\ UNCHANGED <<file, key, contested, listener, ending>>
    BY <1>2, <2>2
  <2>6. /\ h.at \in Gateways /\ phase[h.at] \in Serving /\ ending[h.at] # "drained"
        /\ h.cred # NoKey /\ h.state \notin {"none", "unsent", "cut", "refusing", "refused"}
        /\ h.row # "store closed"
    BY <2>1, <2>3, <2>4 DEF Serving
  <2> QED
    BY <2>1, <2>2, <2>5, <2>6, RequestKeeps
<1>10. ASSUME NEW s \in {"reading", "replying", "answered"}, Active(r),
              request' = [request EXCEPT ![r] = going(s)],
              UNCHANGED <<file, key, contested, phase, listener, ending>>
       PROVE  SInv'
  <2> DEFINE h == going(s)
  <2>1. s \in HandlerStates /\ s \notin {"refusing", "refused"}
    BY <1>10 DEF HandlerStates
  <2>2. /\ h \in Handling /\ h.state = s /\ h.at = now.at /\ h.cred = now.cred
        /\ h.row = now.row
    BY <1>3, <2>1
  <2> HIDE DEF h
  <2>3. request' = [request EXCEPT ![r] = h]
    BY <1>10 DEF h
  <2> QED
    BY <1>5, <1>10, <2>1, <2>2, <2>3
<1>11. ASSUME Authenticate(r) PROVE SInv'
  <2>1. /\ now.state = "accepted" /\ Active(r)
        /\ UNCHANGED <<file, key, contested, phase, listener, ending>>
    BY <1>11 DEF Authenticate, Step, Active, HandlerStates, keyVars
  <2>2. CASE now.cred # key[now.at]
    <3>1. request' = [request EXCEPT ![r] = going("refusing")]
      BY <1>11, <2>2 DEF Authenticate, Step
    <3>2. now.at \in Procs /\ now.cred # NoKey /\ key[now.at] # NoKey
      BY <1>4, <2>1
    <3>3. contested
      BY <1>1, <2>2, <3>2 DEF KeySafe, KeysAgree
    <3> DEFINE h == going("refusing")
    <3>4. /\ h \in Handling /\ h.state = "refusing" /\ h.at = now.at /\ h.cred = now.cred
          /\ h.row = now.row
      BY <1>3 DEF HandlerStates
    <3> HIDE DEF h
    <3>5. request' = [request EXCEPT ![r] = h]
      BY <3>1 DEF h
    <3>6. h.state \in HandlerStates \cup {"replied", "refused"}
      BY <3>4 DEF HandlerStates
    <3> QED
      BY <1>5, <2>1, <3>3, <3>4, <3>5, <3>6
  <2>3. CASE now.cred = key[now.at]
    <3>1. PICK s \in {"reading", "replying"} : request' = [request EXCEPT ![r] = going(s)]
      BY <1>11, <2>3 DEF Authenticate, Step
    <3> QED
      BY <1>10, <2>1, <3>1
  <2> QED
    BY <2>2, <2>3
<1>12. ASSUME UpstreamAnswers(r) \/ CallCancelled(r) PROVE SInv'
  <2>1. /\ now.state = "calling" /\ Active(r)
        /\ UNCHANGED <<file, key, contested, phase, listener, ending>>
        /\ request' = [request EXCEPT ![r] = going("answered")]
    BY <1>12 DEF UpstreamAnswers, CallCancelled, Step, Active, HandlerStates, keyVars
  <2> QED
    BY <1>10, <2>1
<1>13. ASSUME Emit(r) PROVE SInv'
  <2>1. /\ now.state = "answered" /\ Active(r)
        /\ UNCHANGED <<file, key, contested, phase, listener, ending>>
    BY <1>13 DEF Emit, Active, HandlerStates, keyVars
  <2>2. PICK w \in {"cancelled", "written", "store closed"} :
          /\ request' = [request EXCEPT ![r] = [now EXCEPT !.state = "replying", !.row = w]]
          /\ w = "store closed" => ~StoreOpen(now.at)
    BY <1>13 DEF Emit
  <2> DEFINE h == [now EXCEPT !.state = "replying", !.row = w]
  <2>3. /\ h \in Handling /\ h.state = "replying" /\ h.at = now.at /\ h.cred = now.cred
        /\ h.row = w
    BY <1>2 DEF Handling, HandlerStates
  <2>4. /\ phase' \in [Procs -> Phase]
        /\ \A q \in Procs : phase'[q] = phase[q] \/ (q \notin Gateways /\ phase'[q] = "gone")
        /\ UNCHANGED <<file, key, contested, listener, ending>>
    BY <1>2, <2>1
  <2>5. /\ now.at \in Gateways /\ phase[now.at] \in Serving /\ ending[now.at] # "drained"
        /\ now.cred # NoKey
    BY <1>4, <2>1
  (* The store is closed and the gateway not drained: the grace period has ended. *)
  <2>6. w = "store closed" => ending[now.at] \in {"timed out", "killed"}
    <3> SUFFICES ASSUME w = "store closed" PROVE ending[now.at] \in {"timed out", "killed"}
      OBVIOUS
    <3>1. phase[now.at] = "closed"
      BY <2>2, <2>5 DEF StoreOpen, Serving
    <3> QED
      BY <1>1, <2>5, <3>1 DEF LifeSafe
  <2>7. request' = [request EXCEPT ![r] = h]
    BY <2>2
  <2> HIDE DEF h
  <2> QED
    BY <2>3, <2>4, <2>5, <2>6, <2>7, RequestKeeps
<1>14. ASSUME ReadBody(r) PROVE SInv'
  <2>1. /\ now.state = "reading" /\ Active(r)
        /\ UNCHANGED <<file, key, contested, phase, listener, ending>>
    BY <1>14 DEF ReadBody, Active, HandlerStates, keyVars
  <2>2. PICK to \in {"calling", "answered", "replying"}, c \in {now.conn, "noticed"} :
          request' = [request EXCEPT ![r] = [now EXCEPT !.state = to, !.conn = c]]
    BY <1>14 DEF ReadBody
  <2> DEFINE h == [now EXCEPT !.state = to, !.conn = c]
  <2>3. to \in HandlerStates \cup EndStates /\ to \notin {"refusing", "refused"}
    BY <2>2 DEF HandlerStates
  <2>4. c \in Conns
    BY <1>2, <2>2 DEF Conns, Handling
  <2>5. /\ h \in Handling /\ h.state = to /\ h.at = now.at /\ h.cred = now.cred
        /\ h.row = now.row
    BY <1>2, <2>2, <2>4 DEF Handling, HandlerStates, Conns
  <2> HIDE DEF h
  <2>6. request' = [request EXCEPT ![r] = h]
    BY <2>2 DEF h
  <2>7. to \in HandlerStates
    BY <2>2 DEF HandlerStates
  <2> QED
    BY <1>5, <2>1, <2>3, <2>5, <2>6, <2>7
<1>15. ASSUME Reply(r) PROVE SInv'
  <2>1. Active(r) /\ UNCHANGED <<file, key, contested, phase, listener, ending>>
    BY <1>15 DEF Reply, Active, HandlerStates, keyVars
  <2>2. PICK s \in {"replied", "refused"} :
          /\ request' = [request EXCEPT ![r] = EndIn(now, s)]
          /\ s = "refused" => now.state = "refusing"
    BY <1>15 DEF Reply
  <2> DEFINE h == EndIn(now, s)
  <2>3. s \in EndStates
    BY <2>2 DEF EndStates
  <2>4. /\ h \in Handling /\ h.state = s /\ h.at = now.at /\ h.cred = now.cred
        /\ h.row = now.row
    BY <1>2, <2>3, EndOf
  <2> HIDE DEF h
  <2>5. request' = [request EXCEPT ![r] = h]
    BY <2>2 DEF h
  <2>6. s \in {"refusing", "refused"} => contested
    BY <1>1, <2>2 DEF RefusedOnlyAfterRace
  <2> QED
    BY <1>5, <2>1, <2>2, <2>4, <2>5, <2>6
<1>16. ASSUME ClientLeaves(r) PROVE SInv'
  <2>1. Active(r) /\ UNCHANGED <<file, key, contested, phase, listener, ending>>
    BY <1>16 DEF ClientLeaves, keyVars
  <2>2. PICK c \in {"left", "noticed"} :
          request' = [request EXCEPT ![r] = [now EXCEPT !.conn = c]]
    BY <1>16 DEF ClientLeaves
  <2> DEFINE h == [now EXCEPT !.conn = c]
  <2>3. /\ h \in Handling /\ h.state = now.state /\ h.at = now.at /\ h.cred = now.cred
        /\ h.row = now.row
    BY <1>2, <2>2, NextConn DEF Conns
  <2> HIDE DEF h
  <2>4. request' = [request EXCEPT ![r] = h]
    BY <2>2 DEF h
  <2>5. now.state \in HandlerStates
    BY <2>1 DEF Active
  <2>6. now.state \in {"refusing", "refused"} => contested
    BY <1>1 DEF RefusedOnlyAfterRace
  <2> QED
    BY <1>5, <2>1, <2>3, <2>4, <2>5, <2>6
<1> QED
  BY <1>7, <1>8, <1>9, <1>11, <1>12, <1>13, <1>14, <1>15, <1>16 DEF HandlerStep, PeerStep

-----------------------------------------------------------------------------
LEMMA StepSafe == SInv /\ [Next]_vars => SInv'
<1> SUFFICES ASSUME SInv, [Next]_vars PROVE SInv'
  OBVIOUS
<1>1. CASE UNCHANGED vars
  BY <1>1 DEF vars, keyVars, serveVars, SInv, TypeOK, KeyTypeOK, KeySafe, KeysAgree, AloneMaking,
              Keyed, LifeSafe, RequestSafe, RefusedOnlyAfterRace, GracefulStopLosesNothing, At,
              Active
<1>2. ASSUME NEW p \in Procs, Start(p) /\ UNCHANGED serveVars PROVE SInv'
  BY <1>2, StartKeeps
<1>3. ASSUME NEW p \in Procs, Die(p) PROVE SInv'
  BY <1>3, EndSteps
<1>4. ASSUME NEW g \in Gateways, Listen(g) PROVE SInv'
  BY <1>4, ListenKeeps
<1>5. ASSUME NEW g \in Gateways, ListenErrs(g) \/ Exit(g) PROVE SInv'
  BY <1>5, EndSteps, Names
<1>6. ASSUME NEW g \in Gateways,
             Signal(g) \/ Shutdown(g) \/ Drained(g) \/ GraceExpires(g) \/ CloseStore(g)
      PROVE  SInv'
  BY <1>6, GatewaySteps
<1>7. ASSUME NEW r \in Requests,
             \/ \E p \in Procs : CreateTask(p, r)
             \/ \E g \in Gateways : CreateTaskAtGateway(g, r) \/ Accept(g, r)
             \/ HandlerStep(r) \/ PeerStep(r)
      PROVE  SInv'
  BY <1>7, RequestSteps
<1> QED
  BY <1>1, <1>2, <1>3, <1>4, <1>5, <1>6, <1>7 DEF Next, MainStep

LEMMA Safe == Spec => []SInv
<1> QED
  BY InitSafe, StepSafe, PTL DEF Spec

(* A listener belongs to a process that has its key, and the address is    *)
(* never shared (serve.go:77-96): for any number of gateways and requests. *)
THEOREM ServeTypeCorrect == Spec => []TypeOK
<1>1. SInv => TypeOK
  BY DEF SInv
<1> QED
  BY <1>1, Safe, PTL

(* Until the key file is contended for, by two starts that both generate a *)
(* key or by one that does so over a file it could not stat, every process *)
(* that has a key has the one on file, through any crashes and failed      *)
(* writes (jwt.go:65-90, helpers.go:70-94).                                *)
THEOREM KeysStayInStep == Spec => []KeysAgree
<1>1. SInv => KeysAgree
  BY DEF SInv, KeySafe, KeysAgree
<1> QED
  BY <1>1, Safe, PTL

(* Only such a contention lets a gateway refuse, for its signature, a      *)
(* credential that another process signed, or an earlier one               *)
(* (jwt.go:79-89, server.go:86-90).                                        *)
THEOREM CredentialsVerify == Spec => []RefusedOnlyAfterRace
<1>1. SInv => RefusedOnlyAfterRace
  BY DEF SInv
<1> QED
  BY <1>1, Safe, PTL

(* A request is cut off, or loses its row, only where the grace period     *)
(* ended or the process was killed: a drained gateway has no handler, and  *)
(* accepts no request any more (serve.go:98-110, 43).                      *)
THEOREM GracefulStopIsClean == Spec => []GracefulStopLosesNothing
<1>1. SInv => GracefulStopLosesNothing
  BY DEF SInv
<1> QED
  BY <1>1, Safe, PTL
===============================================================================
