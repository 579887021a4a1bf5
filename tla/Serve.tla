-------------------------------- MODULE Serve --------------------------------
(***************************************************************************)
(* The life of the gateway, runServe of cmd/agentid/serve.go, beside the   *)
(* command line's task create, which runs in a process of its own: a key   *)
(* at the start (KeyFile), one listener on the configured address, and on  *)
(* a signal the graceful shutdown of net/http, at most GracePeriod long,   *)
(* after which the deferred st.Close runs and the process ends, whether    *)
(* or not handlers are still at work.                                      *)
(*                                                                         *)
(* Of a request there is what the shutdown and the keys can tell apart:    *)
(* the key its credential is signed with, whom its handler waits for (the  *)
(* client, to send the body and to take the reply, and the upstream: the   *)
(* code sets none of them a time limit), whether the client is still       *)
(* there, and the row the call leaves.  What a call may do is Gateway's.   *)
(***************************************************************************)
EXTENDS KeyFile

CONSTANTS Gateways,   \* the processes that run serve; the others run task create
          Requests    \* HTTP requests, each sent once, with a credential of its own

ASSUME GatewaysAssumption == Gateways \subseteq Procs

VARIABLES listener,   \* of each gateway: "none", "open", "closed"
          ending,     \* how its end began: "none", "drained", "timed out", "killed"
          request     \* what has become of each request

serveVars == <<listener, ending, request>>
vars == <<keyVars, serveVars>>

Clients == Procs \ Gateways

NoGateway == "nobody"

(* conn: the connection is open, or the client has closed it, and then,    *)
(* maybe, net/http has noticed: it watches the connection from where the   *)
(* body was read to its end, and cancels the request's context, under      *)
(* which the upstream is called and the row written.                       *)
Without(state, k) ==
  [state |-> state, at |-> NoGateway, cred |-> k, row |-> "none", conn |-> "none"]

HandlerStates == {"accepted", "reading", "calling", "answered", "replying", "refusing"}
EndStates == {"replied", "refused", "cut"}

Active(r) == request[r].state \in HandlerStates
At(g) == {r \in Requests : request[r].at = g /\ Active(r)}

Gone(r) == request[r].conn \in {"left", "noticed"}
Cancelled(r) == request[r].conn = "noticed"

Step(r, from, to) ==
  /\ request[r].state = from
  /\ request' = [request EXCEPT ![r].state = to]

EndIn(h, state) == [h EXCEPT !.state = state, !.conn = "none"]

(* The process is no more, and with it the connections it had. *)
Vanish(p) ==
  /\ Move(p, "gone")
  /\ listener' = [g \in Gateways |-> IF g = p THEN "closed" ELSE listener[g]]
  /\ request' = [r \in Requests |->
                   IF r \in At(p) THEN EndIn(request[r], "cut") ELSE request[r]]

-----------------------------------------------------------------------------
(* Signing *)

(* Mutant: a key is generated for the process although one was loaded. *)
SignAfresh(p, r) ==
  /\ request[r].state = "none"
  /\ request' = [request EXCEPT ![r] = Without("unsent", p)]

Sign(p, r) ==
  /\ request[r].state = "none"
  /\ request' = [request EXCEPT ![r] = Without("unsent", key[p])]

(* task create: the command signs, prints and returns. *)
CreateTask(p, r) ==
  /\ p \in Clients /\ phase[p] = "ready"
  /\ Sign(p, r)
  /\ Move(p, "gone")
  /\ UNCHANGED <<file, key, contested, listener, ending>>

(* POST /api/v1/tasks. *)
CreateTaskAtGateway(g, r) ==
  /\ listener[g] = "open"
  /\ Sign(g, r)
  /\ UNCHANGED <<keyVars, listener, ending>>

-----------------------------------------------------------------------------
(* runServe *)

StoreOpen(g) == phase[g] \notin {"off", "closed", "gone"}

(* Mutant: the address of a gateway that still listens is taken over. *)
ListenAnyway(g) ==
  /\ phase[g] \in {"ready", "signalled"} /\ listener[g] = "none"
  /\ listener' = [listener EXCEPT ![g] = "open"]
  /\ UNCHANGED <<keyVars, ending, request>>

(* The goroutine's ListenAndServe. *)
Listen(g) ==
  /\ phase[g] \in {"ready", "signalled"} /\ listener[g] = "none"
  /\ \A h \in Gateways : listener[h] # "open"
  /\ listener' = [listener EXCEPT ![g] = "open"]
  /\ UNCHANGED <<keyVars, ending, request>>

(* The address is taken: os.Exit(1), past every defer. *)
ListenErrs(g) ==
  /\ phase[g] \in {"ready", "signalled"} /\ listener[g] = "none"
  /\ \E h \in Gateways : listener[h] = "open"
  /\ Vanish(g)
  /\ ending' = [ending EXCEPT ![g] = "killed"]
  /\ UNCHANGED <<file, key, contested>>

(* SIGINT or SIGTERM, once NotifyContext is in place; a second one is      *)
(* swallowed, because stop is deferred.                                    *)
Signal(g) ==
  /\ g \in Gateways /\ phase[g] = "ready"
  /\ Move(g, "signalled")
  /\ UNCHANGED <<file, key, contested, serveVars>>

(* httpServer.Shutdown closes the listener first. *)
Shutdown(g) ==
  /\ phase[g] = "signalled"
  /\ Move(g, "draining")
  /\ listener' = [listener EXCEPT ![g] = "closed"]
  /\ UNCHANGED <<file, key, contested, ending, request>>

(* Mutant: Shutdown does not wait for the handlers, as Close does not. *)
StopAtOnce(g) ==
  /\ phase[g] = "draining"
  /\ Move(g, "closing")
  /\ ending' = [ending EXCEPT ![g] = "drained"]
  /\ UNCHANGED <<file, key, contested, listener, request>>

Drained(g) ==
  /\ phase[g] = "draining" /\ At(g) = {}
  /\ Move(g, "closing")
  /\ ending' = [ending EXCEPT ![g] = "drained"]
  /\ UNCHANGED <<file, key, contested, listener, request>>

(* Mutant: Shutdown is given a context that has no deadline. *)
NeverExpires(g) == FALSE

(* The context of Shutdown expires, perhaps just as the last handler ends. *)
GraceExpires(g) ==
  /\ phase[g] = "draining"
  /\ Move(g, "closing")
  /\ ending' = [ending EXCEPT ![g] = "timed out"]
  /\ UNCHANGED <<file, key, contested, listener, request>>

(* The deferred calls, and the return from main. *)
CloseStore(g) ==
  /\ phase[g] = "closing"
  /\ Move(g, "closed")
  /\ UNCHANGED <<file, key, contested, serveVars>>

Exit(g) ==
  /\ phase[g] = "closed"
  /\ Vanish(g)
  /\ UNCHANGED <<file, key, contested, ending>>

(* A crash, a kill, or an error of the start that leaves nothing behind. *)
Die(p) ==
  /\ phase[p] \notin {"off", "gone"}
  /\ Vanish(p)
  /\ ending' = [g \in Gateways |-> IF g = p THEN "killed" ELSE ending[g]]
  /\ UNCHANGED <<file, key, contested>>

-----------------------------------------------------------------------------
(* A handler *)

Accept(g, r) ==
  /\ listener[g] = "open"
  /\ request[r].state = "unsent"
  /\ request' = [request EXCEPT ![r].state = "accepted", ![r].at = g,
                              ![r].conn = "open"]
  /\ UNCHANGED <<keyVars, listener, ending>>

(* ValidateCredential: the signature, then the rows of the chain, which    *)
(* may refuse it, too.                                                     *)
Authenticate(r) ==
  /\ request[r].state = "accepted"
  /\ \/ request[r].cred # key[request[r].at] /\ Step(r, "accepted", "refusing")
     \/ request[r].cred = key[request[r].at] /\ Step(r, "accepted", "replying")
     \/ /\ request[r].cred = key[request[r].at] /\ StoreOpen(request[r].at)
        /\ Step(r, "accepted", "reading")
  /\ UNCHANGED <<keyVars, listener, ending>>

(* The body is decoded: a call of a tool, one to be denied, or a request   *)
(* that ends without a row.                                                *)
ReadBody(r) ==
  /\ request[r].state = "reading"
  /\ \E to \in {"calling", "answered", "replying"},
        conn \in {request[r].conn} \cup (IF Gone(r) THEN {"noticed"} ELSE {}) :
       request' = [request EXCEPT ![r].state = to, ![r].conn = conn]
  /\ UNCHANGED <<keyVars, listener, ending>>

(* The upstream answers, or fails: when it likes, and perhaps never. *)
UpstreamAnswers(r) ==
  /\ Step(r, "calling", "answered")
  /\ UNCHANGED <<keyVars, listener, ending>>

(* Mutant: the call of the upstream is not made under the request's        *)
(* context.                                                                *)
CallGoesOn(r) == FALSE

(* The call of the upstream returns because its context is cancelled. *)
CallCancelled(r) ==
  /\ Cancelled(r)
  /\ Step(r, "calling", "answered")
  /\ UNCHANGED <<keyVars, listener, ending>>

(* Emit: the row is not written in a store that is closed, or under a      *)
(* cancelled context.  Its error is not looked at.                         *)
Emit(r) ==
  /\ request[r].state = "answered"
  /\ request' = [request EXCEPT ![r].state = "replying",
                   ![r].row = IF Cancelled(r) THEN "cancelled"
                              ELSE IF StoreOpen(request[r].at) THEN "written"
                              ELSE "store closed"]
  /\ UNCHANGED <<keyVars, listener, ending>>

(* The reply is written; net/http may first take in what is left of the    *)
(* body.                                                                   *)
Reply(r) ==
  /\ \/ /\ request[r].state = "replying"
        /\ request' = [request EXCEPT ![r] = EndIn(@, "replied")]
     \/ /\ request[r].state = "refusing"
        /\ request' = [request EXCEPT ![r] = EndIn(@, "refused")]
  /\ UNCHANGED <<keyVars, listener, ending>>

(* The client hangs up.  Decode may have left the end of the body unread,  *)
(* and then nobody notices.                                                *)
ClientLeaves(r) ==
  /\ Active(r) /\ ~Gone(r)
  /\ \E conn \in {"left"} \cup
                 (IF request[r].state \in {"calling", "answered"} THEN {"noticed"} ELSE {}) :
       request' = [request EXCEPT ![r].conn = conn]
  /\ UNCHANGED <<keyVars, listener, ending>>

-----------------------------------------------------------------------------
Init ==
  /\ KeyInit
  /\ listener = [g \in Gateways |-> "none"]
  /\ ending = [g \in Gateways |-> "none"]
  /\ \/ request = [r \in Requests |-> Without("none", NoKey)]
     \/ file = Earlier /\ request = [r \in Requests |-> Without("unsent", Earlier)]

MainStep(g) ==
  Shutdown(g) \/ Drained(g) \/ GraceExpires(g) \/ CloseStore(g) \/ Exit(g)

(* What a handler does by itself.  A read or a write on a connection that  *)
(* its client has closed returns; on another it is up to the client.       *)
HandlerStep(r) ==
  \/ Authenticate(r) \/ CallCancelled(r) \/ Emit(r)
  \/ Gone(r) /\ (ReadBody(r) \/ Reply(r))

(* What the client and the upstream do, or the handler when they let it. *)
PeerStep(r) == ReadBody(r) \/ UpstreamAnswers(r) \/ Reply(r) \/ ClientLeaves(r)

Next ==
  \/ \E p \in Procs : (Start(p) /\ UNCHANGED serveVars) \/ Die(p)
  \/ \E g \in Gateways :
       \/ Listen(g) \/ ListenErrs(g) \/ Signal(g)
       \/ MainStep(g)
  \/ \E r \in Requests :
       \/ \E p \in Procs : CreateTask(p, r)
       \/ \E g \in Gateways : CreateTaskAtGateway(g, r) \/ Accept(g, r)
       \/ HandlerStep(r) \/ PeerStep(r)

Spec == Init /\ [][Next]_vars

(* Goroutines are scheduled and the timer of Shutdown fires.  Nobody owes  *)
(* a signal, a request, the rest of its body, the taking of a reply, or an *)
(* answer of the upstream.                                                 *)
FairSpec ==
  /\ Spec
  /\ \A g \in Gateways : WF_vars(MainStep(g))
  /\ \A r \in Requests : WF_vars(HandlerStep(r))

-----------------------------------------------------------------------------
Phase ==
  Starting \cup {"off", "ready", "signalled", "draining", "closing", "closed", "gone"}

Handling ==
  [state : {"none", "unsent"} \cup HandlerStates \cup EndStates,
   at : {NoGateway} \cup Gateways,
   cred : {NoKey} \cup Keys,
   row : {"none", "written", "cancelled", "store closed"},
   conn : {"none", "open", "left", "noticed"}]

(* The state is of its kind; a listener belongs to a process that has a    *)
(* key, and one address has one listener (serve.go:77-96).                 *)
TypeOK ==
  /\ KeyTypeOK
  /\ phase \in [Procs -> Phase]
  /\ listener \in [Gateways -> {"none", "open", "closed"}]
  /\ ending \in [Gateways -> {"none", "drained", "timed out", "killed"}]
  /\ request \in [Requests -> Handling]
  /\ \A g \in Gateways : listener[g] = "open" => key[g] # NoKey
  /\ \A g, h \in Gateways : listener[g] = "open" /\ listener[h] = "open" => g = h

(* A credential that one process of the program signed is refused for its  *)
(* signature by another, or by a later one, only if the key file was       *)
(* contended for: two starts set out to generate a key, or one did over a  *)
(* key that was there, because its os.Stat failed for a reason of its own  *)
(* (jwt.go:79-89, helpers.go:78-88, server.go:86-90).                      *)
RefusedOnlyAfterRace ==
  \A r \in Requests : request[r].state \in {"refusing", "refused"} => contested

(* A graceful stop cuts no request off and loses no row: that takes the    *)
(* end of the grace period, or a crash (serve.go:43, 104-109: the store is *)
(* closed by a defer, after Shutdown).                                     *)
GracefulStopLosesNothing ==
  \A r \in Requests :
    \/ request[r].state = "cut"
    \/ request[r].row = "store closed"
    => ending[request[r].at] \in {"timed out", "killed"}

(* After a signal the process ends, even if an upstream never answers: the *)
(* handlers that wait for it are waited for no longer than the grace       *)
(* period (serve.go:98-106, client.go:47 without a timeout).               *)
SignalStops ==
  \A g \in Gateways : phase[g] = "signalled" ~> phase[g] = "gone"

(* A handler is held by its peers and by nothing else: by the client, that *)
(* does not send its body or take its reply, or by the upstream.  A client *)
(* that has left does not hold it, and the upstream holds it then only if  *)
(* the body was not read to its end, as nobody watches for the hang-up     *)
(* (server.go:86-94, 165-196, client.go:57 under the request's context,    *)
(* serve.go:78-81 without a ReadTimeout or a WriteTimeout).                *)
HeldByClient(r) ==
  ~Gone(r) /\ request[r].state \in {"reading", "replying", "refusing"}

HeldByUpstream(r) == request[r].state = "calling" /\ ~Cancelled(r)

WaitsOnlyForItsPeers ==
  \A r \in Requests :
    Active(r) ~> ~Active(r) \/ HeldByClient(r) \/ HeldByUpstream(r)
==============================================================================
