------------------------------- MODULE KeyFile -------------------------------
(***************************************************************************)
(* The start of every run of the program: initService of                   *)
(* cmd/agentid/helpers.go, with LoadOrGenerateKeyPair and SaveKeyPair of   *)
(* pkg/identity/jwt.go.  The gateway and every command line task command   *)
(* go through it, each a process of its own, and the key file is all that  *)
(* makes the credentials of one verify in another.                         *)
(*                                                                         *)
(* The file is tested, and written, in several steps of the file system;   *)
(* another process may take its own in between, and a process may die      *)
(* anywhere.  A key is named by the process that generates it.             *)
(***************************************************************************)
EXTENDS FiniteSets, Naturals

CONSTANT Procs   \* the runs of the program, by name

NoKey == "none"
Absent == "absent"
Torn == "torn"          \* truncated or partly written: LoadKeyPair finds no key
Earlier == "earlier"    \* the key of an earlier run

ASSUME ProcsAssumption == Procs \cap {NoKey, Absent, Torn, Earlier} = {}

Keys == Procs \cup {Earlier}

VARIABLES file,       \* what is at cfg.Identity.KeyFile
          phase,      \* where each process is
          key,        \* the key pair it works with
          contested   \* history: a process set out to generate a key although
                      \* there was one, or another had set out to

keyVars == <<file, phase, key, contested>>

Move(p, to) == phase' = [phase EXCEPT ![p] = to]

Starting == {"opened", "loading", "generating", "writing"}

-----------------------------------------------------------------------------
(* The configuration is read and the store opened; from here on it takes   *)
(* Leave to close it.                                                      *)
OpenStore(p) ==
  /\ phase[p] = "off"
  /\ Move(p, "opened")
  /\ UNCHANGED <<file, key, contested>>

SetOutToGenerate(p) ==
  /\ Move(p, "generating")
  /\ contested' = \/ contested
                  \/ file # Absent
                  \/ \E q \in Procs \ {p} : phase[q] = "generating"
  /\ UNCHANGED <<file, key>>

Stat(p) ==
  /\ phase[p] = "opened"
  /\ IF file = Absent
       THEN SetOutToGenerate(p)
       ELSE Move(p, "loading") /\ UNCHANGED <<file, key, contested>>

(* os.Stat returns an error for a reason of its own: the code does not ask *)
(* which.                                                                  *)
StatErrs(p) ==
  /\ phase[p] = "opened"
  /\ SetOutToGenerate(p)

(* LoadKeyPair; its errors end the process, the store closed. *)
Load(p) ==
  /\ phase[p] = "loading"
  /\ IF file \in Keys
       THEN key' = [key EXCEPT ![p] = file] /\ Move(p, "ready")
       ELSE Move(p, "gone") /\ UNCHANGED key
  /\ UNCHANGED <<file, contested>>

(* SaveKeyPair: os.WriteFile creates the file, or truncates it... *)
CreateFile(p) ==
  /\ phase[p] = "generating"
  /\ \/ file' = Torn /\ Move(p, "writing")
     \/ UNCHANGED file /\ Move(p, "gone")
  /\ UNCHANGED <<key, contested>>

(* ... and then writes it, whatever has become of it meanwhile. *)
WriteFile(p) ==
  /\ phase[p] = "writing"
  /\ file' = p
  /\ key' = [key EXCEPT ![p] = p]
  /\ Move(p, "ready")
  /\ UNCHANGED contested

(* Mutant: the process goes on with a key that was not saved. *)
UseUnsaved(p) ==
  /\ phase[p] = "writing"
  /\ key' = [key EXCEPT ![p] = p]
  /\ Move(p, "ready")
  /\ UNCHANGED <<file, contested>>

WriteErrs(p) ==
  /\ phase[p] = "writing"
  /\ Move(p, "gone")
  /\ UNCHANGED <<file, key, contested>>

KeyInit ==
  /\ file \in {Absent, Torn, Earlier}
  /\ phase = [p \in Procs |-> "off"]
  /\ key = [p \in Procs |-> NoKey]
  /\ contested = FALSE

Start(p) ==
  \/ OpenStore(p)
  \/ Stat(p) \/ StatErrs(p)
  \/ Load(p)
  \/ CreateFile(p) \/ WriteFile(p) \/ WriteErrs(p)

-----------------------------------------------------------------------------
KeyTypeOK ==
  /\ file \in {Absent, Torn} \cup Keys
  /\ key \in [Procs -> {NoKey} \cup Keys]
  /\ contested \in BOOLEAN

(* As long as the key file is not contended for (no two processes set out  *)
(* to generate a key, and none does over a file that is there because its  *)
(* os.Stat failed for a reason of its own), every process that has a key   *)
(* has the one on file, whole: no other order of the steps of any number   *)
(* of starts, failures and crashes separates them (jwt.go:78-90,           *)
(* helpers.go:78-88).                                                      *)
KeysAgree ==
  ~contested => \A p \in Procs : key[p] # NoKey => key[p] = file
==============================================================================
