---------------------------- MODULE RuntimeState ----------------------------
(***************************************************************************)
(* What an operator sets at run time and the server keeps in files: the    *)
(* jobs disabled from the UI (runner.go SetDisabled, state.json) and the   *)
(* key of the API (web.go RotateAPIKey, apikey).  Each request runs in a   *)
(* goroutine of its own; a file is emptied and then written.               *)
(***************************************************************************)
EXTENDS Integers, FiniteSetsExt

CONSTANTS
  Name,
  Handler,      (* requests in progress at once                            *)
  MaxRequests   (* bounds the requests                                     *)

ASSUME RuntimeStateAssumption ==
  /\ Name # {} /\ IsFiniteSet(Name)
  /\ MaxRequests \in Nat

VARIABLES
  disabled,  (* rn.disabled                                                *)
  state,     (* state.json                                                 *)
  apikey,    (* the key that is accepted                                   *)
  keyFile,   (* the key in the file, or nothing                            *)
  h,         (* Handler -> the request it serves                           *)
  keys,      (* keys made so far: one for each rotation and each start     *)
  requests   (* requests accepted so far (bound)                           *)

diskVars == <<state, keyFile>>
stateVars == <<disabled, diskVars, apikey, h, keys, requests>>

NoKey == 0

(* A file of disabled names: valid or not, the set it holds, and the length  *)
(* of its text, which grows with the set.                                    *)
File == [ok : BOOLEAN, set : SUBSET Name, length : Nat]
Empty == [ok |-> FALSE, set |-> {}, length |-> 0]
TextLength(set) == 1 + Cardinality(set)

(* What is in a file after a write from its start: a longer text that was    *)
(* there before keeps its tail, and the whole is no JSON any more.           *)
Overwrite(f, set) ==
  [ok |-> TextLength(set) >= f.length, set |-> set,
   length |-> Max({TextLength(set), f.length})]

(* LoadDisabled: a file that is missing or invalid disables nothing.         *)
Loaded(f) == IF f.ok THEN f.set ELSE {}

Requests ==
  [pc : {"idle", "set", "open", "write", "openKey", "writeKey", "install"},
   name : Name, off : BOOLEAN, snapshot : SUBSET Name, key : Nat]

Idle == [pc |-> "idle", name |-> CHOOSE n \in Name : TRUE, off |-> FALSE,
         snapshot |-> {}, key |-> NoKey]

StateInit ==
  /\ disabled = {} /\ state = Empty
  /\ apikey = 1 /\ keyFile = 1 /\ keys = 1
  /\ h = [g \in Handler |-> Idle]
  /\ requests = 0

At(g, pc) == h[g].pc = pc

Accept(g, request) ==
  /\ At(g, "idle") /\ requests < MaxRequests
  /\ requests' = requests + 1
  /\ h' = [h EXCEPT ![g] = request]

-----------------------------------------------------------------------------
(* Disabling and enabling a job.                                             *)

(* apiSetDisabled; or handleToggle, which asks for the opposite of what      *)
(* IsDisabled said before, and may ask for either by the time it is served.  *)
Ask(g) ==
  /\ \E n \in Name, off \in BOOLEAN :
       Accept(g, [Idle EXCEPT !.pc = "set", !.name = n, !.off = off])
  /\ UNCHANGED <<disabled, diskVars, apikey, keys>>

(* Mutant: the snapshot is taken before the change. *)
SetDisabledLate(g) ==
  /\ At(g, "set")
  /\ disabled' = IF h[g].off THEN disabled \cup {h[g].name} ELSE disabled \ {h[g].name}
  /\ h' = [h EXCEPT ![g].pc = "open", ![g].snapshot = disabled]
  /\ UNCHANGED <<diskVars, apikey, keys, requests>>

(* SetDisabled under the lock, with the snapshot to save.                    *)
SetDisabled(g) ==
  /\ At(g, "set")
  /\ disabled' = IF h[g].off THEN disabled \cup {h[g].name} ELSE disabled \ {h[g].name}
  /\ h' = [h EXCEPT ![g].pc = "open", ![g].snapshot = disabled']
  /\ UNCHANGED <<diskVars, apikey, keys, requests>>

(* SaveDisabled, after the unlock: os.WriteFile empties the file ...         *)
OpenState(g) ==
  /\ At(g, "open")
  /\ state' = Empty
  /\ h' = [h EXCEPT ![g].pc = "write"]
  /\ UNCHANGED <<disabled, apikey, keyFile, keys, requests>>

(* ... and writes it.                                                        *)
WriteState(g) ==
  /\ At(g, "write")
  /\ state' = Overwrite(state, h[g].snapshot)
  /\ h' = [h EXCEPT ![g] = Idle]
  /\ UNCHANGED <<disabled, apikey, keyFile, keys, requests>>

-----------------------------------------------------------------------------
(* RotateAPIKey; every key has the same length.                              *)

Rotate(g) ==
  /\ Accept(g, [Idle EXCEPT !.pc = "openKey", !.key = keys + 1])
  /\ keys' = keys + 1
  /\ UNCHANGED <<disabled, diskVars, apikey>>

OpenKey(g) ==
  /\ At(g, "openKey")
  /\ keyFile' = NoKey
  /\ h' = [h EXCEPT ![g].pc = "writeKey"]
  /\ UNCHANGED <<disabled, state, apikey, keys, requests>>

WriteKey(g) ==
  /\ At(g, "writeKey")
  /\ keyFile' = h[g].key
  /\ h' = [h EXCEPT ![g].pc = "install"]
  /\ UNCHANGED <<disabled, state, apikey, keys, requests>>

Install(g) ==
  /\ At(g, "install")
  /\ apikey' = h[g].key
  /\ h' = [h EXCEPT ![g] = Idle]
  /\ UNCHANGED <<disabled, diskVars, keys, requests>>

-----------------------------------------------------------------------------
(* The server dies: the requests are gone, the files are as they are.        *)
StateLost ==
  /\ h' = [g \in Handler |-> Idle]
  /\ UNCHANGED <<disabled, diskVars, apikey, keys, requests>>

(* NewRunner: what state.json holds.                                         *)
LoadState ==
  /\ disabled' = Loaded(state)
  /\ UNCHANGED <<diskVars, apikey, h, keys, requests>>

(* Mutant: a new key is not saved. *)
NewKeyUnsaved ==
  /\ IF keyFile # NoKey THEN apikey' = keyFile /\ UNCHANGED keys
     ELSE apikey' = keys + 1 /\ keys' = keys + 1
  /\ UNCHANGED <<disabled, diskVars, h, requests>>

(* NewServer: the key in the file, or a new one where there is none.         *)
LoadKey ==
  /\ IF keyFile # NoKey THEN apikey' = keyFile /\ UNCHANGED <<keyFile, keys>>
     ELSE apikey' = keys + 1 /\ keyFile' = keys + 1 /\ keys' = keys + 1
  /\ UNCHANGED <<disabled, state, h, requests>>

StateStep(g) ==
  \/ SetDisabled(g) \/ OpenState(g) \/ WriteState(g)
  \/ OpenKey(g) \/ WriteKey(g) \/ Install(g)

AllAnswered == \A g \in Handler : At(g, "idle")

-----------------------------------------------------------------------------
StateTypeOK ==
  /\ disabled \subseteq Name /\ state \in File
  /\ apikey \in 1..keys /\ keyFile \in 0..keys /\ keys \in Nat
  /\ h \in [Handler -> Requests]
  /\ requests \in 0..MaxRequests
=============================================================================
