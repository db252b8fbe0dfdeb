--------------------------- MODULE OwnedPrograms ----------------------------
(***************************************************************************)
(* What substrate/PROGRAMS.md promises of the owned-program manager, with  *)
(* no gate, no sites and no VMs.  Programs are published, attached and     *)
(* retired in single steps, and a hooked call is answered in a single      *)
(* step: it runs either every enabled entry attached to its function, or   *)
(* none at all (a control operation was busy, or the call was late).  A    *)
(* call never sees half of a control operation.                            *)
(***************************************************************************)
EXTENDS Integers

CONSTANTS Programs, Entries, Addresses, Threads, SafeValues, Modes, DISABLE, ENFORCE, NoAddress

VARIABLES
  published,  \* the programs that are loaded
  mode,       \* the mode of each program
  hooks,      \* the attachments <<program, entry, function>>
  safe,       \* the safe value of each entry
  phase,      \* where each thread's call is
  func,       \* the function each thread called
  outcome     \* what the call ran and returned

vars == <<published, mode, hooks, safe, phase, func, outcome>>

Pending == [ran |-> {}, suppressed |-> FALSE, value |-> 0]

Init ==
  /\ published = {}
  /\ mode = [id \in Programs |-> DISABLE]
  /\ hooks = {}
  /\ safe = [id \in Programs |-> [e \in Entries |-> 0]]
  /\ phase = [t \in Threads |-> "idle"]
  /\ func = [t \in Threads |-> NoAddress]
  /\ outcome = [t \in Threads |-> Pending]

calls == <<phase, func, outcome>>

\* Storage of an unpublished program is nobody's: loading may change it.
Prepare(id) ==
  /\ id \notin published
  /\ \E f \in [Entries -> SafeValues \union {0}] : safe' = [safe EXCEPT ![id] = f]
  /\ UNCHANGED <<published, mode, hooks, calls>>

Publish(id) ==
  /\ id \notin published
  /\ published' = published \union {id}
  /\ UNCHANGED <<mode, hooks, safe, calls>>

SetMode(id, m) ==
  /\ id \in published
  /\ mode' = [mode EXCEPT ![id] = m]
  /\ UNCHANGED <<published, hooks, safe, calls>>

Attach(id, e, a) ==
  /\ id \in published
  /\ \A h \in hooks : ~(h[1] = id /\ h[2] = e)
  /\ hooks' = hooks \union {<<id, e, a>>}
  /\ UNCHANGED <<published, mode, safe, calls>>

Detach(h) ==
  /\ hooks' = hooks \ {h}
  /\ UNCHANGED <<published, mode, safe, calls>>

\* A program is reclaimed disabled and detached.
Retire(id) ==
  /\ id \in published /\ mode[id] = DISABLE
  /\ \A h \in hooks : h[1] # id
  /\ published' = published \ {id}
  /\ safe' = [safe EXCEPT ![id] = [e \in Entries |-> 0]]
  /\ UNCHANGED <<mode, hooks, calls>>

Call(t, a) ==
  /\ phase[t] = "idle"
  /\ phase' = [phase EXCEPT ![t] = "called"]
  /\ func' = [func EXCEPT ![t] = a]
  /\ UNCHANGED <<published, mode, hooks, safe, outcome>>

\* The entries a call of function a has to run.
Due(a) == {<<h[1], h[2]>> : h \in {x \in hooks : x[3] = a /\ mode[x[1]] # DISABLE}}

Answer(t) ==
  /\ phase[t] = "called"
  /\ phase' = [phase EXCEPT ![t] = "answered"]
  /\ \E ran \in {{}, Due(func[t])}, suppressed \in BOOLEAN, value \in SafeValues \union {0} :
       /\ suppressed => \E p \in ran : mode[p[1]] = ENFORCE /\ safe[p[1]][p[2]] = value
       /\ outcome' = [outcome EXCEPT ![t] =
                        [ran |-> ran, suppressed |-> suppressed, value |-> value]]
  /\ UNCHANGED <<published, mode, hooks, safe, func>>

Resume(t) ==
  /\ phase[t] = "answered"
  /\ phase' = [phase EXCEPT ![t] = "idle"]
  /\ outcome' = [outcome EXCEPT ![t] = Pending]
  /\ func' = [func EXCEPT ![t] = NoAddress]
  /\ UNCHANGED <<published, mode, hooks, safe>>

Next ==
  \/ \E id \in Programs :
       \/ Prepare(id) \/ Publish(id) \/ Retire(id)
       \/ \E m \in Modes : SetMode(id, m)
       \/ \E e \in Entries, a \in Addresses : Attach(id, e, a)
  \/ \E h \in hooks : Detach(h)
  \/ \E t \in Threads : (\E a \in Addresses : Call(t, a)) \/ Answer(t) \/ Resume(t)

Spec == Init /\ [][Next]_vars
=============================================================================
