--------------------------- MODULE ProgramManager ---------------------------
(***************************************************************************)
(* The owned-program manager of substrate/ls_program_impl.h: its           *)
(* writer/readers gate, the six operations that the prepare thread runs,   *)
(* and the data-path dispatch that any TMM thread runs.  The legacy ARM    *)
(* and DISARM requests of ls_vm_load.c, which share trampoline sites with  *)
(* the manager, run on the loader thread.                                  *)
(*                                                                         *)
(* Three kinds of actors interleave:                                       *)
(*   - the control thread (cpc), one operation at a time;                  *)
(*   - the loader thread (lpc), arming legacy hooks;                       *)
(*   - the data-path threads (tpc), each inside at most one hooked call.   *)
(*                                                                         *)
(* A return_ip is address + pad + 5 and stands for the function, so it is  *)
(* modelled by the function's address.  A VM is named by the instance that *)
(* created it, 0 being the cleared slot.                                   *)
(***************************************************************************)
EXTENDS Integers, FiniteSets

CONSTANTS
  ProgramMax,     \* LS_PROGRAM_MAX: program slots, 0 .. ProgramMax - 1
  EntryMax,       \* LS_PROGRAM_ENTRIES: entries of one program
  SiteMax,        \* LS_PROGRAM_SITES: trampoline sites
  Addresses,      \* the patchable functions
  LegacySlots,    \* the slots that hold a bound legacy program
  Threads,        \* the data-path threads
  Ceilings,       \* the signed mode ceilings that programs are loaded with
  SafeValues,     \* what LS_SHIELD_SAFE_VALUE may be when a slot is prepared
  MaxInstances,   \* bound: loads attempted in one behaviour
  NoAddress, NoSite

ASSUME ProgramManagerAssumption ==
  /\ ProgramMax \in Nat \ {0} /\ EntryMax \in Nat \ {0} /\ SiteMax \in Nat \ {0}
  /\ MaxInstances \in Nat
  /\ Ceilings \subseteq 0 .. 2
  /\ LegacySlots \subseteq 0 .. SiteMax - 1
  /\ IsFiniteSet(Threads)
  /\ NoAddress \notin Addresses
  /\ NoSite \notin 0 .. SiteMax - 1

Programs == 0 .. ProgramMax - 1
Entries  == 0 .. EntryMax - 1
Sites    == 0 .. SiteMax - 1
Slots    == Programs \X Entries

DISABLE == 0
MONITOR == 1
ENFORCE == 2
Modes   == {DISABLE, MONITOR, ENFORCE}

FALLTHROUGH == "fallthrough"
SAFE_RETURN == "safe_return"

VARIABLES
  writer,    \* g_programs.writer
  readers,   \* g_programs.readers
  instance,  \* programs[id].instance, 0 when unpublished
  count,     \* programs[id].count
  mode,      \* programs[id].mode
  ceiling,   \* programs[id].ceiling
  address,   \* programs[id].entries[i].address
  link,      \* programs[id].sites[i], NoSite for -1
  slot,      \* g_slots[ls_program_slot(id, i)]: its VM, mode and safe value
  config,    \* the instance bound in the program's configuration slot, or 0
  site,      \* g_programs.sites[i]
  pad,       \* the text of each function: NoSite (the NOPs) or a call to a site
  legacy,    \* targets[i].target.entry of an attached legacy hook, or NoAddress
  issued,    \* instances issued so far
  cpc, req,  \* the control thread: where it is and the request it runs
  cur,       \* its loop index
  lpc, lreq, \* the loader thread: where it is and the ARM request
  raced,     \* history: an ARM and an attach were at the same text together
  tpc,       \* the data-path threads: where each is
  call       \* the call each is in

progVars == <<instance, count, mode, ceiling, address, link, slot, config>>
siteVars == <<site, pad>>
ctlVars  == <<cpc, req, cur>>
lodVars  == <<legacy, lpc, lreq, raced>>
thrVars  == <<tpc, call>>
vars     == <<writer, readers, progVars, siteVars, issued, ctlVars, lodVars, thrVars>>

-----------------------------------------------------------------------------
(* The values the variables take.                                          *)

EmptySlot == [vm |-> 0, mode |-> DISABLE, safe |-> 0]
EmptySite == [address |-> NoAddress, safe |-> 0, users |-> 0, owned |-> FALSE]
NoCall    == [site |-> NoSite, address |-> NoAddress, owned |-> FALSE,
              last |-> <<-1, 0>>, vm |-> 0, mode |-> DISABLE,
              ran |-> {}, verdict |-> FALLTHROUGH, safe |-> 0]
MkRequest(op, id, inst, e, n, f, m) ==
  [op |-> op, id |-> id, inst |-> inst, entry |-> e, n |-> n, targets |-> f, arg |-> m]
NoTargets == [e \in Entries |-> NoAddress]
NoRequest == MkRequest("none", 0, 0, 0, 0, NoTargets, DISABLE)

ControlPc == {"idle", "prepare", "unwind", "exchange", "readers", "publish",
              "mode", "attach", "check", "patch", "reserve", "detach",
              "disable", "detach all", "config", "destroy", "unlock", "unlock fail"}
\* The control thread holds the gate exclusively.
Critical  == {"publish", "mode", "attach", "check", "patch", "reserve", "detach",
              "disable", "detach all", "config", "destroy", "unlock", "unlock fail"}
ThreadPc  == {"idle", "tramp", "gate", "busy", "enter", "loop", "run",
              "leave", "legacy", "done"}
\* A data-path thread counted in g_programs.readers.
Counted   == {"gate", "busy", "enter", "loop", "run", "leave"}
\* A data-path thread that passed the writer check.
Inside    == {"enter", "loop", "run", "leave"}

Init ==
  /\ writer = 0 /\ readers = 0
  /\ instance = [id \in Programs |-> 0]
  /\ count = [id \in Programs |-> 0]
  /\ mode = [id \in Programs |-> DISABLE]
  /\ ceiling = [id \in Programs |-> DISABLE]
  /\ address = [id \in Programs |-> [e \in Entries |-> NoAddress]]
  /\ link = [id \in Programs |-> [e \in Entries |-> NoSite]]
  /\ slot = [id \in Programs |-> [e \in Entries |-> EmptySlot]]
  /\ config = [id \in Programs |-> 0]
  /\ site = [s \in Sites |-> EmptySite]
  /\ pad = [a \in Addresses |-> NoSite]
  /\ legacy = [s \in Sites |-> NoAddress]
  /\ issued = 0
  /\ cpc = "idle" /\ req = NoRequest /\ cur = 0
  /\ lpc = "idle" /\ lreq = [site |-> 0, address |-> NoAddress] /\ raced = FALSE
  /\ tpc = [t \in Threads |-> "idle"]
  /\ call = [t \in Threads |-> NoCall]

-----------------------------------------------------------------------------
(* The gate.  ls_program_lock is an exchange of the writer flag and then a *)
(* load of the reader count; a reader counts itself and then loads the     *)
(* writer flag.  Each access is a step of its own.                         *)

\* The control thread goes on to the body of the request it runs.
Body == CASE req.op = "load"   -> "publish"
          [] req.op = "mode"   -> "mode"
          [] req.op = "attach" -> "attach"
          [] req.op = "detach" -> "detach"
          [] req.op = "revoke" -> "disable"
          [] OTHER -> "unlock"

Goto(pc) == cpc' = pc /\ UNCHANGED <<req, cur>>
Return   == cpc' = "idle" /\ req' = NoRequest /\ cur' = 0

\* A request that could not take the gate fails; a load releases its VMs first.
Refuse == IF req.op = "load" THEN Goto("unwind") ELSE Return

LockExchange ==
  /\ cpc = "exchange"
  /\ writer' = 1
  /\ IF writer = 1 THEN Refuse ELSE Goto("readers")
  /\ UNCHANGED <<readers, progVars, siteVars, issued, lodVars, thrVars>>

\* Mutated forms: the reader count is ignored; the writer waits for it.
LockReadersIgnored ==
  /\ cpc = "readers"
  /\ Goto(Body)
  /\ UNCHANGED <<writer, readers, progVars, siteVars, issued, lodVars, thrVars>>

LockReadersWaits ==
  /\ cpc = "readers" /\ readers = 0
  /\ Goto(Body)
  /\ UNCHANGED <<writer, readers, progVars, siteVars, issued, lodVars, thrVars>>

LockReaders ==
  /\ cpc = "readers"
  /\ writer' = IF readers = 0 THEN writer ELSE 0
  /\ IF readers = 0 THEN Goto(Body) ELSE Refuse
  /\ UNCHANGED <<readers, progVars, siteVars, issued, lodVars, thrVars>>

Unlock ==
  /\ cpc \in {"unlock", "unlock fail"}
  /\ writer' = 0
  /\ IF cpc = "unlock fail" THEN Refuse ELSE Return
  /\ UNCHANGED <<readers, progVars, siteVars, issued, lodVars, thrVars>>

-----------------------------------------------------------------------------
(* Requests.  The loader thread submits a request and waits for it, but    *)
(* not for ever: after the bounded wait of ls_prep_submit it goes back to  *)
(* its socket, and the operation it gave up begins or goes on beside any   *)
(* legacy ARM or DISARM.  Nothing below makes the two threads take turns.  *)

\* ls_program_find
Find(id, inst) == inst # 0 /\ instance[id] = inst

Begin(r, pc) ==
  /\ cpc = "idle"
  /\ req' = r
  /\ cpc' = pc
  /\ cur' = 0

\* ls_program_load up to the preparation loop: a free slot, distinct targets
\* and a fresh instance identity.
LoadBegin(id, n, targets, top) ==
  /\ instance[id] = 0
  /\ issued < MaxInstances
  /\ issued' = issued + 1
  /\ Begin(MkRequest("load", id, issued + 1, 0, n, targets, top), "prepare")
  /\ UNCHANGED <<writer, readers, progVars, siteVars, lodVars, thrVars>>

\* One turn of the preparation loop; the slot is prepared in DISABLE mode.
\* A refused section or a VM that cannot be built ends the loop.
LoadPrepare(safe) ==
  /\ cpc = "prepare" /\ cur < req.n
  /\ \/ /\ slot' = [slot EXCEPT ![req.id][cur] =
                       [vm |-> req.inst, mode |-> DISABLE, safe |-> safe]]
        /\ address' = [address EXCEPT ![req.id][cur] = req.targets[cur]]
        /\ link' = [link EXCEPT ![req.id][cur] = NoSite]
        /\ cur' = cur + 1
        /\ cpc' = IF cur + 1 = req.n THEN "exchange" ELSE "prepare"
     \/ /\ slot' = [slot EXCEPT ![req.id][cur] = EmptySlot]
        /\ cpc' = "unwind"
        /\ UNCHANGED <<address, link, cur>>
  /\ UNCHANGED <<writer, readers, instance, count, mode, ceiling, config,
                 siteVars, issued, req, lodVars, thrVars>>

\* Mutated form: the VMs made before the failure are leaked.
LoadUnwindLeaks ==
  /\ cpc = "unwind"
  /\ Return
  /\ UNCHANGED <<writer, readers, progVars, siteVars, issued, lodVars, thrVars>>

\* A failed load destroys every VM it made.
LoadUnwind ==
  /\ cpc = "unwind"
  /\ slot' = [slot EXCEPT ![req.id] =
                 [e \in Entries |-> IF e < cur THEN EmptySlot ELSE @[e]]]
  /\ Return
  /\ UNCHANGED <<writer, readers, instance, count, mode, ceiling, address, link,
                 config, siteVars, issued, lodVars, thrVars>>

\* Bind the configuration slot and publish.  ls_config_bind refuses when the
\* slot's sequence number is exhausted.
LoadPublish ==
  /\ cpc = "publish"
  /\ \/ /\ config' = [config EXCEPT ![req.id] = req.inst]
        /\ count' = [count EXCEPT ![req.id] = req.n]
        /\ ceiling' = [ceiling EXCEPT ![req.id] = req.arg]
        /\ instance' = [instance EXCEPT ![req.id] = req.inst]
        /\ cpc' = "unlock"
     \/ /\ cpc' = "unlock fail"
        /\ UNCHANGED <<config, count, ceiling, instance>>
  /\ UNCHANGED <<writer, readers, mode, address, link, slot, siteVars, issued,
                 req, cur, lodVars, thrVars>>

\* ls_program_mode
ModeBegin(id, inst, m) ==
  /\ Find(id, inst) /\ m <= ceiling[id]
  /\ Begin(MkRequest("mode", id, inst, 0, 0, NoTargets, m), "exchange")
  /\ UNCHANGED <<writer, readers, progVars, siteVars, issued, lodVars, thrVars>>

SetSlotModes(id, m) ==
  slot' = [slot EXCEPT ![id] =
             [e \in Entries |-> IF e < count[id] THEN [@[e] EXCEPT !.mode = m] ELSE @[e]]]

ModeSet ==
  /\ cpc = "mode"
  /\ mode' = [mode EXCEPT ![req.id] = req.arg]
  /\ SetSlotModes(req.id, req.arg)
  /\ cpc' = "unlock"
  /\ UNCHANGED <<writer, readers, instance, count, ceiling, address, link, config,
                 siteVars, issued, req, cur, lodVars, thrVars>>

-----------------------------------------------------------------------------
(* ls_program_attach                                                       *)

AttachBegin(id, inst, e) ==
  /\ Find(id, inst) /\ e < count[id] /\ link[id][e] = NoSite
  /\ Begin(MkRequest("attach", id, inst, e, 0, NoTargets, DISABLE), "exchange")
  /\ UNCHANGED <<writer, readers, progVars, siteVars, issued, lodVars, thrVars>>

AttachAddress == address[req.id][req.entry]
AttachSafe    == slot[req.id][req.entry].safe

\* The site already serving a function, if any: the first in index order.
Serving(s, a) ==
  /\ site[s].users # 0 /\ site[s].address = a
  /\ \A r \in Sites : r < s => ~(site[r].users # 0 /\ site[r].address = a)

\* Mutated form: the safe values are not compared.
AttachShareAnySafe ==
  /\ cpc = "attach"
  /\ \/ \E s \in Sites :
          /\ Serving(s, AttachAddress)
          /\ link' = [link EXCEPT ![req.id][req.entry] = s]
          /\ site' = [site EXCEPT ![s].users = @ + 1]
          /\ cpc' = "unlock"
     \/ /\ \A s \in Sites : ~Serving(s, AttachAddress)
        /\ cpc' = "check"
        /\ UNCHANGED <<link, site>>
  /\ cur' = 0
  /\ UNCHANGED <<writer, readers, instance, count, mode, ceiling, address, slot,
                 config, pad, issued, req, lodVars, thrVars>>

\* Share the site that already serves the function, provided the safe values
\* agree; otherwise look for a free site.
AttachShare ==
  /\ cpc = "attach"
  /\ \/ \E s \in Sites :
          /\ Serving(s, AttachAddress)
          /\ \/ /\ site[s].safe = AttachSafe
                /\ link' = [link EXCEPT ![req.id][req.entry] = s]
                /\ site' = [site EXCEPT ![s].users = @ + 1]
             \/ /\ site[s].safe # AttachSafe
                /\ UNCHANGED <<link, site>>
          /\ cpc' = "unlock"
     \/ /\ \A s \in Sites : ~Serving(s, AttachAddress)
        /\ cpc' = "check"
        /\ UNCHANGED <<link, site>>
  /\ cur' = 0
  /\ UNCHANGED <<writer, readers, instance, count, mode, ceiling, address, slot,
                 config, pad, issued, req, lodVars, thrVars>>

\* The part of ls_program_patch that looks for a legacy owner.
LegacyUses(s, a) == \E i \in Sites : legacy[i] # NoAddress /\ (i = s \/ legacy[i] = a)

\* An ARM has checked this site or function and not yet stored its hook.
ArmAt(s, a) == lpc = "arm" /\ (lreq.site = s \/ lreq.address = a)

\* An attach has checked this site or function and not yet reserved it.
AttachAt(s, a) == cpc \in {"patch", "reserve"} /\ (cur = s \/ AttachAddress = a)

\* One turn of the loop over free sites, as far as the legacy check and
\* ls_find_pad, which wants the NOPs in place.  No lock keeps what was checked
\* true until the text is written; a check passed while an ARM is between its
\* own check and its store, for the same site or function, is recorded.
AttachCheck ==
  /\ cpc = "check"
  /\ \/ /\ cur = SiteMax
        /\ cpc' = "unlock" /\ cur' = cur
        /\ UNCHANGED raced
     \/ /\ cur < SiteMax
        /\ IF /\ site[cur].users = 0 /\ ~LegacyUses(cur, AttachAddress)
              /\ pad[AttachAddress] = NoSite
             THEN /\ cpc' = "patch" /\ cur' = cur
                  /\ raced' = (raced \/ ArmAt(cur, AttachAddress))
             ELSE /\ cpc' = "check" /\ cur' = cur + 1
                  /\ UNCHANGED raced
  /\ UNCHANGED <<writer, readers, progVars, siteVars, issued, req, legacy, lpc, lreq, thrVars>>

\* The rest of ls_arm_live: ls_swap_write5 writes the call, or refuses.
AttachPatch ==
  /\ cpc = "patch"
  /\ \/ /\ pad' = [pad EXCEPT ![AttachAddress] = cur]
        /\ cpc' = "reserve"
        /\ UNCHANGED cur
     \/ /\ cpc' = "check"
        /\ cur' = cur + 1
        /\ UNCHANGED pad
  /\ UNCHANGED <<writer, readers, progVars, site, issued, req, lodVars, thrVars>>

\* Reserve the patched site and link the entry to it.
AttachReserve ==
  /\ cpc = "reserve"
  /\ site' = [site EXCEPT ![cur] = [address |-> AttachAddress, safe |-> AttachSafe,
                                    users |-> @.users + 1, owned |-> TRUE]]
  /\ link' = [link EXCEPT ![req.id][req.entry] = cur]
  /\ cpc' = "unlock"
  /\ UNCHANGED <<writer, readers, instance, count, mode, ceiling, address, slot,
                 config, pad, issued, req, cur, lodVars, thrVars>>

-----------------------------------------------------------------------------
(* ls_program_detach and ls_program_revoke                                 *)

\* Mutated form: the link is dropped while the text still calls the site.
UnhookKeepsText(id, e) ==
  /\ link[id][e] # NoSite
  /\ site' = [site EXCEPT ![link[id][e]].users = @ - 1]
  /\ link' = [link EXCEPT ![id][e] = NoSite]
  /\ UNCHANGED pad

\* ls_program_detach_locked on success: the last user restores the NOPs, which
\* ls_program_patch refuses for a site a legacy hook also uses and ls_find_armed
\* for a function whose text calls no trampoline.  The site's
\* reservation (owned, address) outlives its users.
Unhook(id, e) ==
  LET s == link[id][e] IN
  /\ s # NoSite
  /\ \/ /\ site[s].users = 1
        /\ ~LegacyUses(s, site[s].address) /\ pad[site[s].address] # NoSite
        /\ pad' = [pad EXCEPT ![site[s].address] = NoSite]
     \/ /\ site[s].users # 1
        /\ UNCHANGED pad
  /\ site' = [site EXCEPT ![s].users = @ - 1]
  /\ link' = [link EXCEPT ![id][e] = NoSite]

\* The restore of the NOPs may fail, and then nothing changes.
RestoreMayFail(id, e) == link[id][e] # NoSite /\ site[link[id][e]].users = 1

DetachBegin(id, inst, e) ==
  /\ Find(id, inst) /\ e < count[id]
  /\ Begin(MkRequest("detach", id, inst, e, 0, NoTargets, DISABLE), "exchange")
  /\ UNCHANGED <<writer, readers, progVars, siteVars, issued, lodVars, thrVars>>

Detach ==
  /\ cpc = "detach"
  /\ cpc' = "unlock"
  /\ \/ Unhook(req.id, req.entry)
     \/ /\ link[req.id][req.entry] = NoSite \/ RestoreMayFail(req.id, req.entry)
        /\ UNCHANGED <<link, site, pad>>
  /\ UNCHANGED <<writer, readers, instance, count, mode, ceiling, address, slot,
                 config, issued, req, cur, lodVars, thrVars>>

RevokeBegin(id, inst) ==
  /\ Find(id, inst)
  /\ Begin(MkRequest("revoke", id, inst, 0, 0, NoTargets, DISABLE), "exchange")
  /\ UNCHANGED <<writer, readers, progVars, siteVars, issued, lodVars, thrVars>>

RevokeDisable ==
  /\ cpc = "disable"
  /\ mode' = [mode EXCEPT ![req.id] = DISABLE]
  /\ SetSlotModes(req.id, DISABLE)
  /\ cpc' = "detach all" /\ cur' = 0
  /\ UNCHANGED <<writer, readers, instance, count, ceiling, address, link, config,
                 siteVars, issued, req, lodVars, thrVars>>

\* One turn of the detach loop.  A failed restore ends the revoke and keeps
\* the program, disabled, for a retry.
RevokeDetach ==
  /\ cpc = "detach all"
  /\ \/ /\ cur = count[req.id]
        /\ cpc' = "config"
        /\ UNCHANGED <<link, site, pad, cur>>
     \/ /\ cur < count[req.id]
        /\ \/ /\ link[req.id][cur] = NoSite
              /\ UNCHANGED <<link, site, pad>>
           \/ Unhook(req.id, cur)
        /\ cur' = cur + 1
        /\ UNCHANGED cpc
     \/ /\ cur < count[req.id] /\ RestoreMayFail(req.id, cur)
        /\ cpc' = "unlock"
        /\ UNCHANGED <<link, site, pad, cur>>
  /\ UNCHANGED <<writer, readers, instance, count, mode, ceiling, address, slot,
                 config, issued, req, lodVars, thrVars>>

RevokeConfig ==
  /\ cpc = "config"
  /\ \/ config' = [config EXCEPT ![req.id] = 0] /\ cpc' = "destroy"
     \/ config' = config /\ cpc' = "unlock"
  /\ UNCHANGED <<writer, readers, instance, count, mode, ceiling, address, link,
                 slot, siteVars, issued, req, cur, lodVars, thrVars>>

RevokeDestroy ==
  /\ cpc = "destroy"
  /\ slot' = [slot EXCEPT ![req.id] =
                 [e \in Entries |-> IF e < count[req.id] THEN EmptySlot ELSE @[e]]]
  /\ instance' = [instance EXCEPT ![req.id] = 0]
  /\ count' = [count EXCEPT ![req.id] = 0]
  /\ cpc' = "unlock"
  /\ UNCHANGED <<writer, readers, mode, ceiling, address, link, config, siteVars,
                 issued, req, cur, lodVars, thrVars>>

-----------------------------------------------------------------------------
(* Legacy hooks, on the loader thread (requests 0x1003 and 0x1004).        *)

\* Mutated form: only the function is compared, not the trampoline site.
SiteOwnedByAddress(s, a) == \E i \in Sites : site[i].owned /\ site[i].address = a

\* ls_program_site_owned
SiteOwned(s, a) == \E i \in Sites : site[i].owned /\ (i = s \/ site[i].address = a)

\* The ARM request up to the first store: the owner check, the attached flag
\* and ls_find_pad.
LegacyArmCheck(s, a) ==
  /\ lpc = "idle"
  /\ ~SiteOwned(s, a)
  /\ legacy[s] = NoAddress /\ pad[a] = NoSite
  /\ lreq' = [site |-> s, address |-> a]
  /\ lpc' = "arm"
  /\ raced' = (raced \/ AttachAt(s, a))
  /\ UNCHANGED <<writer, readers, progVars, siteVars, issued, ctlVars, legacy, thrVars>>

\* ls_swap_write5 and the attached flag, or a refusal.
LegacyArm ==
  /\ lpc = "arm"
  /\ \/ /\ pad' = [pad EXCEPT ![lreq.address] = lreq.site]
        /\ legacy' = [legacy EXCEPT ![lreq.site] = lreq.address]
     \/ UNCHANGED <<pad, legacy>>
  /\ lpc' = "idle"
  /\ UNCHANGED <<writer, readers, progVars, site, issued, ctlVars, lreq, raced, thrVars>>

LegacyDisarm(s) ==
  /\ lpc = "idle"
  /\ legacy[s] # NoAddress /\ pad[legacy[s]] # NoSite
  /\ pad' = [pad EXCEPT ![legacy[s]] = NoSite]
  /\ legacy' = [legacy EXCEPT ![s] = NoAddress]
  /\ UNCHANGED <<writer, readers, progVars, site, issued, ctlVars, lpc, lreq, raced, thrVars>>

-----------------------------------------------------------------------------
(* The data path: the trampoline, ls_tramp_dispatch_at, ls_program_dispatch *)
(* and ls_vm_run.                                                          *)

ctlSide == <<writer, progVars, siteVars, issued, ctlVars, lodVars>>

\* A thread reaches a patched function and is in the trampoline of its site.
Hit(t, a) ==
  /\ tpc[t] = "idle" /\ pad[a] # NoSite
  /\ tpc' = [tpc EXCEPT ![t] = "tramp"]
  /\ call' = [call EXCEPT ![t] = [NoCall EXCEPT !.site = pad[a], !.address = a]]
  /\ UNCHANGED <<readers, ctlSide>>

\* Mutated form: the reader is not counted.
DispatchCountLost(t) ==
  /\ tpc[t] = "tramp"
  /\ tpc' = [tpc EXCEPT ![t] = "gate"]
  /\ UNCHANGED <<readers, call, ctlSide>>

DispatchCount(t) ==
  /\ tpc[t] = "tramp"
  /\ readers' = readers + 1
  /\ tpc' = [tpc EXCEPT ![t] = "gate"]
  /\ UNCHANGED <<call, ctlSide>>

\* Mutated form: the writer flag is not looked at.
DispatchGateOpen(t) ==
  /\ tpc[t] = "gate"
  /\ tpc' = [tpc EXCEPT ![t] = "enter"]
  /\ UNCHANGED <<readers, call, ctlSide>>

DispatchGate(t) ==
  /\ tpc[t] = "gate"
  /\ tpc' = [tpc EXCEPT ![t] = IF writer = 1 THEN "busy" ELSE "enter"]
  /\ UNCHANGED <<readers, call, ctlSide>>

\* Mutated form: the early return keeps the reader count.
DispatchBusyLeaks(t) ==
  /\ tpc[t] = "busy"
  /\ tpc' = [tpc EXCEPT ![t] = "done"]
  /\ UNCHANGED <<readers, call, ctlSide>>

\* The busy return is 1: the caller takes the site for program-owned.
DispatchBusy(t) ==
  /\ tpc[t] = "busy"
  /\ readers' = readers - 1
  /\ tpc' = [tpc EXCEPT ![t] = "done"]
  /\ UNCHANGED <<call, ctlSide>>

\* Mutated form: return_ip is not compared.
DispatchEnterAnyIp(t) ==
  /\ tpc[t] = "enter"
  /\ call' = [call EXCEPT ![t].owned = site[call[t].site].owned]
  /\ tpc' = [tpc EXCEPT ![t] = IF site[call[t].site].owned THEN "loop" ELSE "leave"]
  /\ UNCHANGED <<readers, ctlSide>>

\* Only a call from the function the site now serves runs programs.
DispatchEnter(t) ==
  LET s == call[t].site IN
  /\ tpc[t] = "enter"
  /\ call' = [call EXCEPT ![t].owned = site[s].owned]
  /\ tpc' = [tpc EXCEPT ![t] =
               IF site[s].owned /\ site[s].address = call[t].address THEN "loop" ELSE "leave"]
  /\ UNCHANGED <<readers, ctlSide>>

Before(p, q) == p[1] < q[1] \/ (p[1] = q[1] /\ p[2] < q[2])

\* Slot p would be called by the dispatch loop at site s.
Attached(p, s) ==
  /\ instance[p[1]] # 0 /\ mode[p[1]] # DISABLE
  /\ p[2] < count[p[1]] /\ link[p[1]][p[2]] = s

\* Slot p is the loop's next call.
Next1(t, p) ==
  LET todo == {q \in Slots : Before(call[t].last, q) /\ Attached(q, call[t].site)}
  IN  p \in todo /\ \A q \in todo : q = p \/ Before(p, q)

\* ls_vm_run samples the slot's mode and VM at entry; an empty or disabled
\* slot falls through without running.
DispatchRun(t, p) ==
  /\ tpc[t] = "loop" /\ Next1(t, p)
  /\ LET s    == slot[p[1]][p[2]]
         runs == s.vm # 0 /\ s.mode # DISABLE
     IN  /\ tpc' = [tpc EXCEPT ![t] = IF runs THEN "run" ELSE "loop"]
         /\ call' = [call EXCEPT ![t].last = p,
                                 ![t].vm = IF runs THEN s.vm ELSE 0,
                                 ![t].mode = IF runs THEN s.mode ELSE DISABLE,
                                 ![t].ran = IF runs THEN @ \union {p} ELSE @]
  /\ UNCHANGED <<readers, ctlSide>>

\* Mutated form: the first SAFE_RETURN ends the loop.
DispatchReturnEarly(t, ret) ==
  /\ tpc[t] = "run"
  /\ LET suppress == ret = SAFE_RETURN /\ call[t].mode = ENFORCE
     IN  /\ tpc' = [tpc EXCEPT ![t] = IF suppress THEN "leave" ELSE "loop"]
         /\ call' = [call EXCEPT ![t].vm = 0, ![t].mode = DISABLE,
                                 ![t].verdict = IF suppress THEN SAFE_RETURN ELSE @,
                                 ![t].safe = IF suppress THEN site[call[t].site].safe ELSE @]
  /\ UNCHANGED <<readers, ctlSide>>

\* The VM returns.  SAFE_RETURN counts only under the sampled ENFORCE mode,
\* and is delivered with the site's safe value.
DispatchReturn(t, ret) ==
  /\ tpc[t] = "run"
  /\ tpc' = [tpc EXCEPT ![t] = "loop"]
  /\ call' = [call EXCEPT ![t] =
                IF ret = SAFE_RETURN /\ call[t].mode = ENFORCE
                  THEN [@ EXCEPT !.vm = 0, !.mode = DISABLE, !.verdict = SAFE_RETURN,
                                 !.safe = site[call[t].site].safe]
                  ELSE [@ EXCEPT !.vm = 0, !.mode = DISABLE]]
  /\ UNCHANGED <<readers, ctlSide>>

DispatchLoopEnd(t) ==
  /\ tpc[t] = "loop"
  /\ \A q \in Slots : Before(call[t].last, q) => ~Attached(q, call[t].site)
  /\ tpc' = [tpc EXCEPT ![t] = "leave"]
  /\ UNCHANGED <<readers, call, ctlSide>>

DispatchLeave(t) ==
  /\ tpc[t] = "leave"
  /\ readers' = readers - 1
  /\ tpc' = [tpc EXCEPT ![t] = IF call[t].owned THEN "done" ELSE "legacy"]
  /\ UNCHANGED <<call, ctlSide>>

\* A site the manager does not own: ls_vm_call on the legacy slot.
LegacyCall(t) ==
  /\ tpc[t] = "legacy"
  /\ tpc' = [tpc EXCEPT ![t] = "done"]
  /\ UNCHANGED <<readers, call, ctlSide>>

Resume(t) ==
  /\ tpc[t] = "done"
  /\ tpc' = [tpc EXCEPT ![t] = "idle"]
  /\ call' = [call EXCEPT ![t] = NoCall]
  /\ UNCHANGED <<readers, ctlSide>>

-----------------------------------------------------------------------------
LoadTargets(n) ==
  {f \in [Entries -> Addresses \union {NoAddress}] :
     /\ \A e \in Entries : f[e] = NoAddress <=> e >= n
     /\ \A e, d \in 0 .. n - 1 : f[e] = f[d] => e = d}

ControlBegin ==
  \E id \in Programs :
    \/ \E n \in 1 .. EntryMax, top \in Ceilings : \E f \in LoadTargets(n) : LoadBegin(id, n, f, top)
    \/ \E inst \in 1 .. issued :
         \/ \E m \in Modes : ModeBegin(id, inst, m)
         \/ \E e \in Entries : AttachBegin(id, inst, e) \/ DetachBegin(id, inst, e)
         \/ RevokeBegin(id, inst)

ControlStep ==
  \/ LockExchange \/ LockReaders \/ Unlock
  \/ (\E v \in SafeValues : LoadPrepare(v)) \/ LoadUnwind \/ LoadPublish
  \/ ModeSet
  \/ AttachShare \/ AttachCheck \/ AttachPatch \/ AttachReserve
  \/ Detach
  \/ RevokeDisable \/ RevokeDetach \/ RevokeConfig \/ RevokeDestroy

Loader ==
  \/ \E s \in LegacySlots, a \in Addresses : LegacyArmCheck(s, a)
  \/ LegacyArm
  \/ \E s \in LegacySlots : LegacyDisarm(s)

ThreadStep(t) ==
  \/ DispatchCount(t) \/ DispatchGate(t) \/ DispatchBusy(t) \/ DispatchEnter(t)
  \/ \E p \in Slots : DispatchRun(t, p)
  \/ \E ret \in {SAFE_RETURN, FALLTHROUGH} : DispatchReturn(t, ret)
  \/ DispatchLoopEnd(t) \/ DispatchLeave(t) \/ LegacyCall(t) \/ Resume(t)

Next ==
  \/ ControlBegin \/ ControlStep \/ Loader
  \/ \E t \in Threads : ThreadStep(t) \/ \E a \in Addresses : Hit(t, a)

Spec == Init /\ [][Next]_vars

\* A started operation and a started call are never abandoned: the prepare
\* timer runs an operation to its return, and a thread runs its call to its
\* return.  Nothing obliges a client to ask or traffic to arrive.
FairSpec == Spec /\ WF_vars(ControlStep) /\ WF_vars(LegacyArm)
                 /\ \A t \in Threads : WF_vars(ThreadStep(t))
-----------------------------------------------------------------------------
(* Properties                                                              *)

SafeRange    == SafeValues \union {0}
AddressRange == Addresses \union {NoAddress}
SiteRange    == Sites \union {NoSite}
Instances    == 0 .. MaxInstances
SlotRecord   == [vm : Instances, mode : Modes, safe : SafeRange]
SiteRecord   == [address : AddressRange, safe : SafeRange, users : Int, owned : BOOLEAN]
Request      == [op : {"none", "load", "mode", "attach", "detach", "revoke"},
                 id : Programs, inst : Instances, entry : Entries, n : 0 .. EntryMax,
                 targets : [Entries -> AddressRange], arg : Modes]
CallRecord   == [site : SiteRange, address : AddressRange, owned : BOOLEAN,
                 last : Slots \union {<<-1, 0>>}, vm : Instances, mode : Modes,
                 ran : SUBSET Slots, verdict : {FALLTHROUGH, SAFE_RETURN}, safe : SafeRange]

ProgramTypes ==
  /\ instance \in [Programs -> Instances] /\ count \in [Programs -> 0 .. EntryMax]
  /\ mode \in [Programs -> Modes] /\ ceiling \in [Programs -> Modes]
  /\ address \in [Programs -> [Entries -> AddressRange]]
  /\ link \in [Programs -> [Entries -> SiteRange]]
  /\ slot \in [Programs -> [Entries -> SlotRecord]]
  /\ config \in [Programs -> Instances]
SiteTypes ==
  /\ site \in [Sites -> SiteRecord] /\ pad \in [Addresses -> SiteRange]
  /\ legacy \in [Sites -> AddressRange]
ControlTypes ==
  /\ issued \in Instances /\ cpc \in ControlPc /\ cur \in Nat /\ req \in Request
  /\ cpc \in {"patch", "reserve"} => cur \in Sites
  /\ lpc \in {"idle", "arm"} /\ lreq \in [site : Sites, address : AddressRange]
  /\ raced \in BOOLEAN
ThreadTypes ==
  /\ tpc \in [Threads -> ThreadPc] /\ call \in [Threads -> CallRecord]
  /\ \A t \in Threads : tpc[t] # "idle" => call[t].site \in Sites

TypeOK ==
  /\ writer \in {0, 1} /\ readers \in Nat
  /\ ProgramTypes /\ SiteTypes /\ ControlTypes /\ ThreadTypes

\* ls_program_lock against ls_program_dispatch: while the control thread is in
\* the body of an operation no data-path thread is past the writer check.
GateExclusion ==
  cpc \in Critical => \A t \in Threads : tpc[t] \notin Inside

\* Every exit of ls_program_dispatch, the busy one included, gives back the
\* reader count it took: a leaked count would refuse every later operation.
ReadersExact ==
  readers = Cardinality({t \in Threads : tpc[t] \in Counted})

\* "An in-flight call prevents reclamation" (PROGRAMS.md falsifier 7): the VM a
\* thread executes is the one its slot still holds, under the mode it sampled,
\* and its program is still published.
NoUseAfterReclaim ==
  \A t \in Threads : tpc[t] = "run" =>
    LET p == call[t].last IN
    /\ slot[p[1]][p[2]].vm = call[t].vm
    /\ slot[p[1]][p[2]].mode = call[t].mode
    /\ instance[p[1]] = call[t].vm

\* "A late trampoline call from a former site cannot run programs attached to a
\* different function" (PROGRAMS.md falsifier 7): whatever the site was reused
\* for since the thread entered the trampoline, the entry it runs was signed for
\* the function it came from.
RunsOwnFunction ==
  \A t \in Threads : tpc[t] = "run" =>
    address[call[t].last[1]][call[t].last[2]] = call[t].address

\* A suppressed body (ls_tramp_result SAFE_RETURN) was asked for by a program
\* that the call ran, whose mode is ENFORCE and whose ceiling allows it, and the
\* value delivered is that program's own safe value although it is read from
\* the shared site.
VerdictJustified ==
  \A t \in Threads : tpc[t] \in Inside /\ call[t].verdict = SAFE_RETURN =>
    \E p \in call[t].ran :
      /\ mode[p[1]] = ENFORCE /\ ceiling[p[1]] = ENFORCE
      /\ slot[p[1]][p[2]].safe = call[t].safe

\* Outside the gate the links and the site table tell one story: a site counts
\* exactly the entries linked to it, all of its function.  Unless an ARM and an
\* attach were let at one site or function together, so does the text: the pad
\* of a function with users calls the site that serves it, and a function
\* without users or legacy hook has its NOPs back, after half-failed attaches,
\* detaches, revokes and any DISARM.
TextMatchesLinks ==
  cpc \notin Critical /\ lpc = "idle" =>
    /\ \A s \in Sites : site[s].users = Cardinality({p \in Slots : link[p[1]][p[2]] = s})
    /\ \A s \in Sites : site[s].users # 0 =>
         /\ site[s].owned
         /\ \A p \in Slots : link[p[1]][p[2]] = s => address[p[1]][p[2]] = site[s].address
    /\ ~raced =>
         /\ \A s \in Sites : site[s].users # 0 => pad[site[s].address] = s
         /\ \A a \in Addresses : pad[a] # NoSite =>
              \/ site[pad[a]].users # 0 /\ site[pad[a]].address = a
              \/ legacy[pad[a]] = a

\* The patch callback of ls_program_attach "must refuse if another owner already
\* uses the site or address" (ls_program.h:47-48), so that no trampoline site and
\* no function has both a legacy hook and program users.  The code does not keep
\* this: the callback's check and ls_program_site_owned's are each out of date by
\* the time their thread stores, and a loader that gave up waiting may be in an
\* ARM while the attach is in between.
PatchRefusesOwned ==
  \A s, i \in Sites : site[s].users # 0 /\ legacy[i] # NoAddress =>
    i # s /\ legacy[i] # site[s].address

\* "Legacy slot operations remain separate" (PROGRAMS.md), as far as the code
\* keeps it: the one way for a site or a function to get both a legacy hook and
\* program users is an ARM and an attach that are at it together, each between
\* its check and its store.  Any other overlap of a loader that gave up with the
\* operation it gave up, DISARM included, leaves the owners apart.
OneOwner == ~raced => PatchRefusesOwned

\* "A failed load publishes none and releases the VMs it created", a failed
\* revoke keeps them: between operations the live VMs are those of published
\* programs, in the program's mode, and the configuration slot is bound to the
\* same instance; an unpublished program is disabled and linked nowhere.
VMsBelongToInstance ==
  cpc = "idle" =>
    \A id \in Programs :
      /\ \A e \in Entries : slot[id][e].vm = (IF e < count[id] THEN instance[id] ELSE 0)
      /\ \A e \in Entries : slot[id][e].mode = (IF e < count[id] THEN mode[id] ELSE DISABLE)
      /\ config[id] = instance[id]
      /\ instance[id] = 0 => mode[id] = DISABLE /\ \A e \in Entries : link[id][e] = NoSite

\* The refinement mapping to OwnedPrograms: attachments are the linked entries
\* with the function each was signed for, and the outcome of a call shows when
\* ls_program_dispatch has given back its reader count.
Answered == {"legacy", "done"}
Abstract == INSTANCE OwnedPrograms WITH
  published <- {id \in Programs : instance[id] # 0},
  hooks     <- {<<p[1], p[2], address[p[1]][p[2]]>> : p \in {q \in Slots : link[q[1]][q[2]] # NoSite}},
  safe      <- [id \in Programs |-> [e \in Entries |-> slot[id][e].safe]],
  phase     <- [t \in Threads |-> IF tpc[t] = "idle" THEN "idle"
                                 ELSE IF tpc[t] \in Answered THEN "answered" ELSE "called"],
  func      <- [t \in Threads |-> call[t].address],
  outcome   <- [t \in Threads |->
                  [ran        |-> IF tpc[t] \in Answered THEN call[t].ran ELSE {},
                   suppressed |-> tpc[t] \in Answered /\ call[t].verdict = SAFE_RETURN,
                   value      |-> IF tpc[t] \in Answered THEN call[t].safe ELSE 0]]

\* ls_program_impl.h implements the contract of PROGRAMS.md: a call observes one
\* consistent set of attachments, runs all of it or nothing, suppresses the body
\* only for an ENFORCE program it ran, and a program is reclaimed only when it is
\* disabled and detached.
AtomicCalls == Abstract!Spec

\* Neither side waits for the other: every operation and every call returns.
NobodyWaits ==
  /\ cpc # "idle" ~> cpc = "idle"
  /\ \A t \in Threads : tpc[t] # "idle" ~> tpc[t] = "idle"

-----------------------------------------------------------------------------
(* The parts of the inductive invariant that ProgramManager_proofs uses.   *)

\* The writer flag is up exactly while the control thread is between the
\* exchange that raised it and the store that clears it.
WriterFlag == writer = 1 <=> cpc \in Critical \union {"readers"}

\* A load is under way and has not published.
Loading ==
  \/ cpc \in {"prepare", "unwind", "publish", "unlock fail"}
  \/ cpc \in {"exchange", "readers"} /\ req.op = "load"

\* Until it publishes, a load owns storage no dispatch looks at; once the
\* preparation loop is over every slot it will publish holds its VM.
LoadPrivate ==
  Loading =>
    /\ req.op = "load" /\ req.inst # 0 /\ instance[req.id] = 0
    /\ cpc # "unwind" => \A e \in Entries :
         e < (IF cpc = "prepare" THEN cur ELSE req.n) => slot[req.id][e].vm = req.inst

\* A published entry holds the VM of the published instance.
PublishedVMs ==
  \A id \in Programs, e \in Entries :
    instance[id] # 0 /\ e < count[id] => slot[id][e].vm = instance[id]

\* A thread in a VM is in a slot of a published program.
RunningSlots ==
  \A t \in Threads : tpc[t] = "run" => call[t].last \in Slots /\ call[t].vm # 0

IInv == /\ TypeOK /\ ReadersExact /\ WriterFlag /\ GateExclusion
        /\ LoadPrivate /\ PublishedVMs /\ RunningSlots /\ NoUseAfterReclaim
=============================================================================
