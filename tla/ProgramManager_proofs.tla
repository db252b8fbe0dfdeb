----------------------- MODULE ProgramManager_proofs ------------------------
(***************************************************************************)
(* Proofs about ProgramManager for every number of programs, entries,      *)
(* sites, functions and data-path threads: first the gate, then the tables,*)
(* then the refinement of OwnedPrograms.                                   *)
(***************************************************************************)
EXTENDS ProgramManager, FiniteSetTheorems, WellFoundedInduction, TLAPS

-----------------------------------------------------------------------------
(* Type correctness, one lemma per actor.  The reader count stays a natural *)
(* number because of ReadersExact, so it is left to the counting lemmas.   *)

Types == ProgramTypes /\ SiteTypes /\ ControlTypes /\ ThreadTypes /\ writer \in {0, 1}

LEMMA MkRequestTypes ==
  ASSUME NEW op \in {"none", "load", "mode", "attach", "detach", "revoke"},
         NEW id \in Programs, NEW inst \in Instances, NEW e \in Entries,
         NEW n \in 0 .. EntryMax, NEW f \in [Entries -> AddressRange], NEW m \in Modes
  PROVE  MkRequest(op, id, inst, e, n, f, m) \in Request
BY DEF MkRequest, Request

LEMMA ConstantTypes ==
  /\ 0 \in Programs /\ 0 \in Entries /\ 0 \in Instances /\ 0 \in 0 .. EntryMax
  /\ DISABLE \in Modes /\ NoTargets \in [Entries -> AddressRange]
BY ProgramManagerAssumption
DEF ProgramManagerAssumption, NoTargets, Programs, Entries, Instances, AddressRange, Modes, DISABLE

LEMMA RequestTypes == NoRequest \in Request
BY MkRequestTypes, ConstantTypes DEF NoRequest

LEMMA InitTypes == Init => Types /\ readers \in Nat
<1> SUFFICES ASSUME Init PROVE Types /\ readers \in Nat
  OBVIOUS
<1> USE ProgramManagerAssumption DEF ProgramManagerAssumption, Init
<1>1. ProgramTypes
  BY DEF ProgramTypes, EmptySlot, SlotRecord, Instances, Modes, DISABLE, SafeRange, AddressRange, SiteRange
<1>2. SiteTypes
  BY DEF SiteTypes, EmptySite, SiteRecord, SafeRange, AddressRange, SiteRange
<1>3. ControlTypes
  <2>1. raced \in BOOLEAN  BY Zenon
  <2>2. /\ issued \in Instances /\ cpc \in ControlPc /\ cur \in Nat /\ req \in Request
        /\ cpc \notin {"patch", "reserve"}
        /\ lpc \in {"idle", "arm"} /\ lreq \in [site : Sites, address : AddressRange]
    BY RequestTypes DEF ControlPc, Instances, Sites, AddressRange
  <2> QED BY <2>1, <2>2, Zenon DEF ControlTypes
<1>4. ThreadTypes
  BY DEF ThreadTypes, ThreadPc, NoCall, CallRecord, Instances, Modes, DISABLE, SafeRange,
         AddressRange, SiteRange
<1> QED BY <1>1, <1>2, <1>3, <1>4 DEF Types


(* Frames: a step that leaves a group of variables alone keeps its types.  *)

LEMMA ProgramFrame == ProgramTypes /\ UNCHANGED progVars => ProgramTypes'
BY DEF ProgramTypes, progVars

LEMMA SiteFrame == SiteTypes /\ UNCHANGED <<siteVars, legacy>> => SiteTypes'
BY DEF SiteTypes, siteVars

LEMMA ThreadFrame == ThreadTypes /\ UNCHANGED thrVars => ThreadTypes'
BY DEF ThreadTypes, thrVars

LEMMA ControlFrame == ControlTypes /\ UNCHANGED <<issued, ctlVars, lpc, lreq, raced>> => ControlTypes'
BY DEF ControlTypes, ctlVars

\* The control thread moves to another step of its operation.
LEMMA ControlMove ==
  ASSUME ControlTypes, UNCHANGED <<issued, lpc, lreq, raced>>,
         cpc' \in ControlPc \ {"patch", "reserve"}, req' \in Request, cur' \in Nat
  PROVE  ControlTypes'
BY DEF ControlTypes

LEMMA LockTypes ==
  ASSUME Types, LockExchange \/ LockReaders \/ Unlock
  PROVE  Types'
<1>1. UNCHANGED <<progVars, siteVars, issued, lodVars, thrVars>>
  BY DEF LockExchange, LockReaders, Unlock
<1>2. cpc' \in ControlPc \ {"patch", "reserve"}
  BY DEF LockExchange, LockReaders, Unlock, Goto, Return, Refuse, Body, ControlPc
<1>3. /\ req' = req \/ req' = NoRequest
      /\ cur' = cur \/ cur' = 0
      /\ writer' = writer \/ writer' \in {0, 1}
  BY DEF LockExchange, LockReaders, Unlock, Goto, Return, Refuse
<1>4. ControlTypes /\ cur \in Nat /\ req \in Request
  BY DEF Types, ControlTypes
<1>5. ControlTypes'
  BY <1>1, <1>2, <1>3, <1>4, RequestTypes, ControlMove DEF lodVars
<1> QED
  BY <1>1, <1>3, <1>5, ProgramFrame, SiteFrame, ThreadFrame DEF Types, lodVars

LEMMA BeginTypes ==
  ASSUME Types, ControlBegin
  PROVE  Types'
<1>1. UNCHANGED <<writer, progVars, siteVars, lodVars, thrVars>>
  BY DEF ControlBegin, LoadBegin, ModeBegin, AttachBegin, DetachBegin, RevokeBegin
<1>2. /\ cpc' \in {"prepare", "exchange"}
      /\ cur' = 0
  BY DEF ControlBegin, LoadBegin, ModeBegin, AttachBegin, DetachBegin, RevokeBegin, Begin
<1>3. issued' \in Instances /\ req' \in Request
  <2>0. issued \in Instances /\ 1 .. issued \subseteq Instances
    BY ProgramManagerAssumption DEF ProgramManagerAssumption, Types, ControlTypes, Instances
  <2>1. ASSUME NEW id \in Programs, NEW n \in 1 .. EntryMax, NEW top \in Ceilings,
               NEW f \in LoadTargets(n), LoadBegin(id, n, f, top)
        PROVE  issued' \in Instances /\ req' \in Request
    <3>1. issued' = issued + 1 /\ issued' \in Instances
      BY <2>0, <2>1, ProgramManagerAssumption DEF LoadBegin, Instances, ProgramManagerAssumption
    <3>2. n \in 0 .. EntryMax /\ top \in Modes /\ f \in [Entries -> AddressRange]
      BY ProgramManagerAssumption
      DEF ProgramManagerAssumption, LoadTargets, AddressRange, Modes, DISABLE, MONITOR, ENFORCE
    <3>3. MkRequest("load", id, issued + 1, 0, n, f, top) \in Request
      BY <3>1, <3>2, ConstantTypes, MkRequestTypes
    <3> QED BY <2>1, <3>1, <3>3 DEF LoadBegin, Begin
  <2>2. ASSUME NEW id \in Programs, NEW inst \in 1 .. issued, NEW m \in Modes, ModeBegin(id, inst, m)
        PROVE  issued' \in Instances /\ req' \in Request
    <3>1. MkRequest("mode", id, inst, 0, 0, NoTargets, m) \in Request
      BY <2>0, ConstantTypes, MkRequestTypes
    <3> QED BY <2>0, <2>2, <3>1 DEF ModeBegin, Begin
  <2>3. ASSUME NEW id \in Programs, NEW inst \in 1 .. issued, NEW e \in Entries,
               AttachBegin(id, inst, e) \/ DetachBegin(id, inst, e)
        PROVE  issued' \in Instances /\ req' \in Request
    <3>1. /\ MkRequest("attach", id, inst, e, 0, NoTargets, DISABLE) \in Request
          /\ MkRequest("detach", id, inst, e, 0, NoTargets, DISABLE) \in Request
      BY <2>0, ConstantTypes, MkRequestTypes
    <3> QED BY <2>0, <2>3, <3>1 DEF AttachBegin, DetachBegin, Begin
  <2>4. ASSUME NEW id \in Programs, NEW inst \in 1 .. issued, RevokeBegin(id, inst)
        PROVE  issued' \in Instances /\ req' \in Request
    <3>1. MkRequest("revoke", id, inst, 0, 0, NoTargets, DISABLE) \in Request
      BY <2>0, ConstantTypes, MkRequestTypes
    <3> QED BY <2>0, <2>4, <3>1 DEF RevokeBegin, Begin
  <2> QED BY <2>1, <2>2, <2>3, <2>4 DEF ControlBegin
<1>4. ControlTypes'
  BY <1>1, <1>2, <1>3 DEF Types, ControlTypes, ControlPc, lodVars
<1> QED
  BY <1>1, <1>4, ProgramFrame, SiteFrame, ThreadFrame DEF Types, lodVars

LEMMA LoadTypes ==
  ASSUME Types, (\E v \in SafeValues : LoadPrepare(v)) \/ LoadUnwind \/ LoadPublish
  PROVE  Types'
<1>0. ProgramTypes /\ SiteTypes /\ ControlTypes /\ ThreadTypes /\ writer \in {0, 1}
  BY DEF Types
<1>1. UNCHANGED <<writer, siteVars, issued, lodVars, thrVars>>
  BY DEF LoadPrepare, LoadUnwind, LoadPublish
<1>2. /\ cpc' \in ControlPc \ {"patch", "reserve"}
      /\ req' = req \/ req' = NoRequest
      /\ cur' = cur \/ cur' = cur + 1 \/ cur' = 0
  BY DEF LoadPrepare, LoadUnwind, LoadPublish, Return, ControlPc
<1>3. cur \in Nat /\ req \in Request
  BY <1>0 DEF ControlTypes
<1>4. ControlTypes'
  BY <1>0, <1>1, <1>2, <1>3, RequestTypes, ControlMove DEF lodVars
<1>5. ProgramTypes'
  <2>0. req.id \in Programs /\ req.inst \in Instances /\ req.n \in 0 .. EntryMax /\ req.arg \in Modes
        /\ req.targets \in [Entries -> AddressRange]
    BY <1>3 DEF Request
  <2>a. req.id \in Programs  BY <1>3 DEF Request
  <2>b. slot \in [Programs -> [Entries -> SlotRecord]]       BY <1>0 DEF ProgramTypes
  <2>c. address \in [Programs -> [Entries -> AddressRange]]  BY <1>0 DEF ProgramTypes
  <2>d. link \in [Programs -> [Entries -> SiteRange]]        BY <1>0 DEF ProgramTypes
  <2>e. EmptySlot \in SlotRecord
    BY ProgramManagerAssumption
    DEF ProgramManagerAssumption, EmptySlot, SlotRecord, Instances, Modes, DISABLE, SafeRange
  <2>1. ASSUME NEW v \in SafeValues, LoadPrepare(v) PROVE ProgramTypes'
    <3>1. [vm |-> req.inst, mode |-> DISABLE, safe |-> v] \in SlotRecord
      BY <2>0 DEF SlotRecord, Modes, DISABLE, SafeRange
    <3>2. \/ slot' = [slot EXCEPT ![req.id][cur] = [vm |-> req.inst, mode |-> DISABLE, safe |-> v]]
          \/ slot' = [slot EXCEPT ![req.id][cur] = EmptySlot]
      BY <2>1 DEF LoadPrepare
    <3>3. slot' \in [Programs -> [Entries -> SlotRecord]]
      BY <2>a, <2>b, <2>e, <3>1, <3>2, SMTT(40)
    <3>4. address' = address \/ address' = [address EXCEPT ![req.id][cur] = req.targets[cur]]
      BY <2>1 DEF LoadPrepare
    <3>5. req.targets[cur] \in AddressRange
      <4>1. cur \in Entries
        BY <2>1, <2>0, <1>3, ProgramManagerAssumption DEF LoadPrepare, Entries, ProgramManagerAssumption
      <4> QED BY <4>1, <2>0
    <3>6. address' \in [Programs -> [Entries -> AddressRange]]
      BY <2>a, <2>c, <3>4, <3>5
    <3>7. link' = link \/ link' = [link EXCEPT ![req.id][cur] = NoSite]
      BY <2>1 DEF LoadPrepare
    <3>8. link' \in [Programs -> [Entries -> SiteRange]]
      BY <2>a, <2>d, <3>7 DEF SiteRange
    <3>9. UNCHANGED <<instance, count, mode, ceiling, config>>
      BY <2>1 DEF LoadPrepare
    <3> QED BY <1>0, <3>3, <3>6, <3>8, <3>9 DEF ProgramTypes
  <2>2. CASE LoadUnwind
    <3>1. slot' \in [Programs -> [Entries -> SlotRecord]]
      BY <1>0, <2>2, <2>0, <2>e DEF LoadUnwind, ProgramTypes
    <3> QED BY <1>0, <2>2, <3>1 DEF LoadUnwind, ProgramTypes
  <2>3. CASE LoadPublish
    BY <1>0, <2>3, <2>0 DEF LoadPublish, ProgramTypes
  <2> QED BY <2>1, <2>2, <2>3
<1> QED
  BY <1>0, <1>1, <1>4, <1>5, SiteFrame, ThreadFrame DEF Types, lodVars

LEMMA ModeTypes ==
  ASSUME Types, ModeSet \/ RevokeDisable
  PROVE  Types'
<1>0. ProgramTypes /\ SiteTypes /\ ControlTypes /\ ThreadTypes /\ writer \in {0, 1}
  BY DEF Types
<1>1. UNCHANGED <<writer, siteVars, issued, req, lodVars, thrVars>>
  BY DEF ModeSet, RevokeDisable
<1>2. cpc' \in ControlPc \ {"patch", "reserve"} /\ (cur' = cur \/ cur' = 0)
  BY DEF ModeSet, RevokeDisable, ControlPc
<1>3. cur \in Nat /\ req \in Request
  BY <1>0 DEF ControlTypes
<1>4. ControlTypes'
  BY <1>0, <1>1, <1>2, <1>3, ControlMove DEF lodVars
<1>5. PICK m \in Modes : mode' = [mode EXCEPT ![req.id] = m] /\ SetSlotModes(req.id, m)
  BY <1>3, ConstantTypes DEF ModeSet, RevokeDisable, Request
<1>6. req.id \in Programs  BY <1>3 DEF Request
<1>7. slot' \in [Programs -> [Entries -> SlotRecord]]
  <2>1. slot \in [Programs -> [Entries -> SlotRecord]]  BY <1>0 DEF ProgramTypes
  <2>2. slot' = [slot EXCEPT ![req.id] =
                   [e \in Entries |-> IF e < count[req.id] THEN [@[e] EXCEPT !.mode = m] ELSE @[e]]]
    BY <1>5 DEF SetSlotModes
  <2>3. \A e \in Entries : [slot[req.id][e] EXCEPT !.mode = m] \in SlotRecord
    <3>1. ASSUME NEW r \in SlotRecord PROVE [r EXCEPT !.mode = m] \in SlotRecord
      <4>1. m \in Modes  OBVIOUS
      <4> QED BY <4>1 DEF SlotRecord
    <3> QED BY <1>6, <2>1, <3>1
  <2> QED BY <1>6, <2>1, <2>2, <2>3
<1>8. mode' \in [Programs -> Modes]
  <2>1. mode \in [Programs -> Modes]  BY <1>0 DEF ProgramTypes
  <2> QED BY <1>5, <2>1
<1>9. UNCHANGED <<instance, count, ceiling, address, link, config>>
  BY DEF ModeSet, RevokeDisable
<1>10. ProgramTypes'
  BY <1>0, <1>7, <1>8, <1>9 DEF ProgramTypes
<1> QED
  BY <1>0, <1>1, <1>4, <1>10, SiteFrame, ThreadFrame DEF Types, lodVars

\* Only link changes among the program variables.
LEMMA LinkTypes ==
  ASSUME ProgramTypes, link' \in [Programs -> [Entries -> SiteRange]],
         UNCHANGED <<instance, count, mode, ceiling, address, slot, config>>
  PROVE  ProgramTypes'
BY DEF ProgramTypes

LEMMA AttachTypes ==
  ASSUME Types, AttachShare \/ AttachCheck \/ AttachPatch \/ AttachReserve
  PROVE  Types'
<1>0. ProgramTypes /\ SiteTypes /\ ControlTypes /\ ThreadTypes /\ writer \in {0, 1}
  BY DEF Types
<1>1. UNCHANGED <<writer, issued, req, legacy, lpc, lreq, thrVars, instance, count, mode, ceiling,
                  address, slot, config>>
  BY DEF AttachShare, AttachCheck, AttachPatch, AttachReserve, progVars, lodVars
<1>r. raced' \in BOOLEAN
  <2>1. raced \in BOOLEAN  BY <1>0 DEF ControlTypes
  <2> QED BY <2>1 DEF AttachShare, AttachCheck, AttachPatch, AttachReserve, lodVars
<1>a. cur \in Nat /\ req \in Request                        BY <1>0 DEF ControlTypes
<1>b. req.id \in Programs /\ req.entry \in Entries          BY <1>a DEF Request
<1>c. link \in [Programs -> [Entries -> SiteRange]]         BY <1>0 DEF ProgramTypes
<1>d. site \in [Sites -> SiteRecord]                        BY <1>0 DEF SiteTypes
<1>e. pad \in [Addresses -> SiteRange]                      BY <1>0 DEF SiteTypes
<1>f. AttachAddress \in AddressRange /\ AttachSafe \in SafeRange
  BY <1>0, <1>b DEF ProgramTypes, AttachAddress, AttachSafe, SlotRecord
<1>2. CASE AttachShare
  <2>1. cpc' \in ControlPc \ {"patch", "reserve"} /\ cur' = 0
    BY <1>2 DEF AttachShare, ControlPc
  <2>r. UNCHANGED raced  BY <1>2 DEF AttachShare, lodVars
  <2>2. ControlTypes'
    BY <1>0, <1>1, <1>a, <2>1, <2>r, ControlMove
  <2>3. \/ \E s \in Sites : /\ link' = [link EXCEPT ![req.id][req.entry] = s]
                            /\ site' = [site EXCEPT ![s].users = @ + 1]
        \/ UNCHANGED <<link, site>>
    BY <1>2 DEF AttachShare
  <2>4. link' \in [Programs -> [Entries -> SiteRange]]
    <3>1. CASE UNCHANGED link  BY <1>c, <3>1
    <3>2. ASSUME NEW s \in Sites, link' = [link EXCEPT ![req.id][req.entry] = s]
          PROVE  link' \in [Programs -> [Entries -> SiteRange]]
      <4>1. s \in SiteRange  BY DEF SiteRange
      <4> QED BY <1>b, <1>c, <3>2, <4>1
    <3> QED BY <2>3, <3>1, <3>2
  <2>5. site' \in [Sites -> SiteRecord]
    <3>1. CASE UNCHANGED site  BY <1>d, <3>1
    <3>2. ASSUME NEW s \in Sites, site' = [site EXCEPT ![s].users = @ + 1]
          PROVE  site' \in [Sites -> SiteRecord]
      BY <1>d, <3>2 DEF SiteRecord
    <3> QED BY <2>3, <3>1, <3>2
  <2>6. ProgramTypes'  BY <1>0, <1>1, <2>4, LinkTypes
  <2>7. SiteTypes'     BY <1>0, <1>1, <1>2, <2>5 DEF AttachShare, SiteTypes, lodVars
  <2> QED BY <1>0, <1>1, <2>2, <2>6, <2>7, ThreadFrame DEF Types
<1>3. CASE AttachCheck
  <2>1. \/ cpc' \in {"unlock", "check"} /\ cur' \in {cur, cur + 1}
        \/ cpc' = "patch" /\ cur' = cur /\ cur < SiteMax
    BY <1>3 DEF AttachCheck
  <2>2. cpc' \in {"unlock", "check", "patch"} /\ cur' \in Nat
    BY <1>a, <2>1
  <2>a. cpc' = "patch" => cur' \in Sites
    BY <1>a, <2>1, ProgramManagerAssumption DEF Sites, ProgramManagerAssumption
  <2>b. ControlTypes'
    BY <1>0, <1>1, <1>a, <1>r, <2>2, <2>a DEF ControlTypes, ControlPc
  <2>3. UNCHANGED <<progVars, siteVars, legacy>>
    BY <1>3 DEF AttachCheck, lodVars
  <2> QED BY <1>0, <1>1, <2>b, <2>3, ProgramFrame, SiteFrame, ThreadFrame DEF Types
<1>4. CASE AttachPatch
  <2>0. cpc' \in {"reserve", "check"} /\ cur' \in {cur, cur + 1} /\ cpc = "patch"
        /\ (cpc' = "reserve" => cur' = cur)
    BY <1>4 DEF AttachPatch
  <2>1. cur' \in Nat
    BY <2>0, <1>a
  <2>2. cpc' = "reserve" => cur' \in Sites
    BY <1>0, <2>0 DEF ControlTypes
  <2>3. ControlTypes'
    BY <1>0, <1>1, <1>a, <1>r, <2>0, <2>1, <2>2 DEF ControlTypes, ControlPc
  <2>4. pad' = pad \/ (pad' = [pad EXCEPT ![AttachAddress] = cur] /\ cpc' = "reserve")
    BY <1>4 DEF AttachPatch
  <2>5. pad' \in [Addresses -> SiteRange]
    BY <1>e, <2>0, <2>2, <2>4 DEF SiteRange
  <2>6. UNCHANGED <<progVars, site, legacy>>
    BY <1>4 DEF AttachPatch, lodVars
  <2>7. SiteTypes'  BY <1>0, <2>5, <2>6 DEF SiteTypes
  <2> QED BY <1>0, <1>1, <2>3, <2>6, <2>7, ProgramFrame, ThreadFrame DEF Types
<1>5. CASE AttachReserve
  <2>1. cpc' \in ControlPc \ {"patch", "reserve"} /\ cur' = cur
    BY <1>5 DEF AttachReserve, ControlPc
  <2>r. UNCHANGED raced  BY <1>5 DEF AttachReserve, lodVars
  <2>2. ControlTypes'
    BY <1>0, <1>1, <1>a, <2>1, <2>r, ControlMove
  <2>3. cur \in Sites
    BY <1>0, <1>5 DEF AttachReserve, ControlTypes
  <2>4. link' \in [Programs -> [Entries -> SiteRange]]
    BY <1>b, <1>c, <1>5, <2>3 DEF AttachReserve, SiteRange
  <2>5. site' \in [Sites -> SiteRecord]
    BY <1>d, <1>f, <1>5, <2>3 DEF AttachReserve, SiteRecord
  <2>6. ProgramTypes'  BY <1>0, <1>1, <2>4, LinkTypes
  <2>7. SiteTypes'     BY <1>0, <1>1, <1>5, <2>5 DEF AttachReserve, SiteTypes, lodVars
  <2> QED BY <1>0, <1>1, <2>2, <2>6, <2>7, ThreadFrame DEF Types
<1> QED BY <1>2, <1>3, <1>4, <1>5

LEMMA UnhookTypes ==
  ASSUME ProgramTypes, SiteTypes, NEW id \in Programs, NEW e \in Entries, Unhook(id, e),
         UNCHANGED <<instance, count, mode, ceiling, address, slot, config, legacy>>
  PROVE  ProgramTypes' /\ SiteTypes'
<1>a. link \in [Programs -> [Entries -> SiteRange]]  BY DEF ProgramTypes
<1>b. site \in [Sites -> SiteRecord]                 BY DEF SiteTypes
<1>c. pad \in [Addresses -> SiteRange]               BY DEF SiteTypes
<1>1. link' \in [Programs -> [Entries -> SiteRange]]
  <2>1. link' = [link EXCEPT ![id][e] = NoSite] /\ NoSite \in SiteRange
    BY DEF Unhook, SiteRange
  <2> QED BY <1>a, <2>1
<1>2. site' \in [Sites -> SiteRecord]
  <2>1. link[id][e] \in Sites
    BY <1>a DEF Unhook, SiteRange
  <2>2. site' = [site EXCEPT ![link[id][e]].users = @ - 1]
    BY DEF Unhook
  <2> QED BY <1>b, <2>1, <2>2 DEF SiteRecord
<1>3. pad' \in [Addresses -> SiteRange]
  <2>1. \/ UNCHANGED pad
        \/ pad' = [pad EXCEPT ![site[link[id][e]].address] = NoSite]
    BY DEF Unhook
  <2> QED BY <1>c, <2>1 DEF SiteRange
<1>4. ProgramTypes'  BY <1>1, LinkTypes
<1> QED BY <1>2, <1>3, <1>4 DEF SiteTypes

LEMMA DetachTypes ==
  ASSUME Types, Detach \/ RevokeDetach
  PROVE  Types'
<1>0. ProgramTypes /\ SiteTypes /\ ControlTypes /\ ThreadTypes /\ writer \in {0, 1}
  BY DEF Types
<1>1. UNCHANGED <<writer, issued, req, lodVars, thrVars, instance, count, mode, ceiling,
                  address, slot, config>>
  BY DEF Detach, RevokeDetach
<1>2. cur \in Nat /\ req \in Request  BY <1>0 DEF ControlTypes
<1>3. cpc' \in {"unlock", "config", "detach all"} /\ cur' \in {cur, cur + 1}
  BY DEF Detach, RevokeDetach
<1>4. cpc' \in ControlPc \ {"patch", "reserve"}  BY <1>3 DEF ControlPc
<1>5. cur' \in Nat
  <2>1. cur \in Nat  BY <1>2
  <2>2. cur' = cur \/ cur' = cur + 1  BY <1>3
  <2> QED BY <2>1, <2>2
<1>6. ControlTypes'
  BY <1>0, <1>1, <1>2, <1>4, <1>5, ControlMove DEF lodVars
<1>7. UNCHANGED <<link, site, pad>> \/ \E e \in Entries : Unhook(req.id, e)
  <2>1. req.id \in Programs /\ req.entry \in Entries  BY <1>2 DEF Request
  <2>2. cur < count[req.id] => cur \in Entries
    <3>1. count[req.id] \in 0 .. EntryMax  BY <1>0, <2>1 DEF ProgramTypes
    <3> QED BY <1>2, <3>1, ProgramManagerAssumption DEF ProgramManagerAssumption, Entries
  <2>3. CASE Detach        BY <2>1, <2>3 DEF Detach
  <2>4. CASE RevokeDetach  BY <2>2, <2>4 DEF RevokeDetach
  <2> QED BY <2>3, <2>4
<1>8. ProgramTypes' /\ SiteTypes'
  <2>1. req.id \in Programs  BY <1>2 DEF Request
  <2>2. CASE UNCHANGED <<link, site, pad>>
    BY <1>0, <1>1, <2>2, ProgramFrame, SiteFrame DEF progVars, siteVars, lodVars
  <2>3. ASSUME NEW e \in Entries, Unhook(req.id, e) PROVE ProgramTypes' /\ SiteTypes'
    BY <1>0, <1>1, <2>1, <2>3, UnhookTypes DEF lodVars
  <2> QED BY <1>7, <2>2, <2>3
<1> QED BY <1>0, <1>1, <1>6, <1>8, ThreadFrame DEF Types

LEMMA RevokeTypes ==
  ASSUME Types, RevokeConfig \/ RevokeDestroy
  PROVE  Types'
<1>0. ProgramTypes /\ SiteTypes /\ ControlTypes /\ ThreadTypes /\ writer \in {0, 1}
  BY DEF Types
<1>1. UNCHANGED <<writer, siteVars, issued, req, cur, lodVars, thrVars>>
  BY DEF RevokeConfig, RevokeDestroy
<1>2. cpc' \in ControlPc \ {"patch", "reserve"}
  BY DEF RevokeConfig, RevokeDestroy, ControlPc
<1>3. cur \in Nat /\ req \in Request  BY <1>0 DEF ControlTypes
<1>4. ControlTypes'
  BY <1>0, <1>1, <1>2, <1>3, ControlMove DEF lodVars
<1>5. req.id \in Programs  BY <1>3 DEF Request
<1>6. CASE RevokeConfig
  <2>1. ProgramTypes'
    BY <1>0, <1>5, <1>6, ConstantTypes DEF RevokeConfig, ProgramTypes
  <2> QED BY <1>0, <1>1, <1>4, <2>1, SiteFrame, ThreadFrame DEF Types, lodVars
<1>7. CASE RevokeDestroy
  <2>1. EmptySlot \in SlotRecord
    BY ConstantTypes DEF EmptySlot, SlotRecord, SafeRange
  <2>2. slot' \in [Programs -> [Entries -> SlotRecord]]
    <3>1. slot \in [Programs -> [Entries -> SlotRecord]]  BY <1>0 DEF ProgramTypes
    <3>2. slot' = [slot EXCEPT ![req.id] =
                     [e \in Entries |-> IF e < count[req.id] THEN EmptySlot ELSE @[e]]]
      BY <1>7 DEF RevokeDestroy
    <3> QED BY <1>5, <2>1, <3>1, <3>2
  <2>3. instance' \in [Programs -> Instances] /\ count' \in [Programs -> 0 .. EntryMax]
    BY <1>0, <1>5, <1>7, ConstantTypes DEF RevokeDestroy, ProgramTypes
  <2>4. UNCHANGED <<mode, ceiling, address, link, config>>
    BY <1>7 DEF RevokeDestroy
  <2>5. ProgramTypes'  BY <1>0, <2>2, <2>3, <2>4 DEF ProgramTypes
  <2> QED BY <1>0, <1>1, <1>4, <2>5, SiteFrame, ThreadFrame DEF Types, lodVars
<1> QED BY <1>6, <1>7

LEMMA LoaderTypes ==
  ASSUME Types, Loader
  PROVE  Types'
<1>0. ProgramTypes /\ SiteTypes /\ ControlTypes /\ ThreadTypes /\ writer \in {0, 1}
  BY DEF Types
<1>1. UNCHANGED <<writer, progVars, site, issued, ctlVars, thrVars>>
  BY DEF Loader, LegacyArmCheck, LegacyArm, LegacyDisarm, siteVars
<1>2. lpc \in {"idle", "arm"} /\ lreq \in [site : Sites, address : AddressRange]
  BY <1>0 DEF ControlTypes
<1>3. lpc' \in {"idle", "arm"}
  BY <1>2 DEF Loader, LegacyArmCheck, LegacyArm, LegacyDisarm
<1>4. lreq' \in [site : Sites, address : AddressRange]
  <2>1. lreq' = lreq \/ \E s \in LegacySlots, a \in Addresses : lreq' = [site |-> s, address |-> a]
    BY DEF Loader, LegacyArmCheck, LegacyArm, LegacyDisarm
  <2>2. LegacySlots \subseteq Sites
    BY ProgramManagerAssumption DEF ProgramManagerAssumption, Sites
  <2> QED BY <1>2, <2>1, <2>2 DEF AddressRange
<1>r. raced' \in BOOLEAN
  <2>1. raced \in BOOLEAN  BY <1>0 DEF ControlTypes
  <2> QED BY <2>1 DEF Loader, LegacyArmCheck, LegacyArm, LegacyDisarm
<1>5. ControlTypes'
  BY <1>0, <1>1, <1>3, <1>4, <1>r DEF ControlTypes, ctlVars
<1>6. /\ \/ UNCHANGED pad
         \/ pad' = [pad EXCEPT ![lreq.address] = lreq.site]
         \/ \E s \in LegacySlots : pad' = [pad EXCEPT ![legacy[s]] = NoSite]
      /\ \/ UNCHANGED legacy
         \/ legacy' = [legacy EXCEPT ![lreq.site] = lreq.address]
         \/ \E s \in LegacySlots : legacy' = [legacy EXCEPT ![s] = NoAddress]
  BY DEF Loader, LegacyArmCheck, LegacyArm, LegacyDisarm, siteVars
<1>7. pad' \in [Addresses -> SiteRange]
  <2>1. pad \in [Addresses -> SiteRange]  BY <1>0 DEF SiteTypes
  <2>2. lreq.site \in SiteRange /\ NoSite \in SiteRange  BY <1>2 DEF SiteRange
  <2> QED BY <1>6, <2>1, <2>2
<1>8. legacy' \in [Sites -> AddressRange]
  <2>1. legacy \in [Sites -> AddressRange]  BY <1>0 DEF SiteTypes
  <2>2. lreq.address \in AddressRange /\ NoAddress \in AddressRange  BY <1>2 DEF AddressRange
  <2> QED BY <1>6, <2>1, <2>2
<1>9. SiteTypes'  BY <1>0, <1>1, <1>7, <1>8 DEF SiteTypes
<1> QED BY <1>0, <1>1, <1>5, <1>9, ProgramFrame, ThreadFrame DEF Types

LEMMA ThreadMove ==
  ASSUME ThreadTypes, NEW t \in Threads, NEW x \in ThreadPc, NEW r \in CallRecord,
         tpc' = [tpc EXCEPT ![t] = x], call' = [call EXCEPT ![t] = r],
         x # "idle" => r.site \in Sites
  PROVE  ThreadTypes'
BY DEF ThreadTypes

\* A thread moves inside its call without touching the call's record.
LEMMA ThreadGoes ==
  ASSUME ThreadTypes, NEW t \in Threads, NEW x \in ThreadPc, tpc[t] # "idle",
         tpc' = [tpc EXCEPT ![t] = x], UNCHANGED call
  PROVE  ThreadTypes'
BY DEF ThreadTypes

LEMMA NoCallTypes == NoCall \in CallRecord
BY ConstantTypes DEF NoCall, CallRecord, AddressRange, SiteRange, SafeRange

LEMMA HitTypes ==
  ASSUME ProgramTypes, SiteTypes, ThreadTypes, NEW t \in Threads, NEW a \in Addresses, Hit(t, a)
  PROVE  ThreadTypes'
<1>1. pad[a] \in Sites  BY DEF Hit, SiteTypes, SiteRange
<1> DEFINE r == [NoCall EXCEPT !.site = pad[a], !.address = a]
<1>2. r \in CallRecord /\ r.site \in Sites
  BY <1>1, NoCallTypes DEF CallRecord, NoCall, SiteRange, AddressRange
<1>3. tpc' = [tpc EXCEPT ![t] = "tramp"] /\ call' = [call EXCEPT ![t] = r]
  BY DEF Hit
<1>4. "tramp" \in ThreadPc  BY DEF ThreadPc
<1> HIDE DEF r
<1> QED BY <1>2, <1>3, <1>4, ThreadMove

LEMMA GoTypes ==
  ASSUME ThreadTypes, NEW t \in Threads,
         \/ DispatchCount(t) \/ DispatchGate(t) \/ DispatchBusy(t)
         \/ DispatchLoopEnd(t) \/ DispatchLeave(t) \/ LegacyCall(t)
  PROVE  ThreadTypes'
<1>1. tpc[t] # "idle" /\ UNCHANGED call
  BY DEF DispatchCount, DispatchGate, DispatchBusy, DispatchLoopEnd, DispatchLeave, LegacyCall
<1>2. \E x \in ThreadPc : tpc' = [tpc EXCEPT ![t] = x]
  BY DEF DispatchCount, DispatchGate, DispatchBusy, DispatchLoopEnd, DispatchLeave, LegacyCall, ThreadPc
<1> QED BY <1>1, <1>2, ThreadGoes

LEMMA EnterTypes ==
  ASSUME SiteTypes, ThreadTypes, NEW t \in Threads, DispatchEnter(t)
  PROVE  ThreadTypes'
<1>1. call[t] \in CallRecord /\ call[t].site \in Sites /\ call \in [Threads -> CallRecord]
  BY DEF DispatchEnter, ThreadTypes
<1>2. site[call[t].site].owned \in BOOLEAN
  BY <1>1 DEF SiteTypes, SiteRecord
<1> DEFINE r == [call[t] EXCEPT !.owned = site[call[t].site].owned]
<1>3. r \in CallRecord /\ r.site \in Sites
  BY <1>1, <1>2 DEF CallRecord
<1>4. call' = [call EXCEPT ![t] = r]
  BY <1>1 DEF DispatchEnter
<1>5. \E x \in ThreadPc : tpc' = [tpc EXCEPT ![t] = x]
  BY DEF DispatchEnter, ThreadPc
<1> HIDE DEF r
<1> QED BY <1>3, <1>4, <1>5, ThreadMove

LEMMA RunTypes ==
  ASSUME ProgramTypes, ThreadTypes, NEW t \in Threads, NEW p \in Slots, DispatchRun(t, p)
  PROVE  ThreadTypes'
<1>1. call[t] \in CallRecord /\ call[t].site \in Sites /\ call \in [Threads -> CallRecord]
  BY DEF DispatchRun, ThreadTypes
<1> DEFINE s == slot[p[1]][p[2]]
           runs == s.vm # 0 /\ s.mode # DISABLE
           v == IF runs THEN s.vm ELSE 0
           m == IF runs THEN s.mode ELSE DISABLE
           u == IF runs THEN call[t].ran \union {p} ELSE call[t].ran
           r == [call[t] EXCEPT !.last = p, !.vm = v, !.mode = m, !.ran = u]
<1>2. p[1] \in Programs /\ p[2] \in Entries  BY DEF Slots
<1>3. s \in SlotRecord  BY <1>2 DEF ProgramTypes
<1>4. v \in Instances /\ m \in Modes
  BY <1>3, ConstantTypes DEF SlotRecord
<1>5. u \in SUBSET Slots
  BY <1>1 DEF CallRecord
<1>6. call' = [call EXCEPT ![t] = r]
  BY <1>1 DEF DispatchRun
<1>7. \E x \in ThreadPc : tpc' = [tpc EXCEPT ![t] = x]
  BY DEF DispatchRun, ThreadPc
<1> HIDE DEF v, m, u
<1>8. r \in CallRecord /\ r.site \in Sites
  BY <1>1, <1>4, <1>5 DEF CallRecord
<1> HIDE DEF r
<1> QED BY <1>6, <1>7, <1>8, ThreadMove

LEMMA ReturnTypes ==
  ASSUME SiteTypes, ThreadTypes, NEW t \in Threads, NEW ret, DispatchReturn(t, ret)
  PROVE  ThreadTypes'
<1>1. call[t] \in CallRecord /\ call[t].site \in Sites /\ call \in [Threads -> CallRecord]
  BY DEF DispatchReturn, ThreadTypes
<1>2. site[call[t].site].safe \in SafeRange
  BY <1>1 DEF SiteTypes, SiteRecord
<1> DEFINE r1 == [call[t] EXCEPT !.vm = 0, !.mode = DISABLE, !.verdict = SAFE_RETURN,
                                 !.safe = site[call[t].site].safe]
           r2 == [call[t] EXCEPT !.vm = 0, !.mode = DISABLE]
<1>3. r1 \in CallRecord /\ r1.site \in Sites
  BY <1>1, <1>2, ConstantTypes DEF CallRecord
<1>4. r2 \in CallRecord /\ r2.site \in Sites
  BY <1>1, ConstantTypes DEF CallRecord
<1>5. call' = [call EXCEPT ![t] = r1] \/ call' = [call EXCEPT ![t] = r2]
  BY <1>1 DEF DispatchReturn
<1>6. tpc' = [tpc EXCEPT ![t] = "loop"] /\ "loop" \in ThreadPc
  BY DEF DispatchReturn, ThreadPc
<1> HIDE DEF r1, r2
<1> QED BY <1>3, <1>4, <1>5, <1>6, ThreadMove

LEMMA ResumeTypes ==
  ASSUME ThreadTypes, NEW t \in Threads, Resume(t)
  PROVE  ThreadTypes'
<1>1. "idle" \in ThreadPc  BY DEF ThreadPc
<1> QED BY <1>1, NoCallTypes, ThreadMove DEF Resume

LEMMA ThreadFrameCtl ==
  ASSUME NEW t \in Threads, ThreadStep(t) \/ \E a \in Addresses : Hit(t, a)
  PROVE  UNCHANGED ctlSide
BY DEF ThreadStep, Hit, DispatchCount, DispatchGate, DispatchBusy, DispatchEnter, DispatchRun,
       DispatchReturn, DispatchLoopEnd, DispatchLeave, LegacyCall, Resume

LEMMA ThreadStepTypes ==
  ASSUME Types, NEW t \in Threads, ThreadStep(t) \/ \E a \in Addresses : Hit(t, a)
  PROVE  Types'
<1>0. ProgramTypes /\ SiteTypes /\ ControlTypes /\ ThreadTypes /\ writer \in {0, 1}
  BY DEF Types
<1>1. UNCHANGED ctlSide
  BY ThreadFrameCtl
<1>2. ThreadTypes'
  BY <1>0, HitTypes, GoTypes, EnterTypes, RunTypes, ReturnTypes, ResumeTypes DEF ThreadStep
<1> QED BY <1>0, <1>1, <1>2, ProgramFrame, SiteFrame, ControlFrame DEF Types, ctlSide, lodVars

LEMMA NextTypes == Types /\ [Next]_vars => Types'
<1>1. ASSUME Types, Next PROVE Types'
  BY <1>1, BeginTypes, LockTypes, LoadTypes, ModeTypes, AttachTypes, DetachTypes, RevokeTypes,
     LoaderTypes, ThreadStepTypes
  DEF Next, ControlStep
<1>2. ASSUME Types, UNCHANGED vars PROVE Types'
  BY <1>2, ProgramFrame, SiteFrame, ControlFrame, ThreadFrame DEF Types, vars, lodVars
<1> QED BY <1>1, <1>2

-----------------------------------------------------------------------------
(* The gate.  The reader count is exact, so a writer that reads zero after *)
(* raising its flag knows that every later reader will see the flag.       *)

CountedThreads == {t \in Threads : tpc[t] \in Counted}

LEMMA CountedFinite == IsFiniteSet(CountedThreads) /\ Cardinality(CountedThreads) \in Nat
BY ProgramManagerAssumption, FS_Subset, FS_CardinalityType DEF ProgramManagerAssumption, CountedThreads

LEMMA ReadersKept ==
  ASSUME ReadersExact, UNCHANGED readers, CountedThreads' = CountedThreads
  PROVE  ReadersExact'
BY DEF ReadersExact, CountedThreads

LEMMA CountedKept ==
  ASSUME ThreadTypes, NEW t \in Threads, NEW x, tpc' = [tpc EXCEPT ![t] = x],
         x \in Counted <=> tpc[t] \in Counted
  PROVE  CountedThreads' = CountedThreads
BY DEF CountedThreads, ThreadTypes

LEMMA ReadersJoin ==
  ASSUME ThreadTypes, ReadersExact, NEW t \in Threads, DispatchCount(t)
  PROVE  ReadersExact'
<1>1. CountedThreads' = CountedThreads \union {t} /\ t \notin CountedThreads
  BY DEF DispatchCount, CountedThreads, ThreadTypes, Counted
<1>2. Cardinality(CountedThreads') = Cardinality(CountedThreads) + 1
  BY <1>1, CountedFinite, FS_AddElement
<1> QED BY <1>2 DEF DispatchCount, ReadersExact, CountedThreads

LEMMA ReadersLeave ==
  ASSUME ThreadTypes, ReadersExact, NEW t \in Threads, DispatchBusy(t) \/ DispatchLeave(t)
  PROVE  ReadersExact'
<1>1. tpc[t] \in Counted /\ readers' = readers - 1
      /\ \E x \in {"done", "legacy"} : tpc' = [tpc EXCEPT ![t] = x]
  BY DEF DispatchBusy, DispatchLeave, Counted
<1>2. CountedThreads' = CountedThreads \ {t} /\ t \in CountedThreads
  BY <1>1 DEF CountedThreads, ThreadTypes, Counted
<1>3. Cardinality(CountedThreads') = Cardinality(CountedThreads) - 1
  BY <1>2, CountedFinite, FS_RemoveElement
<1> QED BY <1>1, <1>3 DEF ReadersExact, CountedThreads

LEMMA ReadersThread ==
  ASSUME ThreadTypes, ReadersExact, NEW t \in Threads,
         ThreadStep(t) \/ \E a \in Addresses : Hit(t, a)
  PROVE  ReadersExact'
<1>1. CASE DispatchCount(t)                      BY <1>1, ReadersJoin
<1>2. CASE DispatchBusy(t) \/ DispatchLeave(t)  BY <1>2, ReadersLeave
<1>3. CASE \/ DispatchGate(t) \/ DispatchEnter(t) \/ (\E p \in Slots : DispatchRun(t, p))
           \/ (\E ret \in {SAFE_RETURN, FALLTHROUGH} : DispatchReturn(t, ret))
           \/ DispatchLoopEnd(t) \/ LegacyCall(t) \/ Resume(t) \/ (\E a \in Addresses : Hit(t, a))
  <2>1. UNCHANGED readers
    BY <1>3 DEF DispatchGate, DispatchEnter, DispatchRun, DispatchReturn, DispatchLoopEnd,
                LegacyCall, Resume, Hit
  <2>2. \E x : tpc' = [tpc EXCEPT ![t] = x] /\ (x \in Counted <=> tpc[t] \in Counted)
    <3>1. CASE DispatchGate(t)     BY <3>1 DEF DispatchGate, Counted
    <3>2. CASE DispatchEnter(t)    BY <3>2 DEF DispatchEnter, Counted
    <3>3. CASE \E p \in Slots : DispatchRun(t, p)  BY <3>3 DEF DispatchRun, Counted
    <3>4. CASE \E ret \in {SAFE_RETURN, FALLTHROUGH} : DispatchReturn(t, ret)
      BY <3>4 DEF DispatchReturn, Counted
    <3>5. CASE DispatchLoopEnd(t)  BY <3>5 DEF DispatchLoopEnd, Counted
    <3>6. CASE LegacyCall(t) \/ Resume(t)
      <4>1. tpc[t] \notin Counted  BY <3>6 DEF LegacyCall, Resume, Counted
      <4>2. tpc' = [tpc EXCEPT ![t] = "done"] \/ tpc' = [tpc EXCEPT ![t] = "idle"]
        BY <3>6 DEF LegacyCall, Resume
      <4>3. "done" \notin Counted /\ "idle" \notin Counted  BY DEF Counted
      <4> QED BY <4>1, <4>2, <4>3
    <3>8. CASE \E a \in Addresses : Hit(t, a)  BY <3>8 DEF Hit, Counted
    <3> QED BY <1>3, <3>1, <3>2, <3>3, <3>4, <3>5, <3>6, <3>8
  <2> QED BY <2>1, <2>2, CountedKept, ReadersKept
<1> QED BY <1>1, <1>2, <1>3 DEF ThreadStep

\* The steps of an operation that holds the gate.
HeldStep ==
  \/ LoadPublish \/ ModeSet \/ AttachShare \/ AttachCheck \/ AttachPatch \/ AttachReserve
  \/ Detach \/ RevokeDisable \/ RevokeDetach \/ RevokeConfig \/ RevokeDestroy

LEMMA HeldFrame ==
  ASSUME HeldStep
  PROVE  /\ cpc \in Critical /\ cpc' \in Critical
         /\ UNCHANGED <<writer, readers, thrVars>>
BY DEF HeldStep, LoadPublish, ModeSet, AttachShare, AttachCheck, AttachPatch, AttachReserve,
       Detach, RevokeDisable, RevokeDetach, RevokeConfig, RevokeDestroy, Critical

LEMMA ControlReaders ==
  ASSUME ControlBegin \/ ControlStep \/ Loader
  PROVE  UNCHANGED <<readers, thrVars>>
<1>1. CASE ControlBegin
  BY <1>1 DEF ControlBegin, LoadBegin, ModeBegin, AttachBegin, DetachBegin, RevokeBegin
<1>2. CASE LockExchange \/ LockReaders \/ Unlock
  BY <1>2 DEF LockExchange, LockReaders, Unlock
<1>3. CASE (\E v \in SafeValues : LoadPrepare(v)) \/ LoadUnwind
  BY <1>3 DEF LoadPrepare, LoadUnwind
<1>4. CASE HeldStep  BY <1>4, HeldFrame
<1>5. CASE Loader
  BY <1>5 DEF Loader, LegacyArmCheck, LegacyArm, LegacyDisarm
<1> QED BY <1>1, <1>2, <1>3, <1>4, <1>5 DEF ControlStep, HeldStep

LEMMA NextReaders ==
  ASSUME Types, ReadersExact, [Next]_vars
  PROVE  ReadersExact' /\ readers' \in Nat
<1>1. ASSUME ControlBegin \/ ControlStep \/ Loader \/ UNCHANGED vars PROVE ReadersExact'
  <2>1. UNCHANGED <<readers, tpc>>
    BY <1>1, ControlReaders DEF thrVars, vars
  <2> QED BY <2>1, ReadersKept DEF CountedThreads, ReadersExact
<1>2. ASSUME NEW t \in Threads, ThreadStep(t) \/ \E a \in Addresses : Hit(t, a)
      PROVE  ReadersExact'
  BY <1>2, ReadersThread DEF Types
<1>3. ReadersExact'  BY <1>1, <1>2 DEF Next
<1>4. IsFiniteSet(CountedThreads') /\ Cardinality(CountedThreads') \in Nat
  BY ProgramManagerAssumption, FS_Subset, FS_CardinalityType DEF ProgramManagerAssumption, CountedThreads
<1> QED BY <1>3, <1>4 DEF ReadersExact, CountedThreads

LEMMA WriterNext ==
  ASSUME Types, WriterFlag, [Next]_vars
  PROVE  WriterFlag'
<1>0. writer \in {0, 1} /\ cpc \in ControlPc  BY DEF Types, ControlTypes
<1>1. CASE ControlBegin
  <2>1. cpc = "idle" /\ cpc' \in {"prepare", "exchange"} /\ UNCHANGED writer
    BY <1>1 DEF ControlBegin, LoadBegin, ModeBegin, AttachBegin, DetachBegin, RevokeBegin, Begin
  <2> QED BY <2>1 DEF WriterFlag, Critical
<1>2. CASE LockExchange
  <2>1. cpc' \in {"unwind", "idle"} \/ (writer # 1 /\ cpc' = "readers")
    BY <1>2 DEF LockExchange, Refuse, Goto, Return
  <2>2. cpc = "exchange" /\ writer' = 1  BY <1>2 DEF LockExchange
  <2>3. writer # 1  BY <2>2 DEF WriterFlag, Critical
  <2>4. cpc' = "readers"  BY <1>2, <2>3 DEF LockExchange, Goto
  <2> QED BY <2>2, <2>4 DEF WriterFlag
<1>3. CASE LockReaders
  <2>1. cpc = "readers" /\ writer = 1  BY <1>3 DEF LockReaders, WriterFlag
  <2>2. CASE readers = 0
    <3>1. cpc' = Body /\ writer' = writer  BY <1>3, <2>2 DEF LockReaders, Goto
    <3>2. Body \in Critical  BY DEF Body, Critical
    <3> QED BY <2>1, <3>1, <3>2 DEF WriterFlag
  <2>3. CASE readers # 0
    <3>1. cpc' \in {"unwind", "idle"} /\ writer' = 0
      BY <1>3, <2>3 DEF LockReaders, Refuse, Goto, Return
    <3>2. cpc' \notin Critical \union {"readers"}  BY <3>1 DEF Critical
    <3> QED BY <3>1, <3>2 DEF WriterFlag
  <2> QED BY <2>2, <2>3
<1>4. CASE Unlock
  <2>1. cpc' \in {"unwind", "idle"} /\ writer' = 0
    BY <1>4 DEF Unlock, Refuse, Goto, Return
  <2>2. cpc' \notin Critical \union {"readers"}  BY <2>1 DEF Critical
  <2> QED BY <2>1, <2>2 DEF WriterFlag
<1>5. CASE (\E v \in SafeValues : LoadPrepare(v)) \/ LoadUnwind
  <2>1. /\ cpc \in {"prepare", "unwind"} /\ cpc' \in {"prepare", "exchange", "unwind", "idle"}
        /\ UNCHANGED writer
    BY <1>5 DEF LoadPrepare, LoadUnwind, Return
  <2> QED BY <2>1 DEF WriterFlag, Critical
<1>6. CASE HeldStep
  BY <1>6, HeldFrame DEF WriterFlag
<1>7. CASE Loader \/ UNCHANGED vars \/ \E t \in Threads : ThreadStep(t) \/ \E a \in Addresses : Hit(t, a)
  <2>1. UNCHANGED <<writer, cpc>>
    <3>1. CASE Loader  BY <3>1 DEF Loader, LegacyArmCheck, LegacyArm, LegacyDisarm, ctlVars
    <3>2. CASE UNCHANGED vars  BY <3>2 DEF vars, ctlVars
    <3>3. ASSUME NEW t \in Threads, ThreadStep(t) \/ \E a \in Addresses : Hit(t, a)
          PROVE  UNCHANGED <<writer, cpc>>
      BY <3>3, ThreadFrameCtl DEF ctlSide, ctlVars
    <3> QED BY <1>7, <3>1, <3>2, <3>3
  <2> QED BY <2>1 DEF WriterFlag
<1> QED
  BY <1>1, <1>2, <1>3, <1>4, <1>5, <1>6, <1>7 DEF Next, ControlStep, HeldStep

LEMMA ExclusionNext ==
  ASSUME Types, ReadersExact, WriterFlag, GateExclusion, [Next]_vars
  PROVE  GateExclusion'
<1>0. tpc \in [Threads -> ThreadPc]  BY DEF Types, ThreadTypes
<1>1. CASE ControlBegin \/ LockExchange \/ Unlock \/ (\E v \in SafeValues : LoadPrepare(v)) \/ LoadUnwind
  <2>1. cpc' \in {"prepare", "exchange", "readers", "unwind", "idle"}
    BY <1>1 DEF ControlBegin, LoadBegin, ModeBegin, AttachBegin, DetachBegin, RevokeBegin, Begin,
                LockExchange, Unlock, LoadPrepare, LoadUnwind, Refuse, Goto, Return
  <2> QED BY <2>1 DEF GateExclusion, Critical
<1>2. CASE LockReaders
  <2>1. UNCHANGED tpc  BY <1>2 DEF LockReaders, thrVars
  <2>2. CASE readers = 0
    <3>1. CountedThreads = {}
      BY <2>2, CountedFinite, FS_EmptySet DEF ReadersExact, CountedThreads
    <3>2. \A t \in Threads : tpc[t] \notin Inside
      BY <3>1 DEF CountedThreads, Counted, Inside
    <3> QED BY <2>1, <3>2 DEF GateExclusion
  <2>3. CASE readers # 0
    <3>1. cpc' \in {"unwind", "idle"}
      BY <1>2, <2>3 DEF LockReaders, Refuse, Goto, Return
    <3> QED BY <3>1 DEF GateExclusion, Critical
  <2> QED BY <2>2, <2>3
<1>3. CASE HeldStep
  BY <1>3, HeldFrame DEF GateExclusion, thrVars
<1>4. CASE Loader \/ UNCHANGED vars
  BY <1>4 DEF Loader, LegacyArmCheck, LegacyArm, LegacyDisarm, ctlVars, thrVars, vars, GateExclusion
<1>5. ASSUME NEW t \in Threads, ThreadStep(t) \/ \E a \in Addresses : Hit(t, a)
      PROVE  GateExclusion'
  <2>1. UNCHANGED <<writer, cpc>>
    BY <1>5, ThreadFrameCtl DEF ctlSide, ctlVars
  <2>2. CASE cpc \notin Critical
    BY <2>1, <2>2 DEF GateExclusion
  <2>3. CASE cpc \in Critical
    <3>1. writer = 1 /\ tpc[t] \notin Inside
      BY <2>3 DEF WriterFlag, GateExclusion
    <3>2. \E x : tpc' = [tpc EXCEPT ![t] = x] /\ x \notin Inside
      <4>1. CASE \E a \in Addresses : Hit(t, a)  BY <4>1, ZenonT(60) DEF Hit, Inside
      <4>2. CASE DispatchCount(t) \/ DispatchGate(t)
        <5>1. tpc' = [tpc EXCEPT ![t] = "gate"] \/ tpc' = [tpc EXCEPT ![t] = "busy"]
          BY <3>1, <4>2 DEF DispatchCount, DispatchGate
        <5>2. "gate" \notin Inside /\ "busy" \notin Inside  BY DEF Inside
        <5> QED BY <5>1, <5>2
      <4>4. CASE DispatchBusy(t) \/ LegacyCall(t) \/ Resume(t)
        <5>1. tpc' = [tpc EXCEPT ![t] = "done"] \/ tpc' = [tpc EXCEPT ![t] = "idle"]
          BY <4>4 DEF DispatchBusy, LegacyCall, Resume
        <5>2. "done" \notin Inside /\ "idle" \notin Inside  BY DEF Inside
        <5> QED BY <5>1, <5>2
      <4>5. tpc[t] \notin {"enter", "loop", "run", "leave"}  BY <3>1 DEF Inside
      <4> QED
        BY <1>5, <4>1, <4>2, <4>4, <4>5
        DEF ThreadStep, DispatchEnter, DispatchRun, DispatchReturn, DispatchLoopEnd, DispatchLeave
    <3> QED BY <1>0, <2>3, <3>2 DEF GateExclusion
  <2> QED BY <2>2, <2>3
<1> QED
  BY <1>1, <1>2, <1>3, <1>4, <1>5 DEF Next, ControlStep, HeldStep

-----------------------------------------------------------------------------
(* Reclamation.  A slot a thread executes belongs to a published program,  *)
(* published storage is written only with the gate held, and a load writes *)
(* only storage that is not published.                                     *)

LEMMA BeginPrivate ==
  ASSUME Types, ControlBegin
  PROVE  LoadPrivate' /\ UNCHANGED <<progVars, thrVars>>
<1>1. UNCHANGED <<progVars, thrVars>>
  BY DEF ControlBegin, LoadBegin, ModeBegin, AttachBegin, DetachBegin, RevokeBegin
<1>2. ASSUME NEW id \in Programs, NEW n \in 1 .. EntryMax, NEW top \in Ceilings,
             NEW f \in LoadTargets(n), LoadBegin(id, n, f, top)
      PROVE  LoadPrivate'
  <2>1. issued \in Nat
    BY ProgramManagerAssumption DEF Types, ControlTypes, Instances, ProgramManagerAssumption
  <2>2. /\ cpc' = "prepare" /\ cur' = 0 /\ instance[id] = 0
        /\ req' = MkRequest("load", id, issued + 1, 0, n, f, top)
    BY <1>2 DEF LoadBegin, Begin
  <2>3. req'.op = "load" /\ req'.inst = issued + 1 /\ req'.id = id
    BY <2>2 DEF MkRequest
  <2>4. \A e \in Entries : ~(e < cur')
    BY <2>2 DEF Entries
  <2>5. req'.op = "load" /\ req'.inst # 0 /\ instance'[req'.id] = 0
    BY <1>1, <2>1, <2>2, <2>3 DEF progVars
  <2> QED BY <2>2, <2>4, <2>5 DEF LoadPrivate
<1>3. ASSUME NEW id \in Programs, NEW inst \in 1 .. issued,
             \/ \E m \in Modes : ModeBegin(id, inst, m)
             \/ \E e \in Entries : AttachBegin(id, inst, e) \/ DetachBegin(id, inst, e)
             \/ RevokeBegin(id, inst)
      PROVE  LoadPrivate'
  <2>1. cpc' = "exchange" /\ req'.op # "load"
    BY <1>3 DEF ModeBegin, AttachBegin, DetachBegin, RevokeBegin, Begin, MkRequest
  <2> QED BY <2>1 DEF LoadPrivate, Loading
<1> QED BY <1>1, <1>2, <1>3 DEF ControlBegin

LEMMA LockPrivate ==
  ASSUME LoadPrivate, LockExchange \/ LockReaders \/ Unlock
  PROVE  LoadPrivate' /\ UNCHANGED <<progVars, thrVars>>
<1>1. UNCHANGED <<progVars, thrVars>>
  BY DEF LockExchange, LockReaders, Unlock
<1>2. \/ cpc' = "idle"
      \/ req' = req /\ cpc' = "unwind" /\ req.op = "load" /\ cpc \in {"exchange", "readers", "unlock fail"}
      \/ req' = req /\ cpc = "exchange" /\ cpc' = "readers"
      \/ req' = req /\ cpc = "readers" /\ cpc' = Body
  BY DEF LockExchange, LockReaders, Unlock, Refuse, Goto, Return
<1>3. CASE cpc' = "idle"  BY <1>1, <1>3 DEF LoadPrivate, Loading
<1>4. CASE req' = req /\ cpc' = "unwind" /\ req.op = "load" /\ cpc \in {"exchange", "readers", "unlock fail"}
  <2>1. Loading  BY <1>4 DEF Loading
  <2>2. req.inst # 0 /\ instance[req.id] = 0  BY <2>1 DEF LoadPrivate
  <2> QED BY <1>1, <1>4, <2>2 DEF LoadPrivate, progVars
<1>5. CASE req' = req /\ cpc = "exchange" /\ cpc' = "readers"
  BY <1>1, <1>5 DEF LoadPrivate, Loading, progVars
<1>6. CASE req' = req /\ cpc = "readers" /\ cpc' = Body
  <2>1. cpc' = "publish" <=> req.op = "load"
    BY <1>6 DEF Body
  <2>2. cpc' \in {"publish", "mode", "attach", "detach", "disable", "unlock"}
    BY <1>6 DEF Body
  <2> QED BY <1>1, <1>6, <2>1, <2>2 DEF LoadPrivate, Loading, progVars
<1> QED BY <1>1, <1>2, <1>3, <1>4, <1>5, <1>6

LEMMA PreparePrivate ==
  ASSUME Types, LoadPrivate, NEW v \in SafeValues, LoadPrepare(v)
  PROVE  LoadPrivate'
<1>1. Loading /\ cpc = "prepare"  BY DEF LoadPrepare, Loading
<1>2. /\ req.op = "load" /\ req.inst # 0 /\ instance[req.id] = 0
      /\ \A e \in Entries : e < cur => slot[req.id][e].vm = req.inst
  BY <1>1 DEF LoadPrivate
<1>3. req' = req /\ instance' = instance  BY DEF LoadPrepare
<1>4. cpc' = "unwind" \/ /\ cpc' = (IF cur + 1 = req.n THEN "exchange" ELSE "prepare")
                         /\ cur' = cur + 1
                         /\ slot' = [slot EXCEPT ![req.id][cur] =
                                        [vm |-> req.inst, mode |-> DISABLE, safe |-> v]]
  BY DEF LoadPrepare
<1>5. CASE cpc' = "unwind"
  BY <1>2, <1>3, <1>5 DEF LoadPrivate
<1>6. CASE /\ cpc' = (IF cur + 1 = req.n THEN "exchange" ELSE "prepare")
           /\ cur' = cur + 1
           /\ slot' = [slot EXCEPT ![req.id][cur] = [vm |-> req.inst, mode |-> DISABLE, safe |-> v]]
  <2>1. cur \in Nat /\ req \in Request /\ slot \in [Programs -> [Entries -> SlotRecord]]
    BY DEF Types, ControlTypes, ProgramTypes
  <2>2. req.id \in Programs  BY <2>1 DEF Request
  <2>3. \A e \in Entries : e < cur + 1 => e < cur \/ e = cur
    BY <2>1 DEF Entries
  <2>4. \A e \in Entries : e < cur + 1 => slot'[req.id][e].vm = req.inst
    BY <1>2, <1>6, <2>1, <2>2, <2>3
  <2>5. (IF cpc' = "prepare" THEN cur' ELSE req'.n) = cur + 1
    BY <1>3, <1>6
  <2> QED BY <1>2, <1>3, <2>4, <2>5 DEF LoadPrivate
<1> QED BY <1>4, <1>5, <1>6

LEMMA HeldPrivate ==
  ASSUME LoadPrivate, HeldStep
  PROVE  LoadPrivate'
<1>1. CASE LoadPublish
  <2>1. Loading  BY <1>1 DEF LoadPublish, Loading
  <2>2. cpc' = "unlock" \/ (cpc' = "unlock fail" /\ UNCHANGED instance)
    BY <1>1 DEF LoadPublish
  <2>3. UNCHANGED <<req, slot, cur>> /\ cpc = "publish"  BY <1>1 DEF LoadPublish
  <2>4. CASE cpc' = "unlock"  BY <2>4 DEF LoadPrivate, Loading
  <2>5. CASE cpc' = "unlock fail" /\ UNCHANGED instance
    BY <2>1, <2>3, <2>5 DEF LoadPrivate
  <2> QED BY <2>2, <2>4, <2>5
<1>2. CASE ~LoadPublish
  <2>1. cpc' \in Critical \ {"publish", "unlock fail"}
    BY <1>2 DEF HeldStep, ModeSet, AttachShare, AttachCheck, AttachPatch, AttachReserve,
       Detach, RevokeDisable, RevokeDetach, RevokeConfig, RevokeDestroy, Critical
  <2> QED BY <2>1 DEF LoadPrivate, Loading, Critical
<1> QED BY <1>1, <1>2

\* What a running thread relies on.
Reclaim == PublishedVMs /\ RunningSlots /\ NoUseAfterReclaim

LEMMA StorageFrame ==
  ASSUME Reclaim, UNCHANGED <<instance, count, slot, thrVars>>
  PROVE  Reclaim'
BY DEF Reclaim, PublishedVMs, RunningSlots, NoUseAfterReclaim, thrVars

LEMMA PrivateWrite ==
  ASSUME Reclaim, Loading, LoadPrivate, UNCHANGED <<instance, count, thrVars>>,
         \A id \in Programs : id # req.id => slot'[id] = slot[id]
  PROVE  Reclaim'
<1>1. instance[req.id] = 0  BY DEF LoadPrivate
<1>2. PublishedVMs'
  BY <1>1 DEF Reclaim, PublishedVMs
<1>3. RunningSlots'
  BY DEF Reclaim, RunningSlots, thrVars
<1>4. NoUseAfterReclaim'
  <2> SUFFICES ASSUME NEW t \in Threads, tpc[t] = "run"
               PROVE  LET p == call[t].last IN
                      /\ slot'[p[1]][p[2]].vm = call[t].vm
                      /\ slot'[p[1]][p[2]].mode = call[t].mode
                      /\ instance[p[1]] = call[t].vm
    BY DEF NoUseAfterReclaim, thrVars
  <2> DEFINE p == call[t].last
  <2>1. p \in Slots /\ call[t].vm # 0  BY DEF Reclaim, RunningSlots
  <2>2. /\ slot[p[1]][p[2]].vm = call[t].vm
        /\ slot[p[1]][p[2]].mode = call[t].mode
        /\ instance[p[1]] = call[t].vm
    BY DEF Reclaim, NoUseAfterReclaim
  <2>3. p[1] \in Programs /\ p[1] # req.id
    BY <1>1, <2>1, <2>2 DEF Slots
  <2> QED BY <2>2, <2>3
<1> QED BY <1>2, <1>3, <1>4 DEF Reclaim

LEMMA HeldReclaim ==
  ASSUME Types, Reclaim, GateExclusion, LoadPrivate, HeldStep
  PROVE  Reclaim'
<1>1. \A t \in Threads : tpc'[t] # "run"
  BY HeldFrame DEF GateExclusion, Inside, thrVars
<1>2. RunningSlots' /\ NoUseAfterReclaim'
  BY <1>1 DEF RunningSlots, NoUseAfterReclaim
<1>a. req \in Request  BY DEF Types, ControlTypes
<1>b. req.id \in Programs  BY <1>a DEF Request
<1>c. /\ slot \in [Programs -> [Entries -> SlotRecord]]
      /\ instance \in [Programs -> Instances] /\ count \in [Programs -> 0 .. EntryMax]
  BY DEF Types, ProgramTypes
<1>d. PublishedVMs  BY DEF Reclaim
<1>3. ASSUME LoadPublish PROVE PublishedVMs'
  <2>1. Loading /\ cpc = "publish"  BY <1>3 DEF LoadPublish, Loading
  <2>2. \A e \in Entries : e < req.n => slot[req.id][e].vm = req.inst
    BY <2>1 DEF LoadPrivate
  <2>3. slot' = slot /\ \/ UNCHANGED <<instance, count>>
                        \/ /\ instance' = [instance EXCEPT ![req.id] = req.inst]
                           /\ count' = [count EXCEPT ![req.id] = req.n]
    BY <1>3 DEF LoadPublish
  <2> QED BY <1>b, <1>c, <1>d, <2>2, <2>3 DEF PublishedVMs
<1>4. ASSUME ModeSet \/ RevokeDisable PROVE PublishedVMs'
  <2>1. PICK m \in Modes : SetSlotModes(req.id, m)
    BY <1>4, <1>a, ConstantTypes DEF ModeSet, RevokeDisable, Request
  <2>2. UNCHANGED <<instance, count>>
    BY <1>4 DEF ModeSet, RevokeDisable
  <2>3. \A id \in Programs, e \in Entries : slot'[id][e].vm = slot[id][e].vm
    BY <1>b, <1>c, <2>1 DEF SetSlotModes, SlotRecord
  <2> QED BY <1>d, <2>2, <2>3 DEF PublishedVMs
<1>5. ASSUME RevokeDestroy PROVE PublishedVMs'
  <2>1. /\ \A id \in Programs : id # req.id => slot'[id] = slot[id] /\ instance'[id] = instance[id]
                                               /\ count'[id] = count[id]
        /\ instance'[req.id] = 0
    BY <1>5, <1>b, <1>c DEF RevokeDestroy
  <2> QED BY <1>d, <2>1 DEF PublishedVMs
<1>6. ASSUME AttachShare \/ AttachCheck \/ AttachPatch \/ AttachReserve \/ Detach \/ RevokeDetach
             \/ RevokeConfig
      PROVE  PublishedVMs'
  <2>1. UNCHANGED <<instance, count, slot>>
    BY <1>6 DEF AttachShare, AttachCheck, AttachPatch, AttachReserve, Detach, RevokeDetach,
                RevokeConfig, progVars
  <2> QED BY <1>d, <2>1 DEF PublishedVMs
<1> QED BY <1>2, <1>3, <1>4, <1>5, <1>6 DEF HeldStep, Reclaim

\* A step of thread t that does not enter a VM.
LEMMA OtherThreads ==
  ASSUME Types, Reclaim, UNCHANGED <<instance, count, slot>>, NEW t \in Threads,
         NEW x, NEW r, x # "run",
         tpc' = [tpc EXCEPT ![t] = x], call' = call \/ call' = [call EXCEPT ![t] = r]
  PROVE  Reclaim'
<1>0. tpc \in [Threads -> ThreadPc] /\ call \in [Threads -> CallRecord]
  BY DEF Types, ThreadTypes
<1>1. \A u \in Threads : tpc'[u] = "run" => tpc[u] = "run" /\ call'[u] = call[u]
  BY <1>0
<1>2. PublishedVMs'       BY DEF Reclaim, PublishedVMs
<1>3. RunningSlots'       BY <1>1 DEF Reclaim, RunningSlots
<1>4. NoUseAfterReclaim'  BY <1>1 DEF Reclaim, NoUseAfterReclaim
<1> QED BY <1>2, <1>3, <1>4 DEF Reclaim

LEMMA RunReclaim ==
  ASSUME Types, Reclaim, UNCHANGED <<instance, count, slot>>, NEW t \in Threads,
         NEW p \in Slots, DispatchRun(t, p)
  PROVE  Reclaim'
<1>0. /\ tpc \in [Threads -> ThreadPc] /\ call \in [Threads -> CallRecord]
      /\ slot \in [Programs -> [Entries -> SlotRecord]]
  BY DEF Types, ThreadTypes, ProgramTypes
<1>1. p[1] \in Programs /\ p[2] \in Entries /\ instance[p[1]] # 0 /\ p[2] < count[p[1]]
  BY DEF DispatchRun, Next1, Attached, Slots
<1> DEFINE s == slot[p[1]][p[2]]
<1>2. s.vm = instance[p[1]]
  BY <1>1 DEF Reclaim, PublishedVMs
<1>3. \A u \in Threads : u # t => tpc'[u] = tpc[u] /\ call'[u] = call[u]
  BY <1>0 DEF DispatchRun
<1>4. tpc'[t] = "run" => call'[t].last = p /\ call'[t].vm = s.vm /\ call'[t].mode = s.mode
  <2>1. CASE s.vm # 0 /\ s.mode # DISABLE
    BY <1>0, <2>1 DEF DispatchRun, CallRecord
  <2>2. CASE ~(s.vm # 0 /\ s.mode # DISABLE)
    <3>1. tpc'[t] = "loop"  BY <1>0, <2>2 DEF DispatchRun
    <3> QED BY <3>1
  <2> QED BY <2>1, <2>2
<1>5. PublishedVMs'  BY DEF Reclaim, PublishedVMs
<1>6. RunningSlots'
  BY <1>1, <1>2, <1>3, <1>4 DEF Reclaim, RunningSlots
<1>7. NoUseAfterReclaim'
  <2> SUFFICES ASSUME NEW u \in Threads, tpc'[u] = "run"
               PROVE  LET q == call'[u].last IN
                      /\ slot[q[1]][q[2]].vm = call'[u].vm
                      /\ slot[q[1]][q[2]].mode = call'[u].mode
                      /\ instance[q[1]] = call'[u].vm
    BY DEF NoUseAfterReclaim
  <2>1. CASE u = t  BY <1>2, <1>4, <2>1
  <2>2. CASE u # t  BY <1>3, <2>2 DEF Reclaim, NoUseAfterReclaim
  <2> QED BY <2>1, <2>2
<1> QED BY <1>5, <1>6, <1>7 DEF Reclaim

LEMMA ThreadReclaim ==
  ASSUME Types, Reclaim, NEW t \in Threads, ThreadStep(t) \/ \E a \in Addresses : Hit(t, a)
  PROVE  Reclaim'
<1>1. UNCHANGED <<instance, count, slot>>
  BY ThreadFrameCtl DEF ctlSide, progVars
<1>2. CASE \E p \in Slots : DispatchRun(t, p)  BY <1>1, <1>2, RunReclaim
<1>3. CASE DispatchCount(t) \/ DispatchGate(t) \/ DispatchBusy(t) \/ DispatchLoopEnd(t)
           \/ DispatchLeave(t) \/ LegacyCall(t)
  <2>1. \E x : x # "run" /\ tpc' = [tpc EXCEPT ![t] = x] /\ call' = call
    BY <1>3 DEF DispatchCount, DispatchGate, DispatchBusy, DispatchLoopEnd, DispatchLeave, LegacyCall
  <2> QED BY <1>1, <2>1, OtherThreads
<1>4. CASE (\E ret \in {SAFE_RETURN, FALLTHROUGH} : DispatchReturn(t, ret)) \/ Resume(t)
           \/ (\E a \in Addresses : Hit(t, a))
  <2>1. \E x, r : x # "run" /\ tpc' = [tpc EXCEPT ![t] = x] /\ call' = [call EXCEPT ![t] = r]
    BY <1>4 DEF DispatchReturn, Resume, Hit
  <2> QED BY <1>1, <2>1, OtherThreads
<1>5. CASE DispatchEnter(t)
  <2>1. call \in [Threads -> CallRecord]  BY DEF Types, ThreadTypes
  <2>2. call' = [call EXCEPT ![t] = [call[t] EXCEPT !.owned = site[call[t].site].owned]]
    BY <1>5, <2>1 DEF DispatchEnter
  <2>3. \E x : x # "run" /\ tpc' = [tpc EXCEPT ![t] = x]
    BY <1>5 DEF DispatchEnter
  <2> QED BY <1>1, <2>2, <2>3, OtherThreads
<1> QED BY <1>2, <1>3, <1>4, <1>5 DEF ThreadStep

-----------------------------------------------------------------------------
(* The inductive invariant and the theorems.                               *)

LEMMA IInvInit == Init => IInv
<1> SUFFICES ASSUME Init PROVE IInv
  OBVIOUS
<1>1. TypeOK  BY InitTypes DEF TypeOK, Types
<1>2. ReadersExact
  <2>1. CountedThreads = {}  BY DEF Init, CountedThreads, Counted
  <2> QED BY <2>1, FS_EmptySet DEF Init, ReadersExact, CountedThreads
<1>3. WriterFlag /\ GateExclusion
  BY DEF Init, WriterFlag, GateExclusion, Critical
<1>4. LoadPrivate  BY DEF Init, LoadPrivate, Loading
<1>5. PublishedVMs  BY DEF Init, PublishedVMs
<1>6. RunningSlots /\ NoUseAfterReclaim
  BY DEF Init, RunningSlots, NoUseAfterReclaim
<1> QED BY <1>1, <1>2, <1>3, <1>4, <1>5, <1>6 DEF IInv

LEMMA PrivateNext ==
  ASSUME Types, LoadPrivate, GateExclusion, Reclaim, [Next]_vars
  PROVE  LoadPrivate' /\ Reclaim'
<1>1. CASE ControlBegin
  BY <1>1, BeginPrivate, StorageFrame DEF progVars
<1>2. CASE LockExchange \/ LockReaders \/ Unlock
  BY <1>2, LockPrivate, StorageFrame DEF progVars
<1>3. ASSUME NEW v \in SafeValues, LoadPrepare(v) PROVE LoadPrivate' /\ Reclaim'
  <2>1. Loading /\ UNCHANGED <<instance, count, thrVars>>
    BY <1>3 DEF LoadPrepare, Loading
  <2>2. \A id \in Programs : id # req.id => slot'[id] = slot[id]
    BY <1>3 DEF LoadPrepare, Types, ProgramTypes
  <2> QED BY <1>3, <2>1, <2>2, PreparePrivate, PrivateWrite
<1>4. CASE LoadUnwind
  <2>1. Loading /\ UNCHANGED <<instance, count, thrVars>> /\ cpc' = "idle"
    BY <1>4 DEF LoadUnwind, Loading, Return
  <2>2. \A id \in Programs : id # req.id => slot'[id] = slot[id]
    BY <1>4 DEF LoadUnwind, Types, ProgramTypes
  <2>3. LoadPrivate'  BY <2>1 DEF LoadPrivate, Loading
  <2> QED BY <2>1, <2>2, <2>3, PrivateWrite
<1>5. CASE HeldStep
  BY <1>5, HeldPrivate, HeldReclaim
<1>6. CASE Loader \/ UNCHANGED vars
  <2>1. UNCHANGED <<progVars, ctlVars, thrVars>>
    BY <1>6 DEF Loader, LegacyArmCheck, LegacyArm, LegacyDisarm, vars
  <2>2. LoadPrivate'  BY <2>1 DEF LoadPrivate, Loading, progVars, ctlVars
  <2> QED BY <2>1, <2>2, StorageFrame DEF progVars
<1>7. ASSUME NEW t \in Threads, ThreadStep(t) \/ \E a \in Addresses : Hit(t, a)
      PROVE  LoadPrivate' /\ Reclaim'
  <2>1. UNCHANGED <<progVars, ctlVars>>  BY <1>7, ThreadFrameCtl DEF ctlSide
  <2>2. LoadPrivate'  BY <2>1 DEF LoadPrivate, Loading, progVars, ctlVars
  <2> QED BY <1>7, <2>2, ThreadReclaim
<1> QED
  BY <1>1, <1>2, <1>3, <1>4, <1>5, <1>6, <1>7 DEF Next, ControlStep, HeldStep

LEMMA IInvNext == IInv /\ [Next]_vars => IInv'
<1> SUFFICES ASSUME IInv, [Next]_vars PROVE IInv'
  OBVIOUS
<1>1. Types /\ ReadersExact /\ WriterFlag /\ GateExclusion /\ LoadPrivate /\ Reclaim
  BY DEF IInv, TypeOK, Types, Reclaim
<1>2. Types'                            BY <1>1, NextTypes
<1>3. ReadersExact' /\ readers' \in Nat  BY <1>1, NextReaders
<1>4. WriterFlag'                       BY <1>1, WriterNext
<1>5. GateExclusion'                    BY <1>1, ExclusionNext
<1>6. LoadPrivate' /\ Reclaim'          BY <1>1, PrivateNext
<1>7. TypeOK'                           BY <1>2, <1>3 DEF Types, TypeOK
<1> QED BY <1>3, <1>4, <1>5, <1>6, <1>7 DEF IInv, Reclaim

\* The inductive invariant of the program manager.
THEOREM Invariance == Spec => []IInv
BY IInvInit, IInvNext, PTL DEF Spec

\* Type correctness: every table of the manager stays in its declared range
\* and the reader count, which two exits of ls_program_dispatch decrement,
\* never wraps below zero.
THEOREM TypeCorrect == Spec => []TypeOK
<1>1. IInv => TypeOK  BY DEF IInv
<1> QED BY <1>1, Invariance, PTL

\* The reader count is the number of threads between the increment and a
\* decrement of ls_program_dispatch, for any number of threads.
THEOREM ExactReaders == Spec => []ReadersExact
<1>1. IInv => ReadersExact  BY DEF IInv
<1> QED BY <1>1, Invariance, PTL

\* ls_program_lock excludes every dispatch that passed the writer check.
THEOREM Exclusion == Spec => []GateExclusion
<1>1. IInv => GateExclusion  BY DEF IInv
<1> QED BY <1>1, Invariance, PTL

\* No thread executes a VM that ls_program_revoke destroyed or that a failed
\* ls_program_load released, whatever the interleaving.
THEOREM NoReclaimInFlight == Spec => []NoUseAfterReclaim
<1>1. IInv => NoUseAfterReclaim  BY DEF IInv
<1> QED BY <1>1, Invariance, PTL

-----------------------------------------------------------------------------
(***************************************************************************)
(* Proofs about the tables of ProgramManager: what a slot, a site and the  *)
(* text of a function say of each other, for every number of programs,     *)
(* entries, sites, functions and data-path threads.                        *)
(*                                                                         *)
(* The invariant has five parts.  Requests: what an operation checked      *)
(* before it took the gate still holds when it acts on it.  Storage: what  *)
(* every slot of every program holds, also in the middle of a load or a    *)
(* revoke.  SiteLinks: the site table agrees with the links.  Calls: what  *)
(* a data-path thread has run so far.  Text: the pads agree with the site  *)
(* table and with the legacy hooks.  Only the last one needs the loader to *)
(* wait for the operation it submitted.                                    *)
(***************************************************************************)

-----------------------------------------------------------------------------
(* Requests.                                                               *)

\* The body of an operation runs for a request of its kind.
RequestPc ==
  /\ cpc \in {"prepare", "unwind", "publish", "unlock fail"} => req.op = "load"
  /\ cpc = "mode" => req.op = "mode"
  /\ cpc \in {"attach", "check", "patch", "reserve"} => req.op = "attach"
  /\ cpc = "detach" => req.op = "detach"
  /\ cpc \in {"disable", "detach all", "config", "destroy"} => req.op = "revoke"
  /\ cpc = "idle" => req.op = "none"

\* An operation on a published program is under way.
Operating == req.op \in {"mode", "attach", "detach", "revoke"} /\ cpc \notin {"idle", "unlock"}

\* The checks made before the gate was taken are not stale.
RequestCurrent ==
  Operating =>
    /\ req.inst # 0 /\ instance[req.id] = req.inst
    /\ req.op = "mode" => req.arg <= ceiling[req.id]
    /\ req.op = "attach" => req.entry < count[req.id] /\ link[req.id][req.entry] = NoSite

\* Where a loop over sites or entries stands.
Cursor ==
  /\ cpc \in {"patch", "reserve"} => site[cur].users = 0
  /\ cpc \in {"check", "patch", "reserve"} =>
       \A s \in Sites : site[s].users # 0 => site[s].address # AttachAddress
  /\ cpc \in {"detach all", "config", "destroy"} => mode[req.id] = DISABLE
  /\ cpc = "detach all" => \A e \in Entries : e < cur => link[req.id][e] = NoSite
  /\ cpc \in {"config", "destroy"} => \A e \in Entries : link[req.id][e] = NoSite

Requests == RequestPc /\ RequestCurrent /\ Cursor

-----------------------------------------------------------------------------
(* Storage.                                                                *)

\* What the slots of a program hold that no load is working on.
Settled(id) ==
  \A e \in Entries :
    IF instance[id] # 0 /\ e < count[id]
      THEN /\ slot[id][e].vm = instance[id] /\ slot[id][e].mode = mode[id]
           /\ address[id][e] \in Addresses
      ELSE slot[id][e] = EmptySlot

\* What a load has prepared so far.
Prepared ==
  /\ req.n \in 1 .. EntryMax /\ cur <= req.n
  /\ cpc = "prepare" => cur < req.n
  /\ cpc \notin {"prepare", "unwind"} => cur = req.n
  /\ \A e \in Entries :
       IF e < cur
         THEN slot[req.id][e].vm = req.inst /\ slot[req.id][e].mode = DISABLE
              /\ address[req.id][e] \in Addresses
         ELSE slot[req.id][e] = EmptySlot
  /\ \A e \in Entries : e < req.n => req.targets[e] \in Addresses

Slotted == \A id \in Programs : ~(Loading /\ id = req.id) => Settled(id)

Bound == \A id \in Programs : config[id] = IF cpc = "destroy" /\ id = req.id THEN 0 ELSE instance[id]

ModeAllowed == \A id \in Programs : mode[id] <= ceiling[id] /\ (instance[id] = 0 => mode[id] = DISABLE)

LinkedIsPublished ==
  \A id \in Programs, e \in Entries : link[id][e] # NoSite => instance[id] # 0 /\ e < count[id]

Storage == (Loading => Prepared) /\ Slotted /\ Bound /\ ModeAllowed /\ LinkedIsPublished

-----------------------------------------------------------------------------
(* Sites.                                                                  *)

Users(s) == {p \in Slots : link[p[1]][p[2]] = s}

UsersExact == \A s \in Sites : site[s].users = Cardinality(Users(s))

\* A linked entry and its site were made for the same function and value.
LinkAgrees ==
  \A p \in Slots : link[p[1]][p[2]] # NoSite =>
    LET s == site[link[p[1]][p[2]]] IN
    s.owned /\ s.address = address[p[1]][p[2]] /\ s.safe = slot[p[1]][p[2]].safe

\* One site for one function.
OneSite ==
  \A r, s \in Sites :
    site[r].users # 0 /\ site[s].users # 0 /\ site[r].address = site[s].address => r = s

SiteLinks == UsersExact /\ LinkAgrees /\ OneSite

-----------------------------------------------------------------------------
(* Calls.                                                                  *)

\* The entries of a site up to the one called last.
Reached(t) ==
  {q \in Slots : Attached(q, call[t].site) /\ (q = call[t].last \/ Before(q, call[t].last))}

AllAttached(t) == {q \in Slots : Attached(q, call[t].site)}

CallInv(t) ==
  /\ tpc[t] \in {"tramp", "gate", "busy", "enter"} =>
       call[t].ran = {} /\ call[t].verdict = FALLTHROUGH /\ call[t].last = <<-1, 0>>
  /\ tpc[t] \in {"loop", "run"} =>
       /\ site[call[t].site].owned /\ site[call[t].site].address = call[t].address
       /\ call[t].ran = Reached(t)
  /\ tpc[t] = "run" => call[t].last \in Slots /\ Attached(call[t].last, call[t].site)
  /\ tpc[t] = "leave" /\ call[t].ran # {} =>
       /\ site[call[t].site].address = call[t].address
       /\ call[t].ran = AllAttached(t)

Calls == (\A t \in Threads : CallInv(t)) /\ VerdictJustified

-----------------------------------------------------------------------------
(* Text.                                                                   *)

\* What the loader checked before it arms, and that no attach is at it.
Arming ==
  lpc = "arm" =>
    /\ lreq.address \in Addresses /\ pad[lreq.address] = NoSite
    /\ ~SiteOwned(lreq.site, lreq.address) /\ legacy[lreq.site] = NoAddress
    /\ ~AttachAt(lreq.site, lreq.address)

PadOfSite == \A s \in Sites : site[s].users # 0 => pad[site[s].address] = s

Reserving(a) == cpc = "reserve" /\ a = AttachAddress /\ pad[a] = cur

SiteOfPad ==
  \A a \in Addresses : pad[a] # NoSite =>
    \/ site[pad[a]].users # 0 /\ site[pad[a]].address = a
    \/ legacy[pad[a]] = a
    \/ Reserving(a)

Patching ==
  /\ cpc \in {"patch", "reserve"} => ~LegacyUses(cur, AttachAddress)
  /\ cpc = "patch" => pad[AttachAddress] = NoSite
  /\ cpc = "reserve" => pad[AttachAddress] = cur

\* The text agrees with its two owners as long as they have not raced.
Text == Arming /\ PadOfSite /\ SiteOfPad /\ Patching /\ PatchRefusesOwned

\* The inductive invariant, on top of IInv.
Tables == Requests /\ Storage /\ SiteLinks
LInv   == IInv /\ Tables /\ Calls

-----------------------------------------------------------------------------
(* What the types say of the parts an operation touches.                   *)

LEMMA RequestParts ==
  ASSUME Types
  PROVE  /\ req.id \in Programs /\ req.entry \in Entries /\ req.inst \in Instances
         /\ req.n \in 0 .. EntryMax /\ req.targets \in [Entries -> AddressRange]
         /\ req.arg \in Modes /\ cur \in Nat /\ cpc \in ControlPc
BY DEF Types, ControlTypes, Request

LEMMA TableParts ==
  ASSUME Types
  PROVE  /\ instance \in [Programs -> Instances] /\ count \in [Programs -> 0 .. EntryMax]
         /\ mode \in [Programs -> Modes] /\ ceiling \in [Programs -> Modes]
         /\ address \in [Programs -> [Entries -> AddressRange]]
         /\ link \in [Programs -> [Entries -> SiteRange]]
         /\ slot \in [Programs -> [Entries -> SlotRecord]]
         /\ config \in [Programs -> Instances]
         /\ site \in [Sites -> SiteRecord] /\ pad \in [Addresses -> SiteRange]
         /\ legacy \in [Sites -> AddressRange]
BY DEF Types, ProgramTypes, SiteTypes

LEMMA Numbers ==
  /\ Entries \subseteq Nat /\ Programs \subseteq Nat /\ Sites \subseteq Nat
  /\ Instances \subseteq Nat /\ 0 .. EntryMax \subseteq Nat /\ Modes \subseteq Nat
  /\ EntryMax \in Nat /\ SiteMax \in Nat
  /\ \A e \in Nat : e \in Entries <=> e < EntryMax
  /\ \A s \in Nat : s \in Sites <=> s < SiteMax
BY ProgramManagerAssumption
DEF ProgramManagerAssumption, Entries, Programs, Sites, Instances, Modes, DISABLE, MONITOR, ENFORCE

LEMMA LowestMode == \A m \in Modes : DISABLE <= m
BY DEF Modes, DISABLE, MONITOR, ENFORCE

LEMMA SlotPair == \A p \in Slots : p[1] \in Programs /\ p[2] \in Entries /\ p = <<p[1], p[2]>>
BY DEF Slots

\* A load works on a program that is not published.
LEMMA LoadingPrivate ==
  ASSUME IInv, Loading
  PROVE  req.op = "load" /\ req.inst # 0 /\ instance[req.id] = 0
BY DEF IInv, LoadPrivate

LEMMA InvTypes == IInv => Types
BY DEF IInv, TypeOK, Types

\* An entry that is linked is settled, whatever the control thread does.
LEMMA LinkedSettled ==
  ASSUME IInv, Storage, NEW id \in Programs, NEW e \in Entries, link[id][e] # NoSite
  PROVE  /\ instance[id] # 0 /\ e < count[id] /\ Settled(id)
         /\ slot[id][e].vm = instance[id] /\ slot[id][e].mode = mode[id]
         /\ address[id][e] \in Addresses
<1>1. instance[id] # 0 /\ e < count[id]
  BY DEF Storage, LinkedIsPublished
<1>2. ~(Loading /\ id = req.id)
  BY <1>1, LoadingPrivate
<1>3. Settled(id)  BY <1>2 DEF Storage, Slotted
<1> QED BY <1>1, <1>3 DEF Settled

-----------------------------------------------------------------------------
(* Counting the users of a site.                                           *)

LEMMA SlotsFinite == IsFiniteSet(Slots)
<1>1. IsFiniteSet(Programs) /\ IsFiniteSet(Entries)
  BY ProgramManagerAssumption, FS_Interval DEF ProgramManagerAssumption, Programs, Entries
<1> QED BY <1>1, FS_Product DEF Slots

LEMMA UsersFinite == ASSUME NEW s PROVE IsFiniteSet(Users(s)) /\ Cardinality(Users(s)) \in Nat
BY SlotsFinite, FS_Subset, FS_CardinalityType DEF Users

\* A site whose count is not zero has a linked entry, and one whose count is
\* zero has none.
LEMMA UsersWitness ==
  ASSUME UsersExact, NEW s \in Sites
  PROVE  site[s].users # 0 <=> \E p \in Slots : link[p[1]][p[2]] = s
<1>1. Cardinality(Users(s)) = 0 <=> Users(s) = {}
  BY UsersFinite, FS_EmptySet
<1> QED BY <1>1 DEF UsersExact, Users

\* Linking a free entry adds one user to one site.
LEMMA LinkCounts ==
  ASSUME Types, NEW id \in Programs, NEW e \in Entries, NEW s \in Sites, link[id][e] = NoSite,
         link' = [link EXCEPT ![id][e] = s]
  PROVE  /\ Cardinality(Users(s)') = Cardinality(Users(s)) + 1
         /\ \A r \in Sites : r # s => Users(r)' = Users(r)
<1>0. link \in [Programs -> [Entries -> SiteRange]] /\ NoSite \notin Sites
  BY TableParts, ProgramManagerAssumption DEF ProgramManagerAssumption, Sites
<1>1. \A p \in Slots : link'[p[1]][p[2]] = IF p = <<id, e>> THEN s ELSE link[p[1]][p[2]]
  BY <1>0, SlotPair
<1>2. <<id, e>> \in Slots  BY DEF Slots
<1>3. Users(s)' = Users(s) \union {<<id, e>>} /\ <<id, e>> \notin Users(s)
  BY <1>0, <1>1, <1>2 DEF Users
<1>4. \A r \in Sites : r # s => Users(r)' = Users(r)
  BY <1>0, <1>1, <1>2 DEF Users
<1> QED BY <1>3, <1>4, UsersFinite, FS_AddElement

\* Unlinking an entry takes one user from its site.
LEMMA UnlinkCounts ==
  ASSUME Types, NEW id \in Programs, NEW e \in Entries, NEW s \in Sites, link[id][e] = s,
         link' = [link EXCEPT ![id][e] = NoSite]
  PROVE  /\ Cardinality(Users(s)') = Cardinality(Users(s)) - 1
         /\ \A r \in Sites : r # s => Users(r)' = Users(r)
<1>0. link \in [Programs -> [Entries -> SiteRange]] /\ NoSite \notin Sites
  BY TableParts, ProgramManagerAssumption DEF ProgramManagerAssumption, Sites
<1>1. \A p \in Slots : link'[p[1]][p[2]] = IF p = <<id, e>> THEN NoSite ELSE link[p[1]][p[2]]
  BY <1>0, SlotPair
<1>2. <<id, e>> \in Slots  BY DEF Slots
<1>3. Users(s)' = Users(s) \ {<<id, e>>} /\ <<id, e>> \in Users(s)
  BY <1>0, <1>1, <1>2 DEF Users
<1>4. \A r \in Sites : r # s => Users(r)' = Users(r)
  BY <1>0, <1>1, <1>2 DEF Users
<1> QED BY <1>3, <1>4, UsersFinite, FS_RemoveElement

-----------------------------------------------------------------------------
(* Frames: what the parts of the invariant depend on.                      *)

LEMMA SiteLinksFrame ==
  ASSUME SiteLinks, UNCHANGED <<link, site, address, slot>>
  PROVE  SiteLinks'
BY DEF SiteLinks, UsersExact, LinkAgrees, OneSite, Users

LEMMA TablesFrame ==
  ASSUME Tables, UNCHANGED <<progVars, site, ctlVars>>
  PROVE  Tables'
<1>1. SiteLinks'  BY SiteLinksFrame DEF Tables, progVars
<1>2. Requests'
  BY DEF Tables, Requests, RequestPc, RequestCurrent, Operating, Cursor, AttachAddress,
         progVars, ctlVars
<1>3. Storage'
  BY ZenonT(60) DEF Tables, Storage, Loading, Prepared, Slotted, Settled, Bound, ModeAllowed,
         LinkedIsPublished, progVars, ctlVars
<1> QED BY <1>1, <1>2, <1>3 DEF Tables

\* The control thread moves on without touching a table.
LEMMA StorageMove ==
  ASSUME Storage, UNCHANGED progVars, cpc # "destroy", cpc' # "destroy",
         Loading' => Loading /\ req' = req /\ cur' = cur /\ (cpc = cpc' \/ cpc' # "prepare")
                     /\ (cpc \notin {"prepare", "unwind"} \/ cpc' = cpc),
         Loading => Loading'
  PROVE  Storage'
<1>1. Loading' => Prepared'
  BY DEF Storage, Prepared, progVars
<1>2. Slotted'
  BY DEF Storage, Slotted, Settled, progVars
<1>3. Bound'
  BY DEF Storage, Bound, progVars
<1>4. ModeAllowed' /\ LinkedIsPublished'
  BY DEF Storage, ModeAllowed, LinkedIsPublished, progVars
<1> QED BY <1>1, <1>2, <1>3, <1>4 DEF Storage

-----------------------------------------------------------------------------
(* Requests begin.                                                         *)

LEMMA BeginTables ==
  ASSUME IInv, Tables, ControlBegin
  PROVE  Tables'
<1>0. Types /\ Storage /\ SiteLinks  BY InvTypes DEF Tables
<1>1. UNCHANGED <<progVars, siteVars>> /\ cpc = "idle"
  BY DEF ControlBegin, LoadBegin, ModeBegin, AttachBegin, DetachBegin, RevokeBegin, Begin
<1>2. SiteLinks'  BY <1>0, <1>1, SiteLinksFrame DEF progVars, siteVars
<1>3. ~Loading  BY <1>1 DEF Loading
<1>4. ASSUME NEW id \in Programs, NEW n \in 1 .. EntryMax, NEW top \in Ceilings,
             NEW f \in LoadTargets(n), LoadBegin(id, n, f, top)
      PROVE  Requests' /\ Storage'
  <2>1. /\ cpc' = "prepare" /\ cur' = 0 /\ instance[id] = 0
        /\ req' = MkRequest("load", id, issued + 1, 0, n, f, top)
    BY <1>4 DEF LoadBegin, Begin
  <2>2. /\ req'.op = "load" /\ req'.id = id /\ req'.n = n /\ req'.targets = f
    BY <2>1 DEF MkRequest
  <2>3. Requests'
    BY <2>1, <2>2 DEF Requests, RequestPc, RequestCurrent, Operating, Cursor
  <2>4. \A e \in Entries : slot[id][e] = EmptySlot
    BY <1>0, <1>3, <2>1 DEF Storage, Slotted, Settled
  <2>5. \A e \in Entries : e < n => f[e] \in Addresses
    <3>1. n \in Nat /\ Entries \subseteq Nat  BY Numbers
    <3> QED BY <3>1 DEF LoadTargets
  <2>6. Prepared'
    <3>1. \A e \in Entries : ~(e < 0)  BY Numbers
    <3>2. 0 < n /\ 0 <= n  BY Numbers
    <3>3. slot' = slot  BY <1>1 DEF progVars
    <3> QED BY <2>1, <2>2, <2>4, <2>5, <3>1, <3>2, <3>3 DEF Prepared
  <2>7. Slotted'
    BY <1>0, <1>1, <1>3, <2>2 DEF Storage, Slotted, Settled, progVars
  <2>8. Bound' /\ ModeAllowed' /\ LinkedIsPublished'
    BY <1>0, <1>1, <2>1 DEF Storage, Bound, ModeAllowed, LinkedIsPublished, progVars
  <2> QED BY <2>3, <2>6, <2>7, <2>8 DEF Storage
<1>5. ASSUME NEW id \in Programs, NEW inst \in 1 .. issued,
             \/ \E m \in Modes : ModeBegin(id, inst, m)
             \/ \E e \in Entries : AttachBegin(id, inst, e) \/ DetachBegin(id, inst, e)
             \/ RevokeBegin(id, inst)
      PROVE  Requests' /\ Storage'
  <2>1. /\ cpc' = "exchange" /\ req'.op \in {"mode", "attach", "detach", "revoke"}
        /\ req'.id = id /\ req'.inst = inst /\ inst # 0 /\ instance[id] = inst
        /\ req'.op = "mode" => req'.arg <= ceiling[id]
        /\ req'.op = "attach" => req'.entry < count[id] /\ link[id][req'.entry] = NoSite
    BY <1>5 DEF ModeBegin, AttachBegin, DetachBegin, RevokeBegin, Begin, MkRequest, Find
  <2>2. ~Loading'  BY <2>1 DEF Loading
  <2>3. Requests'
    BY <1>1, <2>1 DEF Requests, RequestPc, RequestCurrent, Operating, Cursor, progVars
  <2> QED BY <1>0, <1>1, <1>3, <2>1, <2>2, <2>3, StorageMove
<1> QED BY <1>2, <1>4, <1>5 DEF ControlBegin, Tables

LEMMA LockTables ==
  ASSUME IInv, Tables, LockExchange \/ LockReaders \/ Unlock
  PROVE  Tables'
<1>0. Types /\ Requests /\ Storage /\ SiteLinks  BY InvTypes DEF Tables
<1>1. UNCHANGED <<progVars, siteVars>>
  BY DEF LockExchange, LockReaders, Unlock
<1>2. SiteLinks'  BY <1>0, <1>1, SiteLinksFrame DEF progVars, siteVars
<1>3. \/ cpc' = "idle" /\ req' = NoRequest /\ cpc \in {"exchange", "readers", "unlock", "unlock fail"}
         /\ (req.op # "load" \/ cpc = "unlock")
      \/ req' = req /\ cur' = cur /\ cpc' = "unwind" /\ req.op = "load"
         /\ cpc \in {"exchange", "readers", "unlock fail"}
      \/ req' = req /\ cur' = cur /\ cpc = "exchange" /\ cpc' = "readers"
      \/ req' = req /\ cur' = cur /\ cpc = "readers" /\ cpc' = Body
  BY DEF LockExchange, LockReaders, Unlock, Refuse, Goto, Return
<1>4. CASE cpc' = "idle" /\ req' = NoRequest /\ cpc \in {"exchange", "readers", "unlock", "unlock fail"}
           /\ (req.op # "load" \/ cpc = "unlock")
  <2>1. ~Loading /\ ~Loading'
    BY <1>0, <1>4 DEF Loading, Requests, RequestPc
  <2>2. Storage'
    BY <1>0, <1>1, <1>4, <2>1, StorageMove
  <2>3. Requests'
    BY <1>4 DEF Requests, RequestPc, RequestCurrent, Operating, Cursor, NoRequest, MkRequest
  <2> QED BY <1>2, <2>2, <2>3 DEF Tables
<1>5. CASE req' = req /\ cur' = cur /\ cpc' = "unwind" /\ req.op = "load"
           /\ cpc \in {"exchange", "readers", "unlock fail"}
  <2>1. Loading /\ Loading'  BY <1>5 DEF Loading
  <2>2. Storage'  BY <1>0, <1>1, <1>5, <2>1, StorageMove
  <2>3. Requests'
    BY <1>5 DEF Requests, RequestPc, RequestCurrent, Operating, Cursor
  <2> QED BY <1>2, <2>2, <2>3 DEF Tables
<1>6. CASE req' = req /\ cur' = cur /\ cpc = "exchange" /\ cpc' = "readers"
  <2>1. Loading <=> Loading'  BY <1>6 DEF Loading
  <2>2. Storage'  BY <1>0, <1>1, <1>6, <2>1, StorageMove
  <2>3. Requests'
    BY <1>0, <1>1, <1>6 DEF Requests, RequestPc, RequestCurrent, Operating, Cursor, progVars
  <2> QED BY <1>2, <2>2, <2>3 DEF Tables
<1>7. CASE req' = req /\ cur' = cur /\ cpc = "readers" /\ cpc' = Body
  <2>1. /\ cpc' \in {"publish", "mode", "attach", "detach", "disable", "unlock"}
        /\ cpc' = "publish" <=> req.op = "load"
        /\ cpc' = "mode" <=> req.op = "mode"
        /\ cpc' = "attach" <=> req.op = "attach"
        /\ cpc' = "detach" <=> req.op = "detach"
        /\ cpc' = "disable" <=> req.op = "revoke"
    BY <1>7 DEF Body
  <2>2. Loading <=> Loading'  BY <1>7, <2>1 DEF Loading
  <2>3. Storage'  BY <1>0, <1>1, <1>7, <2>1, <2>2, StorageMove
  <2>4. Requests'
    BY <1>0, <1>1, <1>7, <2>1 DEF Requests, RequestPc, RequestCurrent, Operating, Cursor, progVars
  <2> QED BY <1>2, <2>3, <2>4 DEF Tables
<1> QED BY <1>3, <1>4, <1>5, <1>6, <1>7

-----------------------------------------------------------------------------
(* A load writes only storage of its own program, which nothing links to.  *)

\* Slots, addresses and links of one unlinked program change and leave it
\* unlinked.
LEMMA PrivateSites ==
  ASSUME Types, SiteLinks, UNCHANGED site, NEW id \in Programs,
         \A e \in Entries : link[id][e] = NoSite /\ link'[id][e] = NoSite,
         \A d \in Programs : d # id => /\ slot'[d] = slot[d] /\ address'[d] = address[d]
                                       /\ link'[d] = link[d]
  PROVE  SiteLinks'
<1>1. \A p \in Slots : link'[p[1]][p[2]] = link[p[1]][p[2]]
  BY SlotPair
<1>2. \A s : Users(s)' = Users(s)  BY <1>1 DEF Users
<1>3. UsersExact'  BY <1>2 DEF SiteLinks, UsersExact
<1>4. LinkAgrees'
  <2> SUFFICES ASSUME NEW p \in Slots, link[p[1]][p[2]] # NoSite
               PROVE  LET s == site[link[p[1]][p[2]]] IN
                      s.owned /\ s.address = address'[p[1]][p[2]] /\ s.safe = slot'[p[1]][p[2]].safe
    BY <1>1 DEF LinkAgrees
  <2>1. p[1] \in Programs /\ p[2] \in Entries /\ p[1] # id  BY SlotPair
  <2> QED BY <2>1 DEF SiteLinks, LinkAgrees
<1>5. OneSite'  BY DEF SiteLinks, OneSite
<1> QED BY <1>3, <1>4, <1>5 DEF SiteLinks

\* The other programs do not notice.
LEMMA PrivateStorage ==
  ASSUME NEW id \in Programs, id = req.id, Storage, Loading, UNCHANGED <<instance, count, mode, ceiling, config>>,
         cpc # "destroy", cpc' # "destroy", Loading' => req' = req,
         Loading' => Prepared', ~Loading' => Settled(id)',
         \A d \in Programs : d # id => /\ slot'[d] = slot[d] /\ address'[d] = address[d]
                                           /\ link'[d] = link[d],
         \A e \in Entries : link'[id][e] = NoSite
  PROVE  Storage'
<1>1. Slotted'
  <2> SUFFICES ASSUME NEW d \in Programs, ~(Loading' /\ d = req'.id) PROVE Settled(d)'
    BY DEF Slotted
  <2>1. CASE d = id
    BY <2>1
  <2>2. CASE d # id
    BY <2>2 DEF Storage, Slotted, Settled
  <2> QED BY <2>1, <2>2
<1>2. Bound' /\ ModeAllowed'
  BY DEF Storage, Bound, ModeAllowed
<1>3. LinkedIsPublished'
  BY DEF Storage, LinkedIsPublished
<1> QED BY <1>1, <1>2, <1>3 DEF Storage

LEMMA LoadingUnlinked ==
  ASSUME IInv, Storage, Loading
  PROVE  \A e \in Entries : link[req.id][e] = NoSite
BY LoadingPrivate, RequestParts, InvTypes DEF Storage, LinkedIsPublished

LEMMA PrepareTables ==
  ASSUME IInv, Tables, NEW v \in SafeValues, LoadPrepare(v)
  PROVE  Tables'
<1>0. Types /\ Requests /\ Storage /\ SiteLinks  BY InvTypes DEF Tables
<1>1. /\ Loading /\ cpc = "prepare" /\ cur < req.n
      /\ UNCHANGED <<instance, count, mode, ceiling, config, site, req>>
  BY DEF LoadPrepare, Loading, siteVars
<1>a. req.id \in Programs /\ cur \in Nat /\ req.n \in 0 .. EntryMax  BY <1>0, RequestParts
<1>b. /\ slot \in [Programs -> [Entries -> SlotRecord]]
      /\ address \in [Programs -> [Entries -> AddressRange]]
      /\ link \in [Programs -> [Entries -> SiteRange]]
  BY <1>0, TableParts
<1>c. cur \in Entries  BY <1>1, <1>a, Numbers
<1>d. req.op = "load"  BY <1>1, LoadingPrivate
<1>e. \A e \in Entries : link[req.id][e] = NoSite  BY <1>0, <1>1, LoadingUnlinked
<1>f. Prepared  BY <1>0, <1>1 DEF Storage
<1>2. CASE /\ slot' = [slot EXCEPT ![req.id][cur] = [vm |-> req.inst, mode |-> DISABLE, safe |-> v]]
           /\ address' = [address EXCEPT ![req.id][cur] = req.targets[cur]]
           /\ link' = [link EXCEPT ![req.id][cur] = NoSite]
           /\ cur' = cur + 1
           /\ cpc' = IF cur + 1 = req.n THEN "exchange" ELSE "prepare"
  <2>1. cpc' \in {"exchange", "prepare"} /\ Loading'
    BY <1>1, <1>2, <1>d DEF Loading
  <2>2. \A d \in Programs : d # req.id => /\ slot'[d] = slot[d] /\ address'[d] = address[d]
                                          /\ link'[d] = link[d]
    BY <1>2, <1>a, <1>b
  <2>3. \A e \in Entries : link'[req.id][e] = NoSite
    BY <1>2, <1>a, <1>b, <1>e
  <2>4. \A e \in Entries : e # cur => slot'[req.id][e] = slot[req.id][e]
                                      /\ address'[req.id][e] = address[req.id][e]
    BY <1>2, <1>a, <1>b
  <2>5. slot'[req.id][cur] = [vm |-> req.inst, mode |-> DISABLE, safe |-> v]
        /\ address'[req.id][cur] = req.targets[cur]
    BY <1>2, <1>a, <1>b, <1>c
  <2>6. Prepared'
    <3>1. \A e \in Entries : e < cur + 1 <=> e < cur \/ e = cur
      BY <1>a, Numbers
    <3>2. \A e \in Entries :
            IF e < cur + 1
              THEN slot'[req.id][e].vm = req.inst /\ slot'[req.id][e].mode = DISABLE
                   /\ address'[req.id][e] \in Addresses
              ELSE slot'[req.id][e] = EmptySlot
      <4> TAKE e \in Entries
      <4>1. CASE e = cur
        BY <4>1, <1>1, <1>f, <2>5, <3>1 DEF Prepared
      <4>2. CASE e # cur /\ e < cur
        BY <4>2, <1>f, <2>4, <3>1 DEF Prepared
      <4>3. CASE e # cur /\ ~(e < cur)
        BY <4>3, <1>f, <2>4, <3>1 DEF Prepared
      <4> QED BY <4>1, <4>2, <4>3
    <3>3. /\ req.n \in 1 .. EntryMax /\ cur + 1 <= req.n
          /\ cpc' = "prepare" => cur + 1 < req.n
          /\ cpc' \notin {"prepare", "unwind"} => cur + 1 = req.n
      BY <1>1, <1>2, <1>a, <1>f, Numbers DEF Prepared
    <3> QED BY <1>1, <1>2, <1>f, <3>2, <3>3 DEF Prepared
  <2>7. Storage'
    BY <1>0, <1>1, <1>a, <2>1, <2>2, <2>3, <2>6, PrivateStorage
  <2>8. SiteLinks'
    BY <1>0, <1>1, <1>a, <1>e, <2>2, <2>3, PrivateSites
  <2>9. Requests'
    BY <1>1, <1>d, <2>1 DEF Requests, RequestPc, RequestCurrent, Operating, Cursor
  <2> QED BY <2>7, <2>8, <2>9 DEF Tables
<1>3. CASE /\ slot' = [slot EXCEPT ![req.id][cur] = EmptySlot]
           /\ cpc' = "unwind" /\ UNCHANGED <<address, link, cur>>
  <2>1. Loading'  BY <1>3 DEF Loading
  <2>2. \A d \in Programs : d # req.id => slot'[d] = slot[d]
    BY <1>3, <1>a, <1>b
  <2>4. \A e \in Entries : slot'[req.id][e] = IF e = cur THEN EmptySlot ELSE slot[req.id][e]
    BY <1>3, <1>a, <1>b
  <2>6. Prepared'
    <3>1. ~(cur < cur)  BY <1>a
    <3>2. \A e \in Entries :
            IF e < cur
              THEN slot'[req.id][e].vm = req.inst /\ slot'[req.id][e].mode = DISABLE
                   /\ address[req.id][e] \in Addresses
              ELSE slot'[req.id][e] = EmptySlot
      BY <1>f, <2>4, <3>1 DEF Prepared
    <3> QED BY <1>1, <1>3, <1>f, <3>2 DEF Prepared
  <2>7. Storage'
    BY <1>0, <1>1, <1>3, <1>a, <1>e, <2>1, <2>2, <2>6, PrivateStorage
  <2>8. SiteLinks'
    BY <1>0, <1>1, <1>3, <1>a, <1>e, <2>2, PrivateSites
  <2>9. Requests'
    BY <1>1, <1>3, <1>d DEF Requests, RequestPc, RequestCurrent, Operating, Cursor
  <2> QED BY <2>7, <2>8, <2>9 DEF Tables
<1> QED BY <1>2, <1>3 DEF LoadPrepare

LEMMA UnwindTables ==
  ASSUME IInv, Tables, LoadUnwind
  PROVE  Tables'
<1>0. Types /\ Requests /\ Storage /\ SiteLinks  BY InvTypes DEF Tables
<1>1. /\ Loading /\ cpc = "unwind" /\ cpc' = "idle" /\ req' = NoRequest
      /\ UNCHANGED <<instance, count, mode, ceiling, address, link, config, site>>
      /\ slot' = [slot EXCEPT ![req.id] = [e \in Entries |-> IF e < cur THEN EmptySlot ELSE @[e]]]
  BY DEF LoadUnwind, Loading, Return, siteVars
<1>a. req.id \in Programs  BY <1>0, RequestParts
<1>b. slot \in [Programs -> [Entries -> SlotRecord]]  BY <1>0, TableParts
<1>e. \A e \in Entries : link[req.id][e] = NoSite  BY <1>0, <1>1, LoadingUnlinked
<1>f. Prepared  BY <1>0, <1>1 DEF Storage
<1>g. instance[req.id] = 0  BY <1>1, LoadingPrivate
<1>2. ~Loading'  BY <1>1 DEF Loading
<1>3. \A d \in Programs : d # req.id => slot'[d] = slot[d]
  BY <1>1, <1>a, <1>b
<1>4. \A e \in Entries : slot'[req.id][e] = EmptySlot
  BY <1>1, <1>a, <1>b, <1>f DEF Prepared
<1>5. PICK id \in Programs : id = req.id  BY <1>a
<1>9. Settled(id)'
  BY <1>1, <1>4, <1>5, <1>g DEF Settled
<1>6. Storage'
  BY <1>0, <1>1, <1>2, <1>3, <1>5, <1>9, <1>e, PrivateStorage
<1>7. SiteLinks'
  BY <1>0, <1>1, <1>3, <1>a, <1>e, PrivateSites
<1>8. Requests'
  BY <1>1 DEF Requests, RequestPc, RequestCurrent, Operating, Cursor, NoRequest, MkRequest
<1> QED BY <1>6, <1>7, <1>8 DEF Tables

-----------------------------------------------------------------------------
(* The steps that hold the gate.                                           *)

LEMMA PublishTables ==
  ASSUME IInv, Tables, LoadPublish
  PROVE  Tables'
<1>0. Types /\ Requests /\ Storage /\ SiteLinks  BY InvTypes DEF Tables
<1>1. /\ Loading /\ cpc = "publish"
      /\ UNCHANGED <<mode, address, link, slot, site, req, cur>>
  BY DEF LoadPublish, Loading, siteVars
<1>a. req.id \in Programs /\ cur \in Nat /\ req.n \in 0 .. EntryMax /\ req.arg \in Modes
  BY <1>0, RequestParts
<1>b. /\ instance \in [Programs -> Instances] /\ count \in [Programs -> 0 .. EntryMax]
      /\ ceiling \in [Programs -> Modes] /\ config \in [Programs -> Instances]
      /\ mode \in [Programs -> Modes]
  BY <1>0, TableParts
<1>d. req.op = "load" /\ req.inst # 0 /\ instance[req.id] = 0  BY <1>1, LoadingPrivate
<1>f. Prepared  BY <1>0, <1>1 DEF Storage
<1>2. SiteLinks'  BY <1>0, <1>1, SiteLinksFrame
<1>3. CASE cpc' = "unlock fail" /\ UNCHANGED <<config, count, ceiling, instance>>
  <2>1. Loading'  BY <1>3 DEF Loading
  <2>2. Storage'  BY <1>0, <1>1, <1>3, <2>1, StorageMove DEF progVars
  <2>3. Requests'
    BY <1>1, <1>3, <1>d DEF Requests, RequestPc, RequestCurrent, Operating, Cursor
  <2> QED BY <1>2, <2>2, <2>3 DEF Tables
<1>4. CASE /\ config' = [config EXCEPT ![req.id] = req.inst]
           /\ count' = [count EXCEPT ![req.id] = req.n]
           /\ ceiling' = [ceiling EXCEPT ![req.id] = req.arg]
           /\ instance' = [instance EXCEPT ![req.id] = req.inst]
           /\ cpc' = "unlock"
  <2>1. ~Loading'  BY <1>4 DEF Loading
  <2>2. mode[req.id] = DISABLE
    BY <1>0, <1>a, <1>d DEF Storage, ModeAllowed
  <2>3. \A d \in Programs : d # req.id => /\ instance'[d] = instance[d] /\ count'[d] = count[d]
                                          /\ config'[d] = config[d] /\ ceiling'[d] = ceiling[d]
    BY <1>4, <1>b
  <2>4. /\ instance'[req.id] = req.inst /\ count'[req.id] = req.n
        /\ config'[req.id] = req.inst /\ ceiling'[req.id] = req.arg
    BY <1>4, <1>a, <1>b
  <2>5. Slotted'
    <3> SUFFICES ASSUME NEW id \in Programs PROVE Settled(id)'
      BY DEF Slotted
    <3>1. CASE id = req.id
      BY <1>1, <1>d, <1>f, <2>2, <2>4, <3>1 DEF Settled, Prepared
    <3>2. CASE id # req.id
      BY <1>0, <1>1, <2>3, <3>2 DEF Storage, Slotted, Settled
    <3> QED BY <3>1, <3>2
  <2>6. Bound'
    BY <1>0, <1>1, <1>4, <2>3, <2>4 DEF Storage, Bound
  <2>7. ModeAllowed'
    <3>1. DISABLE <= req.arg  BY <1>a, LowestMode
    <3>2. ASSUME NEW id \in Programs
          PROVE  mode'[id] <= ceiling'[id] /\ (instance'[id] = 0 => mode'[id] = DISABLE)
      <4>1. CASE id = req.id  BY <1>1, <1>d, <2>2, <2>4, <3>1, <4>1
      <4>2. CASE id # req.id  BY <1>0, <1>1, <2>3, <4>2 DEF Storage, ModeAllowed
      <4> QED BY <4>1, <4>2
    <3> QED BY <3>2 DEF ModeAllowed
  <2>8. LinkedIsPublished'
    <3>1. \A e \in Entries : link[req.id][e] = NoSite  BY <1>0, <1>1, LoadingUnlinked
    <3> QED BY <1>0, <1>1, <2>3, <3>1 DEF Storage, LinkedIsPublished
  <2>9. Requests'
    BY <1>1, <1>4, <1>d DEF Requests, RequestPc, RequestCurrent, Operating, Cursor
  <2> QED BY <1>2, <2>1, <2>5, <2>6, <2>7, <2>8, <2>9 DEF Tables, Storage
<1> QED BY <1>3, <1>4 DEF LoadPublish

\* Both operations that set a mode.
LEMMA ModeTables ==
  ASSUME IInv, Tables, ModeSet \/ RevokeDisable
  PROVE  Tables'
<1>0. Types /\ Requests /\ Storage /\ SiteLinks  BY InvTypes DEF Tables
<1>1. /\ cpc \in {"mode", "disable"} /\ UNCHANGED <<instance, count, ceiling, address, link, config, site, req>>
      /\ cpc' = IF cpc = "mode" THEN "unlock" ELSE "detach all"
      /\ cpc = "disable" => cur' = 0
  BY DEF ModeSet, RevokeDisable, siteVars
<1>a. req.id \in Programs /\ cur \in Nat /\ req.arg \in Modes  BY <1>0, RequestParts
<1>b. /\ slot \in [Programs -> [Entries -> SlotRecord]] /\ mode \in [Programs -> Modes]
      /\ ceiling \in [Programs -> Modes] /\ count \in [Programs -> 0 .. EntryMax]
      /\ link \in [Programs -> [Entries -> SiteRange]]
  BY <1>0, TableParts
<1> DEFINE m == IF cpc = "mode" THEN req.arg ELSE DISABLE
<1>2. m \in Modes /\ mode' = [mode EXCEPT ![req.id] = m] /\ SetSlotModes(req.id, m)
  BY <1>1, <1>a, ConstantTypes DEF ModeSet, RevokeDisable
<1>3. m <= ceiling[req.id]
  <2>1. CASE cpc = "mode"
    BY <1>0, <2>1 DEF Requests, RequestPc, RequestCurrent, Operating
  <2>2. CASE cpc # "mode"
    <3>1. ceiling[req.id] \in Modes  BY <1>a, <1>b
    <3> QED BY <2>2, <3>1, LowestMode
  <2> QED BY <2>1, <2>2
<1>4. instance[req.id] # 0
  BY <1>0, <1>1 DEF Requests, RequestPc, RequestCurrent, Operating
<1> HIDE DEF m
<1>5. ~Loading /\ ~Loading'
  BY <1>0, <1>1 DEF Loading, Requests, RequestPc
<1>6. /\ \A d \in Programs : d # req.id => slot'[d] = slot[d] /\ mode'[d] = mode[d]
      /\ mode'[req.id] = m
  BY <1>2, <1>a, <1>b DEF SetSlotModes
<1>7. \A e \in Entries : slot'[req.id][e] = IF e < count[req.id] THEN [slot[req.id][e] EXCEPT !.mode = m]
                                                                ELSE slot[req.id][e]
  BY <1>2, <1>a, <1>b DEF SetSlotModes
<1>8. \A e \in Entries : /\ slot'[req.id][e].vm = slot[req.id][e].vm
                         /\ slot'[req.id][e].safe = slot[req.id][e].safe
                         /\ e < count[req.id] => slot'[req.id][e].mode = m
                         /\ ~(e < count[req.id]) => slot'[req.id][e] = slot[req.id][e]
  <2>1. ASSUME NEW r \in SlotRecord
        PROVE  LET q == [r EXCEPT !.mode = m] IN q.vm = r.vm /\ q.safe = r.safe /\ q.mode = m
    BY DEF SlotRecord
  <2>2. \A e \in Entries : slot[req.id][e] \in SlotRecord  BY <1>a, <1>b
  <2> TAKE e \in Entries
  <2>3. CASE e < count[req.id]
    <3>1. slot'[req.id][e] = [slot[req.id][e] EXCEPT !.mode = m]  BY <1>7, <2>3
    <3> QED BY <2>1, <2>2, <2>3, <3>1
  <2>4. CASE ~(e < count[req.id])
    BY <1>7, <2>4
  <2> QED BY <2>3, <2>4
<1>9. Slotted'
  <2> SUFFICES ASSUME NEW id \in Programs PROVE Settled(id)'
    BY DEF Slotted
  <2>0. Settled(id)  BY <1>0, <1>5 DEF Storage, Slotted
  <2>1. CASE id = req.id
    BY <1>1, <1>4, <1>6, <1>8, <2>0, <2>1 DEF Settled
  <2>2. CASE id # req.id
    BY <1>1, <1>6, <2>0, <2>2 DEF Settled
  <2> QED BY <2>1, <2>2
<1>10. Bound' /\ LinkedIsPublished'
  BY <1>0, <1>1 DEF Storage, Bound, LinkedIsPublished
<1>11. ModeAllowed'
  BY <1>0, <1>1, <1>3, <1>4, <1>6 DEF Storage, ModeAllowed
<1>12. SiteLinks'
  <2>1. UsersExact' /\ OneSite'
    BY <1>0, <1>1 DEF SiteLinks, UsersExact, OneSite, Users
  <2>2. \A p \in Slots : slot'[p[1]][p[2]].safe = slot[p[1]][p[2]].safe
    <3> TAKE p \in Slots
    <3>1. CASE p[1] = req.id  BY <1>8, <3>1, SlotPair
    <3>2. CASE p[1] # req.id  BY <1>6, <3>2, SlotPair
    <3> QED BY <3>1, <3>2
  <2>3. LinkAgrees'
    BY <1>0, <1>1, <2>2 DEF SiteLinks, LinkAgrees
  <2> QED BY <2>1, <2>3 DEF SiteLinks
<1>13. Requests'
  <2>1. CASE cpc = "mode"
    BY <1>0, <1>1, <2>1 DEF Requests, RequestPc, RequestCurrent, Operating, Cursor
  <2>2. CASE cpc = "disable"
    <3>1. \A e \in Entries : ~(e < 0)  BY Numbers
    <3>2. mode'[req.id] = DISABLE  BY <1>6, <2>2 DEF m
    <3>3. cpc' = "detach all" /\ cur' = 0 /\ req' = req  BY <1>1, <2>2
    <3>4. req.op = "revoke"  BY <1>0, <2>2 DEF Requests, RequestPc
    <3>5. RequestPc' /\ Cursor'
      BY <3>1, <3>2, <3>3, <3>4 DEF RequestPc, Cursor
    <3>6. RequestCurrent'
      BY <1>0, <1>1, <2>2, <3>3, <3>4 DEF Requests, RequestCurrent, Operating
    <3> QED BY <3>5, <3>6 DEF Requests
  <2> QED BY <1>1, <2>1, <2>2
<1> QED BY <1>5, <1>9, <1>10, <1>11, <1>12, <1>13 DEF Tables, Storage

-----------------------------------------------------------------------------
(* Attaching.                                                              *)

\* The first site that serves a function exists as soon as one does.
LEMMA ServingExists ==
  ASSUME NEW a, \A s \in Sites : ~Serving(s, a)
  PROVE  \A s \in Sites : site[s].users # 0 => site[s].address # a
<1> DEFINE T == {s \in Sites : site[s].users # 0 /\ site[s].address = a}
<1>1. ASSUME T # {} PROVE FALSE
  <2>1. T \subseteq Nat  BY Numbers
  <2>2. PICK x \in T : \A y \in T : ~(<<y, x>> \in OpToRel(<, Nat))
    BY <1>1, <2>1, NatLessThanWellFounded, WFMin
  <2>3. \A y \in T : ~(y < x)
    <3>1. \A y \in T : y < x => <<y, x>> \in OpToRel(<, Nat)
      BY <2>1 DEF OpToRel
    <3> QED BY <2>2, <3>1
  <2>4. Serving(x, a)
    BY <2>3 DEF Serving
  <2> QED BY <2>4
<1> QED BY <1>1

\* What an attach knows of the entry it works on.
LEMMA AttachKnows ==
  ASSUME IInv, Tables, cpc \in {"attach", "check", "patch", "reserve"}
  PROVE  /\ req.op = "attach" /\ ~Loading
         /\ req.inst # 0 /\ instance[req.id] = req.inst
         /\ req.entry < count[req.id] /\ link[req.id][req.entry] = NoSite
         /\ AttachAddress \in Addresses
<1>0. Types /\ Requests /\ Storage  BY InvTypes DEF Tables
<1>1. req.op = "attach"  BY <1>0 DEF Requests, RequestPc
<1>2. ~Loading  BY <1>1 DEF Loading
<1>3. /\ req.inst # 0 /\ instance[req.id] = req.inst
      /\ req.entry < count[req.id] /\ link[req.id][req.entry] = NoSite
  BY <1>0, <1>1 DEF Requests, RequestCurrent, Operating
<1>4. req.id \in Programs /\ req.entry \in Entries  BY <1>0, RequestParts
<1>5. Settled(req.id)  BY <1>0, <1>2, <1>4 DEF Storage, Slotted
<1>6. AttachAddress \in Addresses
  BY <1>3, <1>4, <1>5 DEF Settled, AttachAddress
<1> QED BY <1>1, <1>2, <1>3, <1>6

\* An attach leaves the programs alone but for one link.
LEMMA AttachStorage ==
  ASSUME IInv, Tables, cpc \in {"attach", "check", "patch", "reserve"},
         cpc' \in {"check", "patch", "reserve", "unlock"}, req' = req,
         UNCHANGED <<instance, count, mode, ceiling, address, slot, config>>,
         \/ UNCHANGED link
         \/ \E s \in Sites : link' = [link EXCEPT ![req.id][req.entry] = s]
  PROVE  Storage'
<1>0. Types /\ Storage  BY InvTypes DEF Tables
<1>1. ~Loading /\ ~Loading'
  BY AttachKnows DEF Loading
<1>2. Slotted' /\ Bound' /\ ModeAllowed'
  BY <1>0, <1>1 DEF Storage, Slotted, Settled, Bound, ModeAllowed
<1>3. LinkedIsPublished'
  <2>1. link \in [Programs -> [Entries -> SiteRange]] /\ req.id \in Programs /\ req.entry \in Entries
    BY <1>0, TableParts, RequestParts
  <2>2. instance[req.id] # 0 /\ req.entry < count[req.id]  BY AttachKnows
  <2>3. ASSUME NEW id \in Programs, NEW e \in Entries, link'[id][e] # NoSite
        PROVE  instance[id] # 0 /\ e < count[id]
    <3>1. CASE id = req.id /\ e = req.entry  BY <2>2, <3>1
    <3>2. CASE ~(id = req.id /\ e = req.entry)
      <4>1. link'[id][e] = link[id][e]  BY <2>1, <3>2, ZenonT(60)
      <4> QED BY <1>0, <2>3, <4>1 DEF Storage, LinkedIsPublished
    <3> QED BY <3>1, <3>2
  <2> QED BY <2>3 DEF LinkedIsPublished
<1> QED BY <1>1, <1>2, <1>3 DEF Storage

\* Linking the entry to a site that serves, from now on, its function.
LEMMA AttachSites ==
  ASSUME IInv, Tables, cpc \in {"attach", "reserve"}, UNCHANGED <<address, slot, req>>,
         NEW s \in Sites,
         link' = [link EXCEPT ![req.id][req.entry] = s],
         site' \in [Sites -> SiteRecord],
         \A r \in Sites : r # s => site'[r] = site[r],
         /\ site'[s].users = site[s].users + 1 /\ site'[s].owned
         /\ site'[s].address = AttachAddress /\ site'[s].safe = AttachSafe,
         site[s].users # 0 => site'[s].address = site[s].address /\ site'[s].safe = site[s].safe,
         \A r \in Sites : r # s /\ site[r].users # 0 => site[r].address # AttachAddress
  PROVE  SiteLinks'
<1>0. Types /\ Storage /\ UsersExact /\ LinkAgrees /\ OneSite  BY InvTypes DEF Tables, SiteLinks
<1>a. /\ req.id \in Programs /\ req.entry \in Entries
      /\ link \in [Programs -> [Entries -> SiteRange]] /\ site \in [Sites -> SiteRecord]
  BY <1>0, RequestParts, TableParts
<1>b. link[req.id][req.entry] = NoSite /\ NoSite \notin Sites
  BY AttachKnows, ProgramManagerAssumption DEF ProgramManagerAssumption, Sites
<1>1. /\ Cardinality(Users(s)') = Cardinality(Users(s)) + 1
      /\ \A r \in Sites : r # s => Users(r)' = Users(r)
  BY <1>0, <1>a, <1>b, LinkCounts
<1>2. UsersExact'
  <2> SUFFICES ASSUME NEW r \in Sites PROVE site'[r].users = Cardinality(Users(r)')
    BY DEF UsersExact
  <2>1. CASE r = s  BY <1>0, <1>1, <2>1 DEF UsersExact
  <2>2. CASE r # s  BY <1>0, <1>1, <2>2 DEF UsersExact
  <2> QED BY <2>1, <2>2
<1>3. LinkAgrees'
  <2> SUFFICES ASSUME NEW p \in Slots, link'[p[1]][p[2]] # NoSite
               PROVE  LET r == site'[link'[p[1]][p[2]]] IN
                      /\ r.owned /\ r.address = address[p[1]][p[2]]
                      /\ r.safe = slot[p[1]][p[2]].safe
    BY DEF LinkAgrees
  <2>0. p[1] \in Programs /\ p[2] \in Entries  BY SlotPair
  <2>1. CASE p[1] = req.id /\ p[2] = req.entry
    <3>1. link'[p[1]][p[2]] = s  BY <1>a, <2>1
    <3> QED BY <2>1, <3>1 DEF AttachAddress, AttachSafe
  <2>2. CASE ~(p[1] = req.id /\ p[2] = req.entry)
    <3>1. link'[p[1]][p[2]] = link[p[1]][p[2]]  BY <1>a, <2>0, <2>2
    <3> DEFINE r == link[p[1]][p[2]]
    <3>2. r \in Sites  BY <1>a, <2>0, <3>1 DEF SiteRange
    <3>3. site[r].owned /\ site[r].address = address[p[1]][p[2]] /\ site[r].safe = slot[p[1]][p[2]].safe
      BY <1>0, <3>1 DEF LinkAgrees
    <3>4. CASE r # s  BY <3>1, <3>2, <3>3, <3>4
    <3>5. CASE r = s
      <4>1. site[s].users # 0  BY <1>0, <3>5, UsersWitness
      <4>2. site'[s].address = site[s].address /\ site'[s].safe = site[s].safe
        BY <4>1
      <4> QED BY <3>1, <3>3, <3>5, <4>2
    <3> QED BY <3>4, <3>5
  <2> QED BY <2>1, <2>2
<1>4. OneSite'
  <2> SUFFICES ASSUME NEW q \in Sites, NEW r \in Sites, site'[q].users # 0, site'[r].users # 0,
                      site'[q].address = site'[r].address
               PROVE  q = r
    BY DEF OneSite
  <2>1. CASE q # s /\ r # s  BY <1>0, <2>1 DEF OneSite
  <2>2. CASE q = s  BY <2>2
  <2>3. CASE r = s  BY <2>3
  <2> QED BY <2>1, <2>2, <2>3
<1> QED BY <1>2, <1>3, <1>4 DEF SiteLinks

\* Adding a user to a site, or reserving it, touches nothing else of it.
LEMMA SiteShared ==
  ASSUME NEW f \in [Sites -> SiteRecord], NEW s \in Sites, NEW n \in Int
  PROVE  LET g == [f EXCEPT ![s].users = @ + n] IN
         /\ \A r \in Sites : r # s => g[r] = f[r]
         /\ g[s].users = f[s].users + n /\ g[s].owned = f[s].owned
         /\ g[s].address = f[s].address /\ g[s].safe = f[s].safe
BY DEF SiteRecord

\* A serving site is program-owned.
LEMMA UsedIsOwned ==
  ASSUME IInv, Tables, NEW s \in Sites, site[s].users # 0
  PROVE  site[s].owned /\ site[s].address \in Addresses
<1>0. Types /\ Storage /\ UsersExact /\ LinkAgrees  BY InvTypes DEF Tables, SiteLinks
<1>1. PICK p \in Slots : link[p[1]][p[2]] = s  BY <1>0, UsersWitness
<1>2. p[1] \in Programs /\ p[2] \in Entries /\ s # NoSite
  BY SlotPair, ProgramManagerAssumption DEF ProgramManagerAssumption, Sites
<1>3. address[p[1]][p[2]] \in Addresses  BY <1>0, <1>1, <1>2, LinkedSettled
<1> QED BY <1>0, <1>1, <1>2, <1>3 DEF LinkAgrees

LEMMA AttachTables ==
  ASSUME IInv, Tables, AttachShare \/ AttachCheck \/ AttachPatch \/ AttachReserve
  PROVE  Tables'
<1>0. Types /\ Types' /\ Requests /\ Storage /\ SiteLinks  BY InvTypes, AttachTypes DEF Tables
<1>1. /\ cpc \in {"attach", "check", "patch", "reserve"}
      /\ cpc' \in {"check", "patch", "reserve", "unlock"} /\ req' = req
      /\ UNCHANGED <<instance, count, mode, ceiling, address, slot, config>>
  BY DEF AttachShare, AttachCheck, AttachPatch, AttachReserve, progVars
<1>a. /\ req.id \in Programs /\ req.entry \in Entries /\ cur \in Nat
      /\ site \in [Sites -> SiteRecord] /\ site' \in [Sites -> SiteRecord]
  BY <1>0, RequestParts, TableParts DEF Types, SiteTypes
<1>b. /\ req.op = "attach" /\ req.inst # 0 /\ instance[req.id] = req.inst
      /\ req.entry < count[req.id] /\ link[req.id][req.entry] = NoSite
  BY <1>1, AttachKnows
<1>c. AttachAddress' = AttachAddress  BY <1>1 DEF AttachAddress
<1>2. ASSUME UNCHANGED <<link, site>>, cpc' = "unlock" \/ Cursor'
      PROVE  Tables'
  <2>1. Storage'  BY <1>1, <1>2, AttachStorage
  <2>2. SiteLinks'  BY <1>0, <1>1, <1>2, SiteLinksFrame
  <2>3. Cursor'  BY <1>2 DEF Cursor
  <2>4. RequestPc'  BY <1>1, <1>b DEF RequestPc
  <2>5. RequestCurrent'  BY <1>1, <1>2, <1>b DEF RequestCurrent, Operating
  <2> QED BY <2>1, <2>2, <2>3, <2>4, <2>5 DEF Tables, Requests
<1>3. ASSUME cpc' = "unlock", SiteLinks',
             \E s \in Sites : link' = [link EXCEPT ![req.id][req.entry] = s]
      PROVE  Tables'
  <2>1. Storage'  BY <1>1, <1>3, AttachStorage
  <2>2. Requests'
    BY <1>1, <1>3, <1>b DEF Requests, RequestPc, RequestCurrent, Operating, Cursor
  <2> QED BY <1>3, <2>1, <2>2 DEF Tables
<1>4. CASE AttachShare
  <2>1. CASE UNCHANGED <<link, site>>
    <3>1. CASE cpc' = "unlock"  BY <1>2, <2>1, <3>1
    <3>2. CASE cpc' # "unlock"
      <4>1. cpc' = "check" /\ \A s \in Sites : ~Serving(s, AttachAddress)
        BY <1>4, <3>2 DEF AttachShare
      <4>2. \A s \in Sites : site[s].users # 0 => site[s].address # AttachAddress
        BY <4>1, ServingExists
      <4>3. Cursor'  BY <1>c, <2>1, <4>1, <4>2 DEF Cursor
      <4> QED BY <1>2, <2>1, <4>3
    <3> QED BY <3>1, <3>2
  <2>2. ASSUME NEW s \in Sites, Serving(s, AttachAddress), site[s].safe = AttachSafe,
               link' = [link EXCEPT ![req.id][req.entry] = s],
               site' = [site EXCEPT ![s].users = @ + 1], cpc' = "unlock"
        PROVE  Tables'
    <3>1. site[s].users # 0 /\ site[s].address = AttachAddress  BY <2>2 DEF Serving
    <3>2. site[s].owned  BY <3>1, UsedIsOwned
    <3>3. /\ \A r \in Sites : r # s => site'[r] = site[r]
          /\ site'[s].users = site[s].users + 1 /\ site'[s].owned = site[s].owned
          /\ site'[s].address = site[s].address /\ site'[s].safe = site[s].safe
      BY <1>a, <2>2, SiteShared
    <3>4. \A r \in Sites : r # s /\ site[r].users # 0 => site[r].address # AttachAddress
      BY <1>0, <3>1 DEF SiteLinks, OneSite
    <3>5. cpc = "attach"  BY <1>4 DEF AttachShare
    <3>6. SiteLinks'
      BY <1>1, <1>a, <2>2, <3>1, <3>2, <3>3, <3>4, <3>5, AttachSites
    <3> QED BY <1>3, <2>2, <3>6
  <2> QED BY <1>4, <2>1, <2>2 DEF AttachShare
<1>5. CASE AttachCheck
  <2>1. UNCHANGED <<link, site>>  BY <1>5 DEF AttachCheck, progVars, siteVars
  <2>2. \/ cpc' = "unlock" \/ cpc' = "check"
        \/ cpc' = "patch" /\ cur' = cur /\ site[cur].users = 0
    BY <1>5 DEF AttachCheck
  <2>3. cpc = "check"  BY <1>5 DEF AttachCheck
  <2>4. \A s \in Sites : site[s].users # 0 => site[s].address # AttachAddress
    BY <1>0, <2>3 DEF Requests, Cursor
  <2>5. CASE cpc' = "unlock"  BY <1>2, <2>1, <2>5
  <2>6. CASE cpc' = "check"
    <3>1. Cursor'  BY <1>c, <2>1, <2>4, <2>6 DEF Cursor
    <3> QED BY <1>2, <2>1, <3>1
  <2>7. CASE cpc' = "patch" /\ cur' = cur /\ site[cur].users = 0
    <3>1. Cursor'  BY <1>c, <2>1, <2>4, <2>7 DEF Cursor
    <3> QED BY <1>2, <2>1, <3>1
  <2> QED BY <2>2, <2>5, <2>6, <2>7
<1>6. CASE AttachPatch
  <2>1. UNCHANGED <<link, site>>  BY <1>6 DEF AttachPatch, progVars
  <2>2. cpc' = "check" \/ (cpc' = "reserve" /\ cur' = cur)
    BY <1>6 DEF AttachPatch
  <2>3. cpc = "patch"  BY <1>6 DEF AttachPatch
  <2>4. site[cur].users = 0 /\ \A s \in Sites : site[s].users # 0 => site[s].address # AttachAddress
    BY <1>0, <2>3 DEF Requests, Cursor
  <2>5. Cursor'  BY <1>c, <2>1, <2>2, <2>4 DEF Cursor
  <2> QED BY <1>2, <2>1, <2>5
<1>7. CASE AttachReserve
  <2>1. cpc = "reserve" /\ cpc' = "unlock" /\ link' = [link EXCEPT ![req.id][req.entry] = cur]
    BY <1>7 DEF AttachReserve
  <2>2. cur \in Sites  BY <1>0, <2>1 DEF Types, ControlTypes
  <2>3. site[cur].users = 0 /\ \A s \in Sites : site[s].users # 0 => site[s].address # AttachAddress
    BY <1>0, <2>1 DEF Requests, Cursor
  <2>4. PICK s \in Sites : s = cur  BY <2>2
  <2>5. /\ \A r \in Sites : r # s => site'[r] = site[r]
        /\ site'[s].users = site[s].users + 1 /\ site'[s].owned
        /\ site'[s].address = AttachAddress /\ site'[s].safe = AttachSafe
    BY <1>7, <1>a, <2>4 DEF AttachReserve
  <2>6. SiteLinks'
    BY <1>1, <1>a, <2>1, <2>3, <2>4, <2>5, AttachSites
  <2> QED BY <1>3, <2>1, <2>2, <2>6
<1> QED BY <1>4, <1>5, <1>6, <1>7

-----------------------------------------------------------------------------
(* Detaching and revoking.                                                 *)

LEMMA UnhookSites ==
  ASSUME IInv, Tables, NEW id \in Programs, NEW e \in Entries, Unhook(id, e),
         UNCHANGED <<address, slot>>
  PROVE  /\ SiteLinks'
         /\ \A d \in Programs, f \in Entries :
              link'[d][f] = IF d = id /\ f = e THEN NoSite ELSE link[d][f]
<1>0. Types /\ UsersExact /\ LinkAgrees /\ OneSite  BY InvTypes DEF Tables, SiteLinks
<1>a. link \in [Programs -> [Entries -> SiteRange]] /\ site \in [Sites -> SiteRecord] /\ NoSite \notin Sites
  BY <1>0, TableParts, ProgramManagerAssumption DEF ProgramManagerAssumption, Sites
<1>1. PICK s \in Sites : s = link[id][e]
  BY <1>a DEF Unhook, SiteRange
<1>2. link' = [link EXCEPT ![id][e] = NoSite] /\ site' = [site EXCEPT ![s].users = @ - 1]
  BY <1>1 DEF Unhook
<1>3. \A d \in Programs, f \in Entries :
        link'[d][f] = IF d = id /\ f = e THEN NoSite ELSE link[d][f]
  BY <1>2, <1>a
<1>4. /\ \A r \in Sites : r # s => site'[r] = site[r]
      /\ site'[s].users = site[s].users - 1 /\ site'[s].owned = site[s].owned
      /\ site'[s].address = site[s].address /\ site'[s].safe = site[s].safe
  <2>1. site[s].users - 1 = site[s].users + (-1)  BY <1>a DEF SiteRecord
  <2>2. site' = [site EXCEPT ![s].users = @ + (-1)]
    BY <1>2, <1>a, <2>1 DEF SiteRecord
  <2> QED BY <2>1, <2>2, <1>a, SiteShared
<1>5. /\ Cardinality(Users(s)') = Cardinality(Users(s)) - 1
      /\ \A r \in Sites : r # s => Users(r)' = Users(r)
  BY <1>0, <1>1, <1>2, UnlinkCounts
<1>6. UsersExact'
  <2> SUFFICES ASSUME NEW r \in Sites PROVE site'[r].users = Cardinality(Users(r)')
    BY DEF UsersExact
  <2>1. CASE r = s  BY <1>0, <1>4, <1>5, <2>1 DEF UsersExact
  <2>2. CASE r # s  BY <1>0, <1>4, <1>5, <2>2 DEF UsersExact
  <2> QED BY <2>1, <2>2
<1>7. LinkAgrees'
  <2> SUFFICES ASSUME NEW p \in Slots, link'[p[1]][p[2]] # NoSite
               PROVE  LET r == site'[link'[p[1]][p[2]]] IN
                      /\ r.owned /\ r.address = address[p[1]][p[2]]
                      /\ r.safe = slot[p[1]][p[2]].safe
    BY DEF LinkAgrees
  <2>1. link'[p[1]][p[2]] = link[p[1]][p[2]]  BY <1>3, SlotPair
  <2>2. PICK r \in Sites : r = link[p[1]][p[2]]
    BY <1>a, <2>1, SlotPair DEF SiteRange
  <2>3. site'[r].owned = site[r].owned /\ site'[r].address = site[r].address /\ site'[r].safe = site[r].safe
    BY <1>4
  <2> QED BY <1>0, <2>1, <2>2, <2>3 DEF LinkAgrees
<1>8. OneSite'
  <2>1. site[s].users # 0
    <3>1. <<id, e>> \in Slots /\ link[<<id, e>>[1]][<<id, e>>[2]] = s  BY <1>1 DEF Slots
    <3> QED BY <1>0, <3>1, UsersWitness
  <2>2. \A r \in Sites : site'[r].address = site[r].address /\ (site'[r].users # 0 => site[r].users # 0)
    BY <1>4, <2>1
  <2> QED BY <1>0, <2>2 DEF OneSite
<1> QED BY <1>3, <1>6, <1>7, <1>8 DEF SiteLinks

\* An operation that at most clears links.
LEMMA DetachStorage ==
  ASSUME Storage, ~Loading, ~Loading', UNCHANGED <<instance, count, mode, ceiling, address, slot, config>>,
         cpc # "destroy", cpc' # "destroy",
         \A d \in Programs, f \in Entries : link'[d][f] \in {NoSite, link[d][f]}
  PROVE  Storage'
<1>1. Slotted' /\ Bound' /\ ModeAllowed'
  BY DEF Storage, Slotted, Settled, Bound, ModeAllowed
<1>2. LinkedIsPublished'
  BY DEF Storage, LinkedIsPublished
<1> QED BY <1>1, <1>2 DEF Storage

LEMMA DetachTables ==
  ASSUME IInv, Tables, Detach
  PROVE  Tables'
<1>0. Types /\ Requests /\ Storage /\ SiteLinks  BY InvTypes DEF Tables
<1>1. /\ cpc = "detach" /\ cpc' = "unlock"
      /\ UNCHANGED <<instance, count, mode, ceiling, address, slot, config, req>>
  BY DEF Detach
<1>2. req.op = "detach"  BY <1>0, <1>1 DEF Requests, RequestPc
<1>3. ~Loading /\ ~Loading'  BY <1>1 DEF Loading
<1>4. SiteLinks' /\ \A d \in Programs, f \in Entries : link'[d][f] \in {NoSite, link[d][f]}
  <2>1. CASE UNCHANGED <<link, site>>  BY <1>0, <1>1, <2>1, SiteLinksFrame
  <2>2. CASE Unhook(req.id, req.entry)
    <3>1. PICK id \in Programs, e \in Entries : id = req.id /\ e = req.entry
      BY <1>0, RequestParts
    <3> QED BY <1>1, <2>2, <3>1, UnhookSites
  <2> QED BY <2>1, <2>2 DEF Detach
<1>5. Storage'  BY <1>0, <1>1, <1>3, <1>4, DetachStorage
<1>6. Requests'
  BY <1>1, <1>2 DEF Requests, RequestPc, RequestCurrent, Operating, Cursor
<1> QED BY <1>4, <1>5, <1>6 DEF Tables

LEMMA RevokeDetachTables ==
  ASSUME IInv, Tables, RevokeDetach
  PROVE  Tables'
<1>0. Types /\ Requests /\ Storage /\ SiteLinks  BY InvTypes DEF Tables
<1>1. /\ cpc = "detach all" /\ cpc' \in {"detach all", "config", "unlock"}
      /\ UNCHANGED <<instance, count, mode, ceiling, address, slot, config, req>>
      /\ cpc' # "detach all" => UNCHANGED <<link, site, cur>>
      /\ cpc' = "config" => cur = count[req.id]
  BY DEF RevokeDetach
<1>a. req.id \in Programs /\ cur \in Nat /\ count[req.id] \in 0 .. EntryMax
  BY <1>0, RequestParts, TableParts
<1>2. /\ req.op = "revoke" /\ mode[req.id] = DISABLE
      /\ \A e \in Entries : e < cur => link[req.id][e] = NoSite
  BY <1>0, <1>1 DEF Requests, RequestPc, Cursor
<1>3. ~Loading /\ ~Loading'  BY <1>1 DEF Loading
<1>4. ASSUME cpc' = "detach all"
      PROVE  /\ SiteLinks' /\ cur' = cur + 1
             /\ \A d \in Programs, f \in Entries : link'[d][f] \in {NoSite, link[d][f]}
             /\ \A e \in Entries : e < cur' => link'[req.id][e] = NoSite
  <2>1. cur < count[req.id] /\ cur' = cur + 1  BY <1>1, <1>4 DEF RevokeDetach
  <2>2. cur \in Entries  BY <2>1, <1>a, Numbers
  <2>3. \A e \in Entries : e < cur + 1 <=> e < cur \/ e = cur  BY <1>a, Numbers
  <2>4. CASE link[req.id][cur] = NoSite /\ UNCHANGED <<link, site>>
    <3>1. SiteLinks'  BY <1>0, <1>1, <2>4, SiteLinksFrame
    <3> QED BY <1>2, <2>1, <2>3, <2>4, <3>1
  <2>5. CASE Unhook(req.id, cur)
    <3>1. PICK id \in Programs, e \in Entries : id = req.id /\ e = cur  BY <1>a, <2>2
    <3>2. SiteLinks' /\ \A d \in Programs, f \in Entries :
                          link'[d][f] = IF d = id /\ f = e THEN NoSite ELSE link[d][f]
      BY <1>1, <2>5, <3>1, UnhookSites, ZenonT(60)
    <3> QED BY <1>2, <2>1, <2>3, <3>1, <3>2
  <2> QED BY <1>1, <1>4, <2>4, <2>5 DEF RevokeDetach
<1>5. SiteLinks' /\ \A d \in Programs, f \in Entries : link'[d][f] \in {NoSite, link[d][f]}
  <2>1. CASE cpc' # "detach all"  BY <1>0, <1>1, <2>1, SiteLinksFrame
  <2> QED BY <1>4, <2>1
<1>6. Storage'  BY <1>0, <1>1, <1>3, <1>5, DetachStorage
<1>7. RequestPc' /\ RequestCurrent'
  BY <1>0, <1>1, <1>2 DEF Requests, RequestPc, RequestCurrent, Operating
<1>8. Cursor'
  <2>1. CASE cpc' = "unlock"  BY <2>1 DEF Cursor
  <2>2. CASE cpc' = "detach all"  BY <1>1, <1>2, <1>4, <2>2 DEF Cursor
  <2>3. CASE cpc' = "config"
    <3>1. \A e \in Entries : link[req.id][e] = NoSite
      BY <1>0, <1>1, <1>2, <1>a, <2>3 DEF Storage, LinkedIsPublished
    <3> QED BY <1>1, <1>2, <2>3, <3>1 DEF Cursor
  <2> QED BY <1>1, <2>1, <2>2, <2>3
<1> QED BY <1>5, <1>6, <1>7, <1>8 DEF Tables, Requests

LEMMA RevokeEndTables ==
  ASSUME IInv, Tables, RevokeConfig \/ RevokeDestroy
  PROVE  Tables'
<1>0. Types /\ Requests /\ Storage /\ SiteLinks  BY InvTypes DEF Tables
<1>1. /\ cpc \in {"config", "destroy"} /\ cpc' \in {"destroy", "unlock"}
      /\ UNCHANGED <<mode, ceiling, address, link, site, req>>
  BY DEF RevokeConfig, RevokeDestroy, siteVars
<1>a. req.id \in Programs  BY <1>0, RequestParts
<1>b. /\ slot \in [Programs -> [Entries -> SlotRecord]] /\ instance \in [Programs -> Instances]
      /\ count \in [Programs -> 0 .. EntryMax] /\ config \in [Programs -> Instances]
  BY <1>0, TableParts
<1>2. /\ req.op = "revoke" /\ mode[req.id] = DISABLE /\ instance[req.id] = req.inst /\ req.inst # 0
      /\ \A e \in Entries : link[req.id][e] = NoSite
  BY <1>0, <1>1 DEF Requests, RequestPc, RequestCurrent, Operating, Cursor
<1>3. ~Loading /\ ~Loading'  BY <1>1 DEF Loading
<1>4. CASE RevokeConfig
  <2>1. UNCHANGED <<instance, count, slot>> /\ cpc = "config"  BY <1>4 DEF RevokeConfig
  <2>2. SiteLinks'  BY <1>0, <1>1, <2>1, SiteLinksFrame
  <2>3. Slotted' /\ ModeAllowed' /\ LinkedIsPublished'
    BY <1>0, <1>1, <1>3, <2>1 DEF Storage, Slotted, Settled, ModeAllowed, LinkedIsPublished
  <2>4. Bound'
    <3>1. \A id \in Programs : config[id] = instance[id]  BY <1>0, <2>1 DEF Storage, Bound
    <3> QED BY <1>4, <1>a, <1>b, <2>1, <3>1 DEF RevokeConfig, Bound
  <2>5. Requests'
    BY <1>1, <1>2, <2>1 DEF Requests, RequestPc, RequestCurrent, Operating, Cursor
  <2> QED BY <1>3, <2>2, <2>3, <2>4, <2>5 DEF Tables, Storage
<1>5. CASE RevokeDestroy
  <2>1. /\ cpc = "destroy" /\ cpc' = "unlock" /\ UNCHANGED config
        /\ instance' = [instance EXCEPT ![req.id] = 0] /\ count' = [count EXCEPT ![req.id] = 0]
    BY <1>5 DEF RevokeDestroy
  <2>2. \A d \in Programs : d # req.id =>
          slot'[d] = slot[d] /\ instance'[d] = instance[d] /\ count'[d] = count[d]
    BY <1>5, <1>b DEF RevokeDestroy
  <2>3. instance'[req.id] = 0 /\ count'[req.id] = 0  BY <2>1, <1>a, <1>b
  <2>4. \A e \in Entries : slot'[req.id][e] = EmptySlot
    <3>1. Settled(req.id)  BY <1>0, <1>3, <1>a DEF Storage, Slotted
    <3>2. \A e \in Entries : slot'[req.id][e] = IF e < count[req.id] THEN EmptySlot ELSE slot[req.id][e]
      BY <1>5, <1>a, <1>b DEF RevokeDestroy
    <3> QED BY <3>1, <3>2 DEF Settled
  <2>5. SiteLinks'  BY <1>0, <1>1, <1>2, <1>a, <2>2, PrivateSites
  <2>6. Slotted'
    <3> SUFFICES ASSUME NEW id \in Programs PROVE Settled(id)'
      BY DEF Slotted
    <3>1. CASE id = req.id  BY <2>3, <2>4, <3>1 DEF Settled
    <3>2. CASE id # req.id
      BY <1>0, <1>1, <1>3, <2>2, <3>2 DEF Storage, Slotted, Settled
    <3> QED BY <3>1, <3>2
  <2>7. Bound'  BY <1>0, <1>1, <2>1, <2>2, <2>3 DEF Storage, Bound
  <2>8. ModeAllowed' /\ LinkedIsPublished'
    BY <1>0, <1>1, <1>2, <2>2, <2>3 DEF Storage, ModeAllowed, LinkedIsPublished
  <2>9. Requests'
    BY <1>1, <1>2, <2>1 DEF Requests, RequestPc, RequestCurrent, Operating, Cursor
  <2> QED BY <1>3, <2>5, <2>6, <2>7, <2>8, <2>9 DEF Tables, Storage
<1> QED BY <1>4, <1>5

-----------------------------------------------------------------------------
(* The tables, at every step.                                              *)

LEMMA TablesInit == Init => Tables
<1> SUFFICES ASSUME Init PROVE Tables
  OBVIOUS
<1>0. NoRequest.op = "none"  BY DEF NoRequest, MkRequest
<1>1. Requests
  BY <1>0 DEF Init, Requests, RequestPc, RequestCurrent, Operating, Cursor
<1>2. ~Loading  BY DEF Init, Loading
<1>3. Storage
  <2>1. Slotted  BY DEF Init, Slotted, Settled
  <2>2. Bound /\ LinkedIsPublished  BY DEF Init, Bound, LinkedIsPublished
  <2>3. ModeAllowed  BY DEF Init, ModeAllowed, DISABLE
  <2> QED BY <1>2, <2>1, <2>2, <2>3 DEF Storage
<1>4. \A p \in Slots : link[p[1]][p[2]] = NoSite  BY SlotPair DEF Init
<1>5. SiteLinks
  <2>0. NoSite \notin Sites  BY ProgramManagerAssumption DEF ProgramManagerAssumption, Sites
  <2>1. \A s \in Sites : Users(s) = {}  BY <1>4, <2>0 DEF Users
  <2>2. \A s \in Sites : site[s].users = 0  BY DEF Init, EmptySite
  <2>3. UsersExact  BY <2>1, <2>2, FS_EmptySet DEF UsersExact
  <2>4. LinkAgrees  BY <1>4 DEF LinkAgrees
  <2>5. OneSite  BY <2>2 DEF OneSite
  <2> QED BY <2>3, <2>4, <2>5 DEF SiteLinks
<1> QED BY <1>1, <1>3, <1>5 DEF Tables

LEMMA TablesNext == IInv /\ Tables /\ [Next]_vars => Tables'
<1> SUFFICES ASSUME IInv, Tables, [Next]_vars PROVE Tables'
  OBVIOUS
<1>1. CASE ControlBegin  BY <1>1, BeginTables
<1>2. CASE ControlStep
  BY <1>2, LockTables, PrepareTables, UnwindTables, PublishTables, ModeTables, AttachTables,
     DetachTables, RevokeDetachTables, RevokeEndTables DEF ControlStep
<1>3. CASE Loader
  <2>1. UNCHANGED <<progVars, site, ctlVars>>
    BY <1>3 DEF Loader, LegacyArmCheck, LegacyArm, LegacyDisarm, siteVars
  <2> QED BY <2>1, TablesFrame
<1>4. ASSUME NEW t \in Threads, ThreadStep(t) \/ \E a \in Addresses : Hit(t, a) PROVE Tables'
  <2>1. UNCHANGED ctlSide
    BY <1>4 DEF ThreadStep, Hit, DispatchCount, DispatchGate, DispatchBusy, DispatchEnter,
                DispatchRun, DispatchReturn, DispatchLoopEnd, DispatchLeave, LegacyCall, Resume
  <2>2. UNCHANGED <<progVars, site, ctlVars>>  BY <2>1 DEF ctlSide, siteVars
  <2> QED BY <2>2, TablesFrame
<1>5. CASE UNCHANGED vars
  <2>1. UNCHANGED <<progVars, site, ctlVars>>  BY <1>5 DEF vars, siteVars
  <2> QED BY <2>1, TablesFrame
<1> QED BY <1>1, <1>2, <1>3, <1>4, <1>5 DEF Next

-----------------------------------------------------------------------------
(* The order in which the dispatch loop visits the slots.                  *)

Pairs == Int \X Int

LEMMA SlotsArePairs == Slots \union {<<-1, 0>>} \subseteq Pairs
<1>1. Programs \subseteq Int /\ Entries \subseteq Int  BY Numbers
<1>2. Slots \subseteq Pairs  BY <1>1 DEF Slots, Pairs
<1>3. <<-1, 0>> \in Pairs  BY DEF Pairs
<1> QED BY <1>2, <1>3

LEMMA BeforeOrder ==
  /\ \A p \in Pairs : ~Before(p, p)
  /\ \A p, q, r \in Pairs : Before(p, q) /\ Before(q, r) => Before(p, r)
  /\ \A p, q \in Pairs : Before(p, q) \/ Before(q, p) \/ p = q
BY DEF Pairs, Before

\* The loop starts before every slot.
LEMMA BeforeFirst == \A q \in Slots : Before(<<-1, 0>>, q) /\ q # <<-1, 0>>
<1> TAKE q \in Slots
<1>1. q[1] \in Nat /\ q[2] \in Nat  BY SlotPair, Numbers
<1>2. -1 < q[1]  BY <1>1
<1>3. <<-1, 0>>[1] = -1  OBVIOUS
<1>4. q # <<-1, 0>>  BY <1>2, <1>3, <1>1
<1> QED BY <1>2, <1>4 DEF Before

-----------------------------------------------------------------------------
(* Calls.                                                                  *)

\* The part of VerdictJustified about one thread.
Justified(t) ==
  tpc[t] \in Inside /\ call[t].verdict = SAFE_RETURN =>
    \E p \in call[t].ran :
      /\ mode[p[1]] = ENFORCE /\ ceiling[p[1]] = ENFORCE
      /\ slot[p[1]][p[2]].safe = call[t].safe

LEMMA CallParts == Calls <=> \A t \in Threads : CallInv(t) /\ Justified(t)
BY DEF Calls, VerdictJustified, Justified

\* Calls look only at published programs.
LEMMA CallsFrame ==
  ASSUME Types, Calls, ModeAllowed, UNCHANGED <<tpc, call, instance, count, mode, ceiling, site>>,
         \A id \in Programs : instance[id] # 0 => link'[id] = link[id] /\ slot'[id] = slot[id]
  PROVE  Calls'
<1>1. \A q \in Slots : \A s : Attached(q, s)' <=> Attached(q, s)
  BY SlotPair DEF Attached
<1>2. ASSUME NEW t \in Threads PROVE CallInv(t)'
  <2>1. Reached(t)' = Reached(t) /\ AllAttached(t)' = AllAttached(t)
    BY <1>1 DEF Reached, AllAttached
  <2>2. CallInv(t)  BY DEF Calls
  <2> QED BY <1>1, <2>1, <2>2 DEF CallInv
<1>3. ASSUME NEW t \in Threads PROVE Justified(t)'
  <2> SUFFICES ASSUME tpc[t] \in Inside, call[t].verdict = SAFE_RETURN
               PROVE  \E p \in call[t].ran : /\ mode[p[1]] = ENFORCE /\ ceiling[p[1]] = ENFORCE
                                             /\ slot'[p[1]][p[2]].safe = call[t].safe
    BY DEF Justified
  <2>1. PICK p \in call[t].ran : /\ mode[p[1]] = ENFORCE /\ ceiling[p[1]] = ENFORCE
                                 /\ slot[p[1]][p[2]].safe = call[t].safe
    BY CallParts DEF Justified
  <2>2. call[t].ran \subseteq Slots  BY DEF Types, ThreadTypes, CallRecord
  <2>3. p[1] \in Programs  BY <2>2, SlotPair
  <2>4. instance[p[1]] # 0  BY <2>1, <2>3 DEF ModeAllowed, DISABLE, ENFORCE
  <2> QED BY <2>1, <2>3, <2>4
<1> QED BY <1>2, <1>3 DEF Calls, VerdictJustified, Justified

LEMMA ControlCalls ==
  ASSUME LInv, ControlBegin \/ ControlStep
  PROVE  Calls'
<1>0. IInv /\ Types /\ Tables /\ Storage /\ Calls /\ ModeAllowed /\ GateExclusion
  BY InvTypes DEF LInv, Tables, Storage, IInv
<1>1. CASE HeldStep
  <2>1. cpc \in Critical /\ UNCHANGED thrVars  BY <1>1, HeldFrame
  <2>2. \A t \in Threads : tpc[t] \notin Inside  BY <1>0, <2>1 DEF GateExclusion
  <2>3. UNCHANGED <<tpc, call>>  BY <2>1 DEF thrVars
  <2>4. ASSUME NEW t \in Threads PROVE CallInv(t)'
    <3>1. CallInv(t)  BY <1>0 DEF Calls
    <3> QED BY <2>2, <2>3, <3>1 DEF CallInv, Inside
  <2> QED BY <2>2, <2>3, <2>4 DEF Calls, VerdictJustified
<1>2. CASE ControlBegin \/ LockExchange \/ LockReaders \/ Unlock
  <2>1. UNCHANGED <<progVars, siteVars, thrVars>>
    BY <1>2 DEF ControlBegin, LoadBegin, ModeBegin, AttachBegin, DetachBegin, RevokeBegin,
                LockExchange, LockReaders, Unlock
  <2> QED BY <1>0, <2>1, CallsFrame DEF progVars, siteVars, thrVars
<1>3. CASE (\E v \in SafeValues : LoadPrepare(v)) \/ LoadUnwind
  <2>1. Loading  BY <1>3 DEF LoadPrepare, LoadUnwind, Loading
  <2>2. instance[req.id] = 0 /\ req.id \in Programs  BY <1>0, <2>1, LoadingPrivate, RequestParts
  <2>3. UNCHANGED <<tpc, call, instance, count, mode, ceiling, site>>
    BY <1>3 DEF LoadPrepare, LoadUnwind, siteVars, thrVars
  <2>4. /\ slot \in [Programs -> [Entries -> SlotRecord]]
        /\ link \in [Programs -> [Entries -> SiteRange]]
    BY <1>0, TableParts
  <2>5. \A id \in Programs : id # req.id => link'[id] = link[id] /\ slot'[id] = slot[id]
    BY <1>3, <2>4 DEF LoadPrepare, LoadUnwind
  <2> QED BY <1>0, <2>2, <2>3, <2>5, CallsFrame
<1> QED BY <1>1, <1>2, <1>3 DEF ControlStep, HeldStep

\* One thread moves.
LEMMA ThreadCalls ==
  ASSUME Calls, UNCHANGED ctlSide, NEW t \in Threads,
         \A u \in Threads : u # t => tpc'[u] = tpc[u] /\ call'[u] = call[u],
         CallInv(t)', Justified(t)'
  PROVE  Calls'
<1>0. UNCHANGED <<instance, count, mode, ceiling, link, slot, site>>
  BY DEF ctlSide, progVars, siteVars
<1>1. \A q, s : Attached(q, s)' <=> Attached(q, s)  BY <1>0 DEF Attached
<1>2. ASSUME NEW u \in Threads, u # t PROVE CallInv(u)' /\ Justified(u)'
  <2>1. CallInv(u) /\ Justified(u)  BY CallParts
  <2>2. tpc'[u] = tpc[u] /\ call'[u] = call[u]  BY <1>2
  <2>3. Reached(u)' = Reached(u) /\ AllAttached(u)' = AllAttached(u)
    BY <1>1, <2>2 DEF Reached, AllAttached
  <2> QED BY <1>0, <1>1, <2>1, <2>2, <2>3 DEF CallInv, Justified
<1> QED BY <1>2 DEF Calls, VerdictJustified, Justified

\* What a dispatch that calls slot p knows of it.
LEMMA AttachedRuns ==
  ASSUME IInv, Storage, NEW p \in Slots, NEW s \in Sites, Attached(p, s)
  PROVE  /\ slot[p[1]][p[2]].vm # 0 /\ slot[p[1]][p[2]].mode = mode[p[1]]
         /\ slot[p[1]][p[2]].mode # DISABLE
<1>1. p[1] \in Programs /\ p[2] \in Entries  BY SlotPair
<1>2. link[p[1]][p[2]] # NoSite
  BY ProgramManagerAssumption DEF ProgramManagerAssumption, Sites, Attached
<1> QED BY <1>1, <1>2, LinkedSettled DEF Attached

\* The loop calls p next: everything before p has been called.
LEMMA ReachedGrows ==
  ASSUME NEW t \in Threads, NEW p \in Slots, call[t] \in CallRecord, Next1(t, p),
         NEW c \in CallRecord, c.site = call[t].site, c.last = p
  PROVE  {q \in Slots : Attached(q, c.site) /\ (q = c.last \/ Before(q, c.last))}
           = Reached(t) \union {p}
<1> DEFINE l == call[t].last
           s == call[t].site
<1>1. l \in Slots \union {<<-1, 0>>}  BY DEF CallRecord
<1>2. l \in Pairs /\ Slots \subseteq Pairs  BY <1>1, SlotsArePairs
<1>3. Before(l, p) /\ Attached(p, s)  BY DEF Next1
<1>4. \A q \in Slots : Before(l, q) /\ Attached(q, s) => q = p \/ Before(p, q)
  BY DEF Next1
<1> HIDE DEF l, s
<1>5. ASSUME NEW q \in Slots
      PROVE  Attached(q, s) /\ (q = p \/ Before(q, p))
               <=> (Attached(q, s) /\ (q = l \/ Before(q, l))) \/ q = p
  <2>1. ASSUME Attached(q, s), Before(q, p) PROVE q = l \/ Before(q, l)
    BY <1>2, <1>4, <2>1, BeforeOrder
  <2>2. ASSUME q = l \/ Before(q, l) PROVE Before(q, p)
    BY <1>2, <1>3, <2>2, BeforeOrder
  <2> QED BY <1>3, <2>1, <2>2
<1> QED BY <1>5 DEF Reached, l, s

LEMMA RunCalls ==
  ASSUME LInv, NEW t \in Threads, NEW p \in Slots, DispatchRun(t, p)
  PROVE  Calls'
<1>0. /\ IInv /\ Types /\ Storage /\ Calls /\ CallInv(t) /\ Justified(t)
      /\ tpc \in [Threads -> ThreadPc] /\ call \in [Threads -> CallRecord]
  BY InvTypes, CallParts DEF LInv, Tables, Types, ThreadTypes
<1>1. UNCHANGED ctlSide  BY DEF DispatchRun
<1>2. tpc[t] = "loop" /\ Next1(t, p) /\ call[t].site \in Sites /\ call[t] \in CallRecord
  BY <1>0 DEF DispatchRun, Types, ThreadTypes
<1>3. Attached(p, call[t].site)  BY <1>2 DEF Next1
<1>4. slot[p[1]][p[2]].vm # 0 /\ slot[p[1]][p[2]].mode # DISABLE
  BY <1>0, <1>2, <1>3, AttachedRuns
<1>5. \A u \in Threads : u # t => tpc'[u] = tpc[u] /\ call'[u] = call[u]
  BY <1>0 DEF DispatchRun
<1>6. tpc'[t] = "run"  BY <1>0, <1>4 DEF DispatchRun
<1>7. /\ call'[t].site = call[t].site /\ call'[t].address = call[t].address
      /\ call'[t].last = p /\ call'[t].ran = call[t].ran \union {p}
      /\ call'[t].verdict = call[t].verdict /\ call'[t].safe = call[t].safe
  BY <1>0, <1>4, SMTT(40) DEF DispatchRun, CallRecord
<1>8. UNCHANGED <<instance, count, mode, ceiling, link, slot, site>>
  BY <1>1 DEF ctlSide, progVars, siteVars
<1>9. call'[t] \in CallRecord
  <2>1. ThreadTypes'  BY <1>0, RunTypes DEF Types
  <2> QED BY <2>1 DEF ThreadTypes
<1>10. Reached(t)' = Reached(t) \union {p}
  <2>1. \A q, s : Attached(q, s)' <=> Attached(q, s)  BY <1>8 DEF Attached
  <2>2. {q \in Slots : Attached(q, call'[t].site) /\ (q = call'[t].last \/ Before(q, call'[t].last))}
          = Reached(t) \union {p}
    BY <1>2, <1>7, <1>9, ReachedGrows
  <2>3. Reached(t)' = {q \in Slots : Attached(q, call'[t].site)
                                     /\ (q = call'[t].last \/ Before(q, call'[t].last))}
    BY <2>1 DEF Reached
  <2> QED BY <2>2, <2>3
<1>11. CallInv(t)'
  <2>1. Attached(p, call[t].site)'  BY <1>3, <1>8, <1>7 DEF Attached
  <2>2. call[t].ran = Reached(t) /\ site[call[t].site].owned /\ site[call[t].site].address = call[t].address
    BY <1>0, <1>2 DEF CallInv
  <2> QED BY <1>6, <1>7, <1>8, <1>10, <2>1, <2>2 DEF CallInv, Attached
<1>12. Justified(t)'
  <2>1. tpc[t] \in Inside  BY <1>2 DEF Inside
  <2> QED BY <1>0, <1>7, <1>8, <2>1 DEF Justified
<1> QED BY <1>0, <1>1, <1>5, <1>11, <1>12, ThreadCalls

LEMMA ReturnCalls ==
  ASSUME LInv, NEW t \in Threads, NEW ret, DispatchReturn(t, ret)
  PROVE  Calls'
<1>0. /\ IInv /\ Types /\ Storage /\ LinkAgrees /\ ModeAllowed /\ Calls /\ CallInv(t) /\ Justified(t)
      /\ tpc \in [Threads -> ThreadPc] /\ call \in [Threads -> CallRecord]
  BY InvTypes, CallParts DEF LInv, Tables, Storage, SiteLinks, Types, ThreadTypes
<1>1. UNCHANGED ctlSide /\ tpc[t] = "run"  BY DEF DispatchReturn
<1>2. UNCHANGED <<instance, count, mode, ceiling, link, slot, site>>
  BY <1>1 DEF ctlSide, progVars, siteVars
<1>3. \A u \in Threads : u # t => tpc'[u] = tpc[u] /\ call'[u] = call[u]
  BY <1>0 DEF DispatchReturn
<1>4. tpc'[t] = "loop"  BY <1>0 DEF DispatchReturn
<1> DEFINE p == call[t].last
           s == call[t].site
<1>5. /\ call'[t].site = s /\ call'[t].address = call[t].address
      /\ call'[t].last = p /\ call'[t].ran = call[t].ran
      /\ \/ call'[t].verdict = call[t].verdict /\ call'[t].safe = call[t].safe
         \/ call[t].mode = ENFORCE /\ call'[t].safe = site[s].safe
  <2>1. call[t] \in CallRecord  BY <1>0
  <2>2. CASE ret = SAFE_RETURN /\ call[t].mode = ENFORCE
    <3>1. call'[t] = [call[t] EXCEPT !.vm = 0, !.mode = DISABLE, !.verdict = SAFE_RETURN, !.safe = site[s].safe]
      BY <1>0, <2>2 DEF DispatchReturn
    <3> QED BY <2>1, <2>2, <3>1 DEF CallRecord
  <2>3. CASE ~(ret = SAFE_RETURN /\ call[t].mode = ENFORCE)
    <3>1. call'[t] = [call[t] EXCEPT !.vm = 0, !.mode = DISABLE]
      BY <1>0, <2>3 DEF DispatchReturn
    <3> QED BY <2>1, <3>1 DEF CallRecord
  <2> QED BY <2>2, <2>3
<1>6. /\ p \in Slots /\ Attached(p, s) /\ call[t].ran = Reached(t) /\ s \in Sites
      /\ site[s].owned /\ site[s].address = call[t].address
  BY <1>0, <1>1 DEF CallInv, Types, ThreadTypes
<1>7. CallInv(t)'
  <2>1. Reached(t)' = Reached(t)  BY <1>2, <1>5 DEF Reached, Attached
  <2> QED BY <1>2, <1>4, <1>5, <1>6, <2>1 DEF CallInv
<1>8. Justified(t)'
  <2>1. CASE call'[t].verdict = call[t].verdict /\ call'[t].safe = call[t].safe
    <3>1. tpc[t] \in Inside  BY <1>1 DEF Inside
    <3> QED BY <1>0, <1>2, <1>5, <2>1, <3>1 DEF Justified
  <2>2. CASE call[t].mode = ENFORCE /\ call'[t].safe = site[s].safe
    <3>1. slot[p[1]][p[2]].mode = ENFORCE
      BY <1>0, <1>1, <2>2 DEF IInv, NoUseAfterReclaim
    <3>2. mode[p[1]] = ENFORCE  BY <1>0, <1>6, <3>1, AttachedRuns
    <3>3. p[1] \in Programs /\ ceiling[p[1]] \in Modes  BY <1>0, <1>6, SlotPair, TableParts
    <3>4. ceiling[p[1]] = ENFORCE
      <4>1. mode[p[1]] <= ceiling[p[1]]  BY <1>0, <3>3 DEF ModeAllowed
      <4> QED BY <3>2, <3>3, <4>1 DEF Modes, DISABLE, MONITOR, ENFORCE
    <3>5. link[p[1]][p[2]] = s /\ s # NoSite
      BY <1>6, ProgramManagerAssumption DEF ProgramManagerAssumption, Attached, Sites
    <3>6. slot[p[1]][p[2]].safe = site[s].safe  BY <1>0, <1>6, <3>5 DEF LinkAgrees
    <3>7. p \in call[t].ran  BY <1>6 DEF Reached
    <3> QED BY <1>2, <1>5, <2>2, <3>2, <3>4, <3>6, <3>7 DEF Justified
  <2> QED BY <1>5, <2>1, <2>2
<1> QED BY <1>0, <1>1, <1>3, <1>7, <1>8, ThreadCalls

\* The steps that keep the record of the call.
LEMMA GoCalls ==
  ASSUME LInv, NEW t \in Threads,
         \/ DispatchCount(t) \/ DispatchGate(t) \/ DispatchBusy(t)
         \/ DispatchLoopEnd(t) \/ DispatchLeave(t) \/ LegacyCall(t)
  PROVE  Calls'
<1>0. /\ Types /\ Calls /\ CallInv(t) /\ Justified(t)
      /\ tpc \in [Threads -> ThreadPc] /\ call \in [Threads -> CallRecord]
  BY InvTypes, CallParts DEF LInv, Types, ThreadTypes
<1>1. UNCHANGED ctlSide /\ call' = call
  BY DEF DispatchCount, DispatchGate, DispatchBusy, DispatchLoopEnd, DispatchLeave, LegacyCall
<1>2. \E x : tpc' = [tpc EXCEPT ![t] = x]
  BY DEF DispatchCount, DispatchGate, DispatchBusy, DispatchLoopEnd, DispatchLeave, LegacyCall
<1>3. UNCHANGED <<instance, count, mode, ceiling, link, slot, site>>
  BY <1>1 DEF ctlSide, progVars, siteVars
<1>4. CASE DispatchLoopEnd(t)
  <2>1. tpc[t] = "loop" /\ tpc'[t] = "leave"  BY <1>0, <1>4 DEF DispatchLoopEnd
  <2>2. site[call[t].site].address = call[t].address /\ call[t].ran = Reached(t)
    BY <1>0, <2>1 DEF CallInv
  <2>3. Reached(t) = AllAttached(t)
    <3>1. call[t].last \in Pairs /\ Slots \subseteq Pairs
      BY <1>0, SlotsArePairs DEF CallRecord
    <3>2. ASSUME NEW q \in Slots, Attached(q, call[t].site)
          PROVE  q = call[t].last \/ Before(q, call[t].last)
      <4>1. ~Before(call[t].last, q)  BY <1>4, <3>2 DEF DispatchLoopEnd
      <4> QED BY <3>1, <4>1, BeforeOrder
    <3> QED BY <3>2 DEF Reached, AllAttached
  <2>4. AllAttached(t)' = AllAttached(t)  BY <1>1, <1>3 DEF AllAttached, Attached
  <2>5. CallInv(t)'  BY <1>1, <1>3, <2>1, <2>2, <2>3, <2>4 DEF CallInv
  <2>6. Justified(t)'
    <3>1. tpc[t] \in Inside  BY <2>1 DEF Inside
    <3> QED BY <1>0, <1>1, <1>3, <3>1 DEF Justified
  <2> QED BY <1>0, <1>1, <1>2, <2>5, <2>6, ThreadCalls
<1>5. CASE ~DispatchLoopEnd(t)
  <2>1. \/ tpc[t] \in {"tramp", "gate"} /\ tpc'[t] \in {"gate", "busy", "enter"}
        \/ tpc'[t] \in {"done", "legacy"}
    BY <1>0, <1>5 DEF DispatchCount, DispatchGate, DispatchBusy, DispatchLeave, LegacyCall
  <2>2. tpc'[t] \in {"gate", "busy", "enter"} => call[t].verdict = FALLTHROUGH
    BY <1>0, <2>1 DEF CallInv
  <2>3. CallInv(t)'  BY <1>0, <1>1, <2>1 DEF CallInv
  <2>4. Justified(t)'  BY <1>1, <2>1, <2>2 DEF Justified, Inside, FALLTHROUGH, SAFE_RETURN
  <2> QED BY <1>0, <1>1, <1>2, <2>3, <2>4, ThreadCalls
<1> QED BY <1>4, <1>5

LEMMA EnterCalls ==
  ASSUME LInv, NEW t \in Threads, DispatchEnter(t)
  PROVE  Calls'
<1>0. /\ Types /\ Calls /\ CallInv(t)
      /\ tpc \in [Threads -> ThreadPc] /\ call \in [Threads -> CallRecord]
  BY InvTypes, CallParts DEF LInv, Types, ThreadTypes
<1>1. UNCHANGED ctlSide /\ tpc[t] = "enter"  BY DEF DispatchEnter
<1>2. UNCHANGED site  BY <1>1 DEF ctlSide, siteVars
<1>3. \A u \in Threads : u # t => tpc'[u] = tpc[u] /\ call'[u] = call[u]
  BY <1>0 DEF DispatchEnter
<1>4. /\ call'[t].site = call[t].site /\ call'[t].address = call[t].address
      /\ call'[t].last = call[t].last /\ call'[t].ran = call[t].ran
      /\ call'[t].verdict = call[t].verdict
  BY <1>0 DEF DispatchEnter, CallRecord
<1>5. \/ tpc'[t] = "leave"
      \/ tpc'[t] = "loop" /\ site[call[t].site].owned /\ site[call[t].site].address = call[t].address
  BY <1>0 DEF DispatchEnter
<1>6. call[t].ran = {} /\ call[t].verdict = FALLTHROUGH /\ call[t].last = <<-1, 0>>
  BY <1>0, <1>1 DEF CallInv
<1>7. Reached(t)' = {}
  <2>1. \A q \in Slots : q # <<-1, 0>> /\ ~Before(q, <<-1, 0>>)
    BY BeforeFirst, BeforeOrder, SlotsArePairs
  <2> QED BY <1>4, <1>6, <2>1 DEF Reached
<1>8. CallInv(t)'  BY <1>2, <1>4, <1>5, <1>6, <1>7 DEF CallInv
<1>9. Justified(t)'  BY <1>4, <1>6 DEF Justified, FALLTHROUGH, SAFE_RETURN
<1> QED BY <1>0, <1>1, <1>3, <1>8, <1>9, ThreadCalls

LEMMA EdgeCalls ==
  ASSUME LInv, NEW t \in Threads, Resume(t) \/ \E a \in Addresses : Hit(t, a)
  PROVE  Calls'
<1>0. /\ Types /\ Calls /\ tpc \in [Threads -> ThreadPc] /\ call \in [Threads -> CallRecord]
  BY InvTypes DEF LInv, Types, ThreadTypes
<1>1. UNCHANGED ctlSide  BY DEF Resume, Hit
<1>2. \A u \in Threads : u # t => tpc'[u] = tpc[u] /\ call'[u] = call[u]
  BY <1>0 DEF Resume, Hit
<1>3. tpc'[t] \in {"idle", "tramp"}  BY <1>0 DEF Resume, Hit
<1>4. tpc'[t] = "tramp" => call'[t].ran = {} /\ call'[t].verdict = FALLTHROUGH /\ call'[t].last = <<-1, 0>>
  BY <1>0, ZenonT(60) DEF Resume, Hit, NoCall
<1>5. CallInv(t)' /\ Justified(t)'  BY <1>3, <1>4 DEF CallInv, Justified, Inside
<1> QED BY <1>0, <1>1, <1>2, <1>5, ThreadCalls

LEMMA CallsNext == LInv /\ [Next]_vars => Calls'
<1> SUFFICES ASSUME LInv, [Next]_vars PROVE Calls'
  OBVIOUS
<1>0. Types /\ Calls /\ ModeAllowed  BY InvTypes DEF LInv, Tables, Storage
<1>1. CASE ControlBegin \/ ControlStep  BY <1>1, ControlCalls
<1>2. CASE Loader \/ UNCHANGED vars
  <2>1. UNCHANGED <<tpc, call, instance, count, mode, ceiling, site, link, slot>>
    BY <1>2 DEF Loader, LegacyArmCheck, LegacyArm, LegacyDisarm, vars, progVars, siteVars, thrVars
  <2> QED BY <1>0, <2>1, CallsFrame
<1>3. ASSUME NEW t \in Threads, ThreadStep(t) \/ \E a \in Addresses : Hit(t, a) PROVE Calls'
  BY <1>3, GoCalls, EnterCalls, RunCalls, ReturnCalls, EdgeCalls DEF ThreadStep
<1> QED BY <1>1, <1>2, <1>3 DEF Next

LEMMA CallsInit == Init => Calls
<1> SUFFICES ASSUME Init PROVE Calls
  OBVIOUS
<1>1. \A t \in Threads : tpc[t] = "idle"  BY DEF Init
<1> QED BY <1>1 DEF Calls, CallInv, VerdictJustified, Inside

-----------------------------------------------------------------------------
(* What follows for the program manager.                                   *)

\* The tables and the calls of the manager are consistent in every reachable
\* state, whether or not the loader waits for a pending operation.
THEOREM TablesInvariance == Spec => []LInv
<1>1. Init => LInv  BY IInvInit, TablesInit, CallsInit DEF LInv
<1>2. LInv /\ [Next]_vars => LInv'
  BY IInvNext, TablesNext, CallsNext DEF LInv
<1> QED BY <1>1, <1>2, PTL DEF Spec

\* A data-path thread that entered a trampoline runs only entries signed for
\* the function it came from, although ls_program_attach may have given the
\* site to another function since.
THEOREM OwnFunction == Spec => []RunsOwnFunction
<1>1. LInv => RunsOwnFunction
  <2> SUFFICES ASSUME LInv, NEW t \in Threads, tpc[t] = "run"
               PROVE  address[call[t].last[1]][call[t].last[2]] = call[t].address
    BY DEF RunsOwnFunction
  <2>0. Types /\ LinkAgrees /\ CallInv(t)
    BY InvTypes, CallParts DEF LInv, Tables, SiteLinks
  <2> DEFINE p == call[t].last
  <2>1. /\ p \in Slots /\ Attached(p, call[t].site) /\ call[t].site \in Sites
        /\ site[call[t].site].address = call[t].address
    BY <2>0 DEF CallInv, Types, ThreadTypes
  <2>2. link[p[1]][p[2]] = call[t].site /\ call[t].site # NoSite
    BY <2>1, ProgramManagerAssumption DEF ProgramManagerAssumption, Attached, Sites
  <2> QED BY <2>0, <2>1, <2>2 DEF LinkAgrees
<1> QED BY <1>1, TablesInvariance, PTL

\* A suppressed body was asked for by a program that ran in the call, in ENFORCE
\* mode and under an ENFORCE ceiling, with its own safe value (ls_tramp_result).
THEOREM JustifiedVerdicts == Spec => []VerdictJustified
<1>1. LInv => VerdictJustified  BY DEF LInv, Calls
<1> QED BY <1>1, TablesInvariance, PTL

\* Between operations every VM belongs to a published instance, in the mode of
\* its program: ls_program_load and ls_program_revoke leak none on any exit.
THEOREM NoStrayVMs == Spec => []VMsBelongToInstance
<1>1. LInv => VMsBelongToInstance
  <2> SUFFICES ASSUME LInv, cpc = "idle", NEW id \in Programs
               PROVE  /\ \A e \in Entries : slot[id][e].vm = (IF e < count[id] THEN instance[id] ELSE 0)
                      /\ \A e \in Entries : slot[id][e].mode = (IF e < count[id] THEN mode[id] ELSE DISABLE)
                      /\ config[id] = instance[id]
                      /\ instance[id] = 0 => mode[id] = DISABLE /\ \A e \in Entries : link[id][e] = NoSite
    BY DEF VMsBelongToInstance
  <2>0. Storage /\ ~Loading  BY DEF LInv, Tables, Loading
  <2>1. Settled(id)  BY <2>0 DEF Storage, Slotted
  <2>2. /\ config[id] = instance[id] /\ (instance[id] = 0 => mode[id] = DISABLE)
        /\ instance[id] = 0 => \A e \in Entries : link[id][e] = NoSite
    BY <2>0 DEF Storage, Bound, ModeAllowed, LinkedIsPublished
  <2>3. EmptySlot.vm = 0 /\ EmptySlot.mode = DISABLE  BY DEF EmptySlot
  <2>4. ASSUME NEW e \in Entries
        PROVE  /\ slot[id][e].vm = IF e < count[id] THEN instance[id] ELSE 0
               /\ slot[id][e].mode = IF e < count[id] THEN mode[id] ELSE DISABLE
    <3>1. CASE instance[id] # 0 /\ e < count[id]  BY <2>1, <3>1 DEF Settled
    <3>2. CASE ~(instance[id] # 0 /\ e < count[id])
      <4>1. slot[id][e] = EmptySlot  BY <2>1, <3>2 DEF Settled
      <4> QED BY <2>2, <2>3, <3>2, <4>1
    <3> QED BY <3>1, <3>2
  <2> QED BY <2>2, <2>4
<1> QED BY <1>1, TablesInvariance, PTL

-----------------------------------------------------------------------------
(* Text.  Either an ARM and an attach were at one site or function together *)
(* at some time, or the text agrees with its owners; the first lasts.      *)

TInv == LInv /\ (~raced => Text)

LEMMA RacedLasts == raced /\ [Next]_vars => raced'
<1> SUFFICES ASSUME raced, [Next]_vars PROVE raced'
  OBVIOUS
<1>1. CASE ControlBegin
  BY <1>1 DEF ControlBegin, LoadBegin, ModeBegin, AttachBegin, DetachBegin, RevokeBegin, lodVars
<1>2. CASE ControlStep
  <2>1. CASE AttachCheck  BY <2>1 DEF AttachCheck
  <2>2. CASE ~AttachCheck
    BY <1>2, <2>2 DEF ControlStep, LockExchange, LockReaders, Unlock, LoadPrepare, LoadUnwind,
                      LoadPublish, ModeSet, AttachShare, AttachPatch, AttachReserve, Detach,
                      RevokeDisable, RevokeDetach, RevokeConfig, RevokeDestroy, lodVars
  <2> QED BY <2>1, <2>2
<1>3. CASE Loader  BY <1>3 DEF Loader, LegacyArmCheck, LegacyArm, LegacyDisarm
<1>4. CASE UNCHANGED vars  BY <1>4 DEF vars, lodVars
<1>5. ASSUME NEW t \in Threads, ThreadStep(t) \/ \E a \in Addresses : Hit(t, a) PROVE raced'
  BY <1>5, ThreadFrameCtl DEF ctlSide, lodVars
<1> QED BY <1>1, <1>2, <1>3, <1>4, <1>5 DEF Next

\* A control step that leaves the text and the tables it agrees with alone.
LEMMA TextFrame ==
  ASSUME Text, UNCHANGED <<site, pad, legacy, lpc, lreq>>,
         cpc # "reserve", cpc' \notin {"patch", "reserve"}
  PROVE  Text'
<1>1. Arming'  BY DEF Text, Arming, SiteOwned, AttachAt
<1>2. PadOfSite' /\ PatchRefusesOwned'  BY DEF Text, PadOfSite, PatchRefusesOwned
<1>3. SiteOfPad'  BY DEF Text, SiteOfPad, Reserving
<1>4. Patching'  BY DEF Patching
<1> QED BY <1>1, <1>2, <1>3, <1>4 DEF Text

LEMMA AttachText ==
  ASSUME LInv, Text, ~raced', AttachShare \/ AttachCheck \/ AttachPatch \/ AttachReserve
  PROVE  Text'
<1>0. /\ IInv /\ Types /\ Tables /\ Cursor /\ Arming /\ PadOfSite /\ SiteOfPad /\ Patching /\ PatchRefusesOwned
  BY InvTypes DEF LInv, Text, Tables, Requests
<1>1. /\ cpc \in {"attach", "check", "patch", "reserve"}
      /\ UNCHANGED <<address, slot, req, legacy, lpc, lreq>>
  BY DEF AttachShare, AttachCheck, AttachPatch, AttachReserve, progVars, lodVars
<1>3. AttachAddress \in Addresses  BY <1>0, <1>1, AttachKnows
<1>4. AttachAddress' = AttachAddress  BY <1>1 DEF AttachAddress
<1>a. /\ site \in [Sites -> SiteRecord] /\ pad \in [Addresses -> SiteRange]
      /\ legacy \in [Sites -> AddressRange] /\ NoSite \notin Sites
  BY <1>0, TableParts, ProgramManagerAssumption DEF ProgramManagerAssumption, Sites
<1>5. CASE AttachShare
  <2>1. cpc = "attach" /\ cpc' \in {"unlock", "check"} /\ UNCHANGED pad  BY <1>5 DEF AttachShare
  <2>2. \A s \in Sites : /\ site'[s].address = site[s].address
                         /\ site'[s].users # 0 <=> site[s].users # 0
                         /\ site'[s].owned = site[s].owned
    <3>1. CASE UNCHANGED site  BY <3>1
    <3>2. ASSUME NEW s \in Sites, Serving(s, AttachAddress), site' = [site EXCEPT ![s].users = @ + 1]
          PROVE  \A r \in Sites : /\ site'[r].address = site[r].address
                                  /\ site'[r].users # 0 <=> site[r].users # 0
                                  /\ site'[r].owned = site[r].owned
      <4>1. /\ \A r \in Sites : r # s => site'[r] = site[r]
            /\ site'[s].users = site[s].users + 1 /\ site'[s].address = site[s].address
            /\ site'[s].owned = site[s].owned
        BY <1>a, <3>2, SiteShared
      <4>2. site[s].users = Cardinality(Users(s)) /\ site[s].users # 0
        BY <1>0, <3>2 DEF Tables, SiteLinks, UsersExact, Serving
      <4>3. site[s].users \in Nat  BY <4>2, UsersFinite
      <4> QED BY <4>1, <4>2, <4>3
    <3> QED BY <1>5, <3>1, <3>2 DEF AttachShare
  <2>3. PadOfSite'  BY <1>0, <2>1, <2>2 DEF PadOfSite
  <2>4. SiteOfPad'
    <3>1. \A b \in Addresses : pad[b] # NoSite => pad[b] \in Sites  BY <1>a DEF SiteRange
    <3> QED BY <1>0, <1>1, <2>1, <2>2, <3>1 DEF SiteOfPad, Reserving
  <2>5. PatchRefusesOwned'  BY <1>0, <1>1, <2>2 DEF PatchRefusesOwned
  <2>6. Patching'  BY <2>1 DEF Patching
  <2>7. Arming'  BY <1>0, <1>1, <2>1, <2>2 DEF Arming, SiteOwned, AttachAt
  <2> QED BY <2>3, <2>4, <2>5, <2>6, <2>7 DEF Text
<1>6. CASE AttachCheck
  <2>1. cpc = "check" /\ cpc' \in {"unlock", "check", "patch"} /\ UNCHANGED <<site, pad>>
        /\ (cpc' = "patch" => /\ cur' = cur /\ ~LegacyUses(cur, AttachAddress)
                              /\ pad[AttachAddress] = NoSite /\ ~ArmAt(cur, AttachAddress))
    BY <1>6 DEF AttachCheck, siteVars
  <2>2. PadOfSite' /\ PatchRefusesOwned'  BY <1>0, <1>1, <2>1 DEF PadOfSite, PatchRefusesOwned
  <2>3. SiteOfPad'  BY <1>0, <1>1, <2>1 DEF SiteOfPad, Reserving
  <2>4. Patching'
    <3>1. CASE cpc' = "patch"
      BY <1>1, <1>4, <2>1, <3>1 DEF Patching, LegacyUses
    <3>2. CASE cpc' # "patch"  BY <2>1, <3>2 DEF Patching
    <3> QED BY <3>1, <3>2
  <2>5. Arming'
    BY <1>0, <1>1, <1>4, <2>1 DEF Arming, SiteOwned, AttachAt, ArmAt
  <2> QED BY <2>2, <2>3, <2>4, <2>5 DEF Text
<1>7. CASE AttachPatch
  <2>1. cpc = "patch" /\ UNCHANGED site  BY <1>7 DEF AttachPatch
  <2>2. CASE cpc' = "check" /\ UNCHANGED pad
    <3>1. PadOfSite' /\ PatchRefusesOwned'  BY <1>0, <1>1, <2>1, <2>2 DEF PadOfSite, PatchRefusesOwned
    <3>2. SiteOfPad'  BY <1>0, <1>1, <2>1, <2>2 DEF SiteOfPad, Reserving
    <3>3. Patching'  BY <2>2 DEF Patching
    <3>4. Arming'  BY <1>0, <1>1, <2>1, <2>2 DEF Arming, SiteOwned, AttachAt
    <3> QED BY <3>1, <3>2, <3>3, <3>4 DEF Text
  <2>3. CASE /\ cpc' = "reserve" /\ cur' = cur
             /\ pad' = [pad EXCEPT ![AttachAddress] = cur]
    <3>1. /\ \A b \in Addresses : b # AttachAddress => pad'[b] = pad[b]
          /\ pad'[AttachAddress] = cur
      BY <1>3, <1>a, <2>3
    <3>2. \A s \in Sites : site[s].users # 0 => site[s].address # AttachAddress /\ site[s].address \in Addresses
      BY <1>0, <2>1, UsedIsOwned DEF Cursor
    <3>3. PadOfSite'  BY <1>0, <2>1, <3>1, <3>2 DEF PadOfSite
    <3>4. PatchRefusesOwned'  BY <1>0, <1>1, <2>1 DEF PatchRefusesOwned
    <3>5. SiteOfPad'
      <4> SUFFICES ASSUME NEW b \in Addresses, pad'[b] # NoSite
                   PROVE  \/ site[pad'[b]].users # 0 /\ site[pad'[b]].address = b
                          \/ legacy[pad'[b]] = b
                          \/ Reserving(b)'
        BY <1>1, <2>1 DEF SiteOfPad
      <4>1. CASE b = AttachAddress  BY <1>4, <2>3, <3>1, <4>1 DEF Reserving
      <4>2. CASE b # AttachAddress
        BY <1>0, <2>1, <3>1, <4>2 DEF SiteOfPad, Reserving
      <4> QED BY <4>1, <4>2
    <3>6. Patching'
      <4>1. ~LegacyUses(cur, AttachAddress)  BY <1>0, <2>1 DEF Patching
      <4> QED BY <1>1, <1>4, <2>3, <3>1, <4>1 DEF Patching, LegacyUses
    <3>7. Arming'
      BY <1>0, <1>1, <1>4, <2>1, <2>3, <3>1 DEF Arming, SiteOwned, AttachAt
    <3> QED BY <3>3, <3>4, <3>5, <3>6, <3>7 DEF Text
  <2> QED BY <1>7, <2>2, <2>3 DEF AttachPatch
<1>8. CASE AttachReserve
  <2>1. cpc = "reserve" /\ cpc' = "unlock" /\ UNCHANGED pad  BY <1>8 DEF AttachReserve
  <2>2. cur \in Sites  BY <1>0, <2>1 DEF Types, ControlTypes
  <2>3. /\ \A r \in Sites : r # cur => site'[r] = site[r]
        /\ site'[cur].address = AttachAddress /\ site'[cur].users = site[cur].users + 1
    BY <1>8, <1>a, <2>2 DEF AttachReserve
  <2>4. site[cur].users = 0 /\ ~LegacyUses(cur, AttachAddress) /\ pad[AttachAddress] = cur
    BY <1>0, <2>1 DEF Cursor, Patching
  <2>5. site'[cur].users # 0  BY <2>3, <2>4
  <2>6. PadOfSite'
    BY <1>0, <2>1, <2>3, <2>4 DEF PadOfSite
  <2>7. SiteOfPad'
    <3> SUFFICES ASSUME NEW b \in Addresses, pad[b] # NoSite
                 PROVE  \/ site'[pad[b]].users # 0 /\ site'[pad[b]].address = b
                        \/ legacy[pad[b]] = b
      BY <1>1, <2>1 DEF SiteOfPad
    <3>1. pad[b] \in Sites  BY <1>a DEF SiteRange
    <3>2. CASE site[pad[b]].users # 0 /\ site[pad[b]].address = b
      BY <2>3, <2>4, <3>1, <3>2
    <3>3. CASE Reserving(b)  BY <2>3, <2>5, <3>3 DEF Reserving
    <3> QED BY <1>0, <3>2, <3>3 DEF SiteOfPad
  <2>8. PatchRefusesOwned'
    BY <1>0, <1>1, <2>3, <2>4 DEF PatchRefusesOwned, LegacyUses
  <2>9. Patching'  BY <2>1 DEF Patching
  <2>10. Arming'
    BY <1>0, <1>1, <2>1, <2>2, <2>3 DEF Arming, SiteOwned, AttachAt
  <2> QED BY <2>6, <2>7, <2>8, <2>9, <2>10 DEF Text
<1> QED BY <1>5, <1>6, <1>7, <1>8

LEMMA LastUser == \A n \in Int : n - 1 = 0 <=> n = 1
OBVIOUS

LEMMA UnhookText ==
  ASSUME LInv, Text, NEW id \in Programs, NEW e \in Entries, Unhook(id, e),
         UNCHANGED <<legacy, lpc, lreq>>, cpc \in {"detach", "detach all"},
         cpc' \in {"unlock", "detach all"}
  PROVE  Text'
<1>0. /\ IInv /\ Types /\ Tables /\ UsersExact /\ OneSite /\ Arming /\ PadOfSite /\ SiteOfPad /\ PatchRefusesOwned
  BY InvTypes DEF LInv, Text, Tables, SiteLinks
<1>a. /\ site \in [Sites -> SiteRecord] /\ pad \in [Addresses -> SiteRange]
      /\ link \in [Programs -> [Entries -> SiteRange]] /\ NoSite \notin Sites
  BY <1>0, TableParts, ProgramManagerAssumption DEF ProgramManagerAssumption, Sites
<1>b. link[id][e] # NoSite /\ link[id][e] \in SiteRange  BY <1>a DEF Unhook
<1>1. PICK s \in Sites : s = link[id][e]  BY <1>b DEF SiteRange
<1>2. site[s].users # 0
  <2>1. <<id, e>> \in Slots /\ link[<<id, e>>[1]][<<id, e>>[2]] = s  BY <1>1 DEF Slots
  <2> QED BY <1>0, <2>1, UsersWitness
<1>3. /\ \A r \in Sites : r # s => site'[r] = site[r]
      /\ site'[s].users = site[s].users - 1 /\ site'[s].address = site[s].address
  BY <1>1, <1>a DEF Unhook, SiteRecord
<1>4. \A r \in Sites : site'[r].address = site[r].address /\ (site'[r].users # 0 => site[r].users # 0)
  BY <1>2, <1>3
<1>5. site[s].users \in Int  BY <1>a DEF SiteRecord
<1>5a. \A r \in Sites : site'[r].owned = site[r].owned
  BY <1>1, <1>a DEF Unhook, SiteRecord
<1>6. Arming' /\ Patching'
  <2>1. lreq.address \in Addresses /\ pad[lreq.address] = NoSite => pad'[lreq.address] = NoSite
    BY <1>a DEF Unhook
  <2> QED BY <1>0, <1>4, <1>5a, <2>1 DEF Arming, SiteOwned, AttachAt, Patching
<1>7. PatchRefusesOwned'  BY <1>0, <1>4 DEF PatchRefusesOwned
<1>8. \A b \in Addresses : pad[b] # NoSite => pad[b] \in Sites  BY <1>a DEF SiteRange
<1>9. CASE site[s].users # 1 /\ UNCHANGED pad
  <2>1. site'[s].users # 0
    <3>1. site[s].users - 1 # 0  BY <1>5, <1>9, LastUser
    <3> QED BY <1>3, <3>1
  <2>2. PadOfSite'  BY <1>0, <1>4, <1>9 DEF PadOfSite
  <2>3. SiteOfPad'
    BY <1>0, <1>3, <1>8, <1>9, <2>1 DEF SiteOfPad, Reserving
  <2> QED BY <1>6, <1>7, <2>2, <2>3 DEF Text
<1>10. CASE site[s].users = 1 /\ pad' = [pad EXCEPT ![site[s].address] = NoSite]
  <2>1. site'[s].users = 0
    <3>1. site[s].users - 1 = 0  BY <1>5, <1>10, LastUser
    <3> QED BY <1>3, <3>1
  <2>2. site[s].address \in Addresses  BY <1>0, <1>2, UsedIsOwned
  <2>3. \A b \in Addresses : pad'[b] = IF b = site[s].address THEN NoSite ELSE pad[b]
    BY <1>10, <1>a, <2>2
  <2>4. \A r \in Sites : site[r].users # 0 => site[r].address \in Addresses
    BY <1>0, UsedIsOwned
  <2>5. PadOfSite'
    <3> SUFFICES ASSUME NEW r \in Sites, site'[r].users # 0 PROVE pad'[site'[r].address] = r
      BY DEF PadOfSite
    <3>1. r # s /\ site'[r] = site[r]  BY <1>3, <2>1
    <3>2. site[r].address # site[s].address  BY <1>0, <1>2, <3>1 DEF OneSite
    <3> QED BY <1>0, <2>3, <2>4, <3>1, <3>2 DEF PadOfSite
  <2>6. SiteOfPad'
    <3> SUFFICES ASSUME NEW b \in Addresses, pad'[b] # NoSite
                 PROVE  \/ site'[pad'[b]].users # 0 /\ site'[pad'[b]].address = b
                        \/ legacy[pad'[b]] = b
      BY DEF SiteOfPad
    <3>1. b # site[s].address /\ pad'[b] = pad[b] /\ pad[b] \in Sites  BY <1>8, <2>3
    <3>2. CASE site[pad[b]].users # 0 /\ site[pad[b]].address = b
      <4>1. pad[b] # s  BY <3>1, <3>2
      <4> QED BY <1>3, <3>1, <3>2, <4>1
    <3>3. ~Reserving(b)  BY DEF Reserving
    <3> QED BY <1>0, <3>1, <3>2, <3>3 DEF SiteOfPad
  <2> QED BY <1>6, <1>7, <2>5, <2>6 DEF Text
<1> QED BY <1>1, <1>9, <1>10 DEF Unhook

LEMMA ControlText ==
  ASSUME LInv, Text, ~raced', ControlBegin \/ ControlStep
  PROVE  Text'
<1>0. IInv /\ Types /\ Text  BY InvTypes DEF LInv
<1>1. CASE ControlBegin
  <2>1. /\ cpc = "idle" /\ cpc' \in {"prepare", "exchange"}
        /\ UNCHANGED <<site, pad, legacy, lpc, lreq>>
    BY <1>1 DEF ControlBegin, LoadBegin, ModeBegin, AttachBegin, DetachBegin, RevokeBegin, Begin,
                siteVars, lodVars
  <2> QED BY <1>0, <2>1, TextFrame
<1>2. CASE LockExchange \/ LockReaders \/ Unlock
  <2>1. /\ cpc \in {"exchange", "readers", "unlock", "unlock fail"}
        /\ UNCHANGED <<site, pad, legacy, lpc, lreq>>
    BY <1>2 DEF LockExchange, LockReaders, Unlock, siteVars, lodVars
  <2>2. cpc' \notin {"patch", "reserve"}
    BY <1>2 DEF LockExchange, LockReaders, Unlock, Goto, Return, Refuse, Body
  <2> QED BY <1>0, <2>1, <2>2, TextFrame
<1>3. CASE (\E v \in SafeValues : LoadPrepare(v)) \/ LoadUnwind \/ LoadPublish \/ ModeSet
           \/ RevokeDisable \/ RevokeConfig \/ RevokeDestroy
  <2>1. /\ cpc \notin {"idle", "reserve"} /\ cpc' \notin {"patch", "reserve"}
        /\ UNCHANGED <<site, pad, legacy, lpc, lreq>>
    BY <1>3 DEF LoadPrepare, LoadUnwind, LoadPublish, ModeSet, RevokeDisable, RevokeConfig,
                RevokeDestroy, Return, siteVars, lodVars
  <2> QED BY <1>0, <2>1, TextFrame
<1>4. CASE AttachShare \/ AttachCheck \/ AttachPatch \/ AttachReserve  BY <1>4, AttachText
<1>5. CASE Detach
  <2>1. cpc = "detach" /\ cpc' = "unlock" /\ UNCHANGED <<legacy, lpc, lreq>>
    BY <1>5 DEF Detach, lodVars
  <2>2. CASE UNCHANGED <<site, pad>>  BY <1>0, <2>1, <2>2, TextFrame
  <2>3. CASE Unhook(req.id, req.entry)
    <3>1. PICK id \in Programs, e \in Entries : id = req.id /\ e = req.entry
      BY <1>0, RequestParts
    <3> QED BY <2>1, <2>3, <3>1, UnhookText
  <2> QED BY <1>5, <2>2, <2>3 DEF Detach
<1>6. CASE RevokeDetach
  <2>1. cpc = "detach all" /\ cpc' \in {"unlock", "detach all", "config"} /\ UNCHANGED <<legacy, lpc, lreq>>
    BY <1>6 DEF RevokeDetach, lodVars
  <2>2. CASE UNCHANGED <<site, pad>>  BY <1>0, <2>1, <2>2, TextFrame
  <2>3. CASE Unhook(req.id, cur) /\ cur < count[req.id] /\ cpc' = "detach all"
    <3>1. cur \in Entries /\ req.id \in Programs
      <4>1. cur \in Nat /\ req.id \in Programs /\ count[req.id] \in 0 .. EntryMax
        BY <1>0, RequestParts, TableParts
      <4>2. cur < count[req.id]  BY <2>3
      <4> QED BY <4>1, <4>2, Numbers
    <3>2. PICK id \in Programs, e \in Entries : id = req.id /\ e = cur  BY <3>1
    <3> QED BY <2>1, <2>3, <3>2, UnhookText
  <2> QED BY <1>6, <2>1, <2>2, <2>3 DEF RevokeDetach
<1> QED BY <1>1, <1>2, <1>3, <1>4, <1>5, <1>6 DEF ControlStep

LEMMA LoaderText ==
  ASSUME LInv, Text, ~raced', Loader
  PROVE  Text'
<1>0. /\ IInv /\ Types /\ Tables /\ Arming /\ PadOfSite /\ SiteOfPad /\ Patching /\ PatchRefusesOwned
  BY InvTypes DEF LInv, Text
<1>a. /\ pad \in [Addresses -> SiteRange] /\ legacy \in [Sites -> AddressRange]
      /\ lreq.site \in Sites /\ NoAddress \notin Addresses /\ NoSite \notin Sites
      /\ LegacySlots \subseteq Sites
  BY <1>0, TableParts, ProgramManagerAssumption
  DEF ProgramManagerAssumption, Types, ControlTypes, Sites
<1>1. UNCHANGED <<site, cpc, cur>> /\ AttachAddress' = AttachAddress
  BY DEF Loader, LegacyArmCheck, LegacyArm, LegacyDisarm, AttachAddress, siteVars, ctlVars, progVars
<1>2. cpc \in {"patch", "reserve"} => cur \in Sites /\ AttachAddress \in Addresses
  BY <1>0, AttachKnows DEF Types, ControlTypes
<1>3. \A s \in Sites : site[s].users # 0 => site[s].owned /\ site[s].address \in Addresses
  BY <1>0, UsedIsOwned
<1>4. ASSUME NEW s \in LegacySlots, NEW a \in Addresses, LegacyArmCheck(s, a) PROVE Text'
  <2>1. /\ UNCHANGED <<pad, legacy>> /\ ~SiteOwned(s, a) /\ legacy[s] = NoAddress
        /\ pad[a] = NoSite /\ lreq' = [site |-> s, address |-> a] /\ ~AttachAt(s, a)
    BY <1>4 DEF LegacyArmCheck, siteVars
  <2>2. Arming'  BY <1>1, <2>1 DEF Arming, SiteOwned, AttachAt
  <2>3. PadOfSite' /\ PatchRefusesOwned'  BY <1>0, <1>1, <2>1 DEF PadOfSite, PatchRefusesOwned
  <2>4. SiteOfPad'  BY <1>0, <1>1, <2>1 DEF SiteOfPad, Reserving
  <2>5. Patching'  BY <1>0, <1>1, <2>1 DEF Patching, LegacyUses
  <2> QED BY <2>2, <2>3, <2>4, <2>5 DEF Text
<1>5. CASE LegacyArm
  <2>1. lpc = "arm" /\ lpc' = "idle"  BY <1>5 DEF LegacyArm
  <2>2. Arming'  BY <2>1 DEF Arming
  <2>3. CASE UNCHANGED <<pad, legacy>>
    <3>1. PadOfSite' /\ PatchRefusesOwned'  BY <1>0, <1>1, <2>3 DEF PadOfSite, PatchRefusesOwned
    <3>2. SiteOfPad'  BY <1>0, <1>1, <2>3 DEF SiteOfPad, Reserving
    <3>3. Patching'  BY <1>0, <1>1, <2>3 DEF Patching, LegacyUses
    <3> QED BY <2>2, <3>1, <3>2, <3>3 DEF Text
  <2>4. CASE /\ pad' = [pad EXCEPT ![lreq.address] = lreq.site]
             /\ legacy' = [legacy EXCEPT ![lreq.site] = lreq.address]
    <3>1. /\ lreq.address \in Addresses /\ legacy[lreq.site] = NoAddress
          /\ ~SiteOwned(lreq.site, lreq.address) /\ ~AttachAt(lreq.site, lreq.address)
      BY <1>0, <2>1 DEF Arming
    <3>2. \A s \in Sites : site[s].users # 0 => s # lreq.site /\ site[s].address # lreq.address
      BY <1>3, <3>1 DEF SiteOwned
    <3>3. /\ \A b \in Addresses : pad'[b] = IF b = lreq.address THEN lreq.site ELSE pad[b]
          /\ \A i \in Sites : legacy'[i] = IF i = lreq.site THEN lreq.address ELSE legacy[i]
      BY <1>a, <2>4, <3>1
    <3>4. PadOfSite'  BY <1>0, <1>1, <1>3, <3>2, <3>3 DEF PadOfSite
    <3>5. PatchRefusesOwned'  BY <1>0, <1>1, <3>2, <3>3 DEF PatchRefusesOwned
    <3>6. cpc \in {"patch", "reserve"} => lreq.site # cur /\ lreq.address # AttachAddress
      BY <3>1 DEF AttachAt
    <3>7. SiteOfPad'
      <4> SUFFICES ASSUME NEW b \in Addresses, pad'[b] # NoSite
                   PROVE  \/ site[pad'[b]].users # 0 /\ site[pad'[b]].address = b
                          \/ legacy'[pad'[b]] = b
                          \/ Reserving(b)'
        BY <1>1 DEF SiteOfPad
      <4>1. CASE b = lreq.address  BY <1>a, <3>3, <4>1
      <4>2. CASE b # lreq.address
        <5>1. pad'[b] = pad[b] /\ pad[b] \in Sites  BY <1>a, <3>3, <4>2 DEF SiteRange
        <5>2. CASE Reserving(b)  BY <1>1, <5>1, <5>2 DEF Reserving
        <5>3. CASE legacy[pad[b]] = b
          <6>1. pad[b] # lreq.site  BY <1>a, <3>1, <5>3
          <6> QED BY <3>3, <5>1, <5>3, <6>1
        <5> QED BY <1>0, <5>1, <5>2, <5>3 DEF SiteOfPad
      <4> QED BY <4>1, <4>2
    <3>8. Patching'
      <4>1. CASE cpc \in {"patch", "reserve"}
        <5>1. ~LegacyUses(cur, AttachAddress)  BY <1>0, <4>1 DEF Patching
        <5>2. ~LegacyUses(cur, AttachAddress)'
          BY <1>1, <3>3, <3>6, <4>1, <5>1 DEF LegacyUses
        <5>3. pad'[AttachAddress] = pad[AttachAddress]  BY <1>2, <3>3, <3>6, <4>1
        <5> QED BY <1>0, <1>1, <5>2, <5>3 DEF Patching
      <4>2. CASE cpc \notin {"patch", "reserve"}  BY <1>1, <4>2 DEF Patching
      <4> QED BY <4>1, <4>2
    <3> QED BY <2>2, <3>4, <3>5, <3>7, <3>8 DEF Text
  <2> QED BY <1>5, <2>3, <2>4 DEF LegacyArm
<1>6. ASSUME NEW s \in LegacySlots, LegacyDisarm(s) PROVE Text'
  <2>1. /\ lpc' = lpc /\ lpc = "idle" /\ legacy[s] # NoAddress /\ s \in Sites
        /\ pad' = [pad EXCEPT ![legacy[s]] = NoSite]
        /\ legacy' = [legacy EXCEPT ![s] = NoAddress]
    BY <1>6, <1>a DEF LegacyDisarm
  <2>2. Arming'  BY <2>1 DEF Arming
  <2>3. legacy[s] \in Addresses  BY <1>a, <2>1 DEF AddressRange
  <2>4. /\ \A b \in Addresses : pad'[b] = IF b = legacy[s] THEN NoSite ELSE pad[b]
        /\ \A i \in Sites : legacy'[i] = IF i = s THEN NoAddress ELSE legacy[i]
    BY <1>a, <2>1, <2>3
  <2>5. \A r \in Sites : site[r].users # 0 => site[r].address # legacy[s]
    BY <1>0, <2>1 DEF PatchRefusesOwned
  <2>6. PadOfSite'  BY <1>0, <1>1, <1>3, <2>4, <2>5 DEF PadOfSite
  <2>7. PatchRefusesOwned'  BY <1>0, <1>1, <2>4 DEF PatchRefusesOwned
  <2>8. SiteOfPad'
    <3> SUFFICES ASSUME NEW b \in Addresses, pad'[b] # NoSite
                 PROVE  \/ site[pad'[b]].users # 0 /\ site[pad'[b]].address = b
                        \/ legacy'[pad'[b]] = b
                        \/ Reserving(b)'
      BY <1>1 DEF SiteOfPad
    <3>1. b # legacy[s] /\ pad'[b] = pad[b]  BY <2>4
    <3>2. pad[b] \in Sites  BY <1>a, <3>1 DEF SiteRange
    <3>3. CASE Reserving(b)  BY <1>1, <3>1, <3>3 DEF Reserving
    <3>4. CASE legacy[pad[b]] = b
      <4>1. pad[b] # s  BY <3>1, <3>4
      <4> QED BY <2>4, <3>1, <3>2, <3>4, <4>1
    <3> QED BY <1>0, <3>1, <3>3, <3>4 DEF SiteOfPad
  <2>9. Patching'
    <3>1. CASE cpc \in {"patch", "reserve"}
      <4>1. ~LegacyUses(cur, AttachAddress)  BY <1>0, <3>1 DEF Patching
      <4>2. ~LegacyUses(cur, AttachAddress)'  BY <1>1, <2>4, <4>1 DEF LegacyUses
      <4>3. legacy[s] # AttachAddress  BY <2>1, <4>1 DEF LegacyUses
      <4>4. pad'[AttachAddress] = pad[AttachAddress]  BY <1>2, <2>4, <3>1, <4>3
      <4> QED BY <1>0, <1>1, <4>2, <4>4 DEF Patching
    <3>2. CASE cpc \notin {"patch", "reserve"}  BY <1>1, <3>2 DEF Patching
    <3> QED BY <3>1, <3>2
  <2> QED BY <2>2, <2>6, <2>7, <2>8, <2>9 DEF Text
<1> QED BY <1>4, <1>5, <1>6 DEF Loader

LEMMA TextInit == Init => Text
<1> SUFFICES ASSUME Init PROVE Text
  OBVIOUS
<1>1. \A s \in Sites : site[s].users = 0  BY DEF Init, EmptySite
<1>2. Arming /\ Patching  BY DEF Init, Arming, Patching
<1>3. PadOfSite /\ PatchRefusesOwned  BY <1>1 DEF PadOfSite, PatchRefusesOwned
<1>4. SiteOfPad  BY DEF Init, SiteOfPad
<1> QED BY <1>2, <1>3, <1>4 DEF Text

LEMMA TextNext == TInv /\ [Next]_vars => (~raced => Text)'
<1> SUFFICES ASSUME TInv, [Next]_vars, ~raced' PROVE Text'
  OBVIOUS
<1>0. LInv /\ Text  BY RacedLasts DEF TInv
<1>1. CASE ControlBegin \/ ControlStep  BY <1>0, <1>1, ControlText
<1>2. CASE Loader  BY <1>0, <1>2, LoaderText
<1>3. ASSUME UNCHANGED ctlSide PROVE Text'
  BY <1>0, <1>3 DEF Text, Arming, SiteOwned, AttachAt, PadOfSite, SiteOfPad, Reserving, Patching,
                    LegacyUses, PatchRefusesOwned, AttachAddress, ctlSide, progVars, siteVars,
                    ctlVars, lodVars
<1>4. CASE UNCHANGED vars  BY <1>3, <1>4 DEF vars, ctlSide
<1>5. ASSUME NEW t \in Threads, ThreadStep(t) \/ \E a \in Addresses : Hit(t, a) PROVE Text'
  BY <1>3, <1>5, ThreadFrameCtl
<1> QED BY <1>1, <1>2, <1>4, <1>5 DEF Next

LEMMA TextInvariance == Spec => []TInv
<1>1. Init => TInv  BY IInvInit, TablesInit, CallsInit, TextInit DEF TInv, LInv
<1>2. TInv /\ [Next]_vars => TInv'
  BY IInvNext, TablesNext, CallsNext, TextNext DEF TInv, LInv
<1> QED BY <1>1, <1>2, PTL DEF Spec

\* Whenever no operation holds the gate, a site counts exactly the entries
\* linked to it, and unless an ARM and an attach were at one site or function
\* together no function is left patched to a site without users
\* (ls_program_patch, ls_arm_live, ls_program_detach_locked).
THEOREM TextAgrees == Spec => []TextMatchesLinks
<1>1. TInv => TextMatchesLinks
  <2> SUFFICES ASSUME TInv, cpc \notin Critical
               PROVE  /\ \A s \in Sites : site[s].users = Cardinality({p \in Slots : link[p[1]][p[2]] = s})
                      /\ \A s \in Sites : site[s].users # 0 =>
                           /\ site[s].owned
                           /\ \A p \in Slots : link[p[1]][p[2]] = s => address[p[1]][p[2]] = site[s].address
                      /\ ~raced =>
                           /\ \A s \in Sites : site[s].users # 0 => pad[site[s].address] = s
                           /\ \A a \in Addresses : pad[a] # NoSite =>
                                \/ site[pad[a]].users # 0 /\ site[pad[a]].address = a
                                \/ legacy[pad[a]] = a
    BY DEF TextMatchesLinks
  <2>0. IInv /\ Tables /\ UsersExact /\ LinkAgrees
    BY DEF TInv, LInv, Tables, SiteLinks
  <2>1. \A s \in Sites : site[s].users = Cardinality({p \in Slots : link[p[1]][p[2]] = s})
    BY <2>0 DEF UsersExact, Users
  <2>2. \A s \in Sites : s # NoSite
    BY ProgramManagerAssumption DEF ProgramManagerAssumption, Sites
  <2>3. \A s \in Sites : site[s].users # 0 =>
           /\ site[s].owned
           /\ \A p \in Slots : link[p[1]][p[2]] = s => address[p[1]][p[2]] = site[s].address
    BY <2>0, <2>2, UsedIsOwned DEF LinkAgrees
  <2>4. \A a : ~Reserving(a)  BY DEF Reserving, Critical
  <2>5. ASSUME ~raced
        PROVE  /\ \A s \in Sites : site[s].users # 0 => pad[site[s].address] = s
               /\ \A a \in Addresses : pad[a] # NoSite =>
                    \/ site[pad[a]].users # 0 /\ site[pad[a]].address = a
                    \/ legacy[pad[a]] = a
    <3>1. PadOfSite /\ SiteOfPad  BY <2>5 DEF TInv, Text
    <3> QED BY <2>4, <3>1 DEF PadOfSite, SiteOfPad
  <2> QED BY <2>1, <2>3, <2>5
<1> QED BY <1>1, TextInvariance, PTL

\* Only an ARM and an attach that are at a site or a function together, each
\* between its check and its store, can give it both a legacy hook and program
\* users (ls_program_patch against ls_program_site_owned), however long the
\* loader waits for an operation.
THEOREM SeparateOwners == Spec => []OneOwner
<1>1. TInv => OneOwner  BY DEF TInv, Text, OneOwner
<1> QED BY <1>1, TextInvariance, PTL

-----------------------------------------------------------------------------
(***************************************************************************)
(* ProgramManager implements OwnedPrograms, for every number of programs,  *)
(* entries, sites, functions and data-path threads: whatever the gate, the *)
(* site table and the dispatch loop do, a hooked call runs the whole set   *)
(* of entries attached to its function, or none.                           *)
(***************************************************************************)

-----------------------------------------------------------------------------
(* The refinement mapping of Abstract, one operator per variable.          *)

Published == {id \in Programs : instance[id] # 0}
Hooks == {<<p[1], p[2], address[p[1]][p[2]]>> : p \in {q \in Slots : link[q[1]][q[2]] # NoSite}}
Safe == [id \in Programs |-> [e \in Entries |-> slot[id][e].safe]]
PhaseOf(t) == IF tpc[t] = "idle" THEN "idle"
              ELSE IF tpc[t] \in Answered THEN "answered" ELSE "called"
Phase == [t \in Threads |-> PhaseOf(t)]
Func == [t \in Threads |-> call[t].address]
OutcomeOf(t) == [ran        |-> IF tpc[t] \in Answered THEN call[t].ran ELSE {},
                 suppressed |-> tpc[t] \in Answered /\ call[t].verdict = SAFE_RETURN,
                 value      |-> IF tpc[t] \in Answered THEN call[t].safe ELSE 0]
Outcome == [t \in Threads |-> OutcomeOf(t)]

LEMMA Mapping ==
  /\ Abstract!vars = <<Published, mode, Hooks, Safe, Phase, Func, Outcome>>
  /\ Abstract!calls = <<Phase, Func, Outcome>>
BY DEF Abstract!vars, Abstract!calls, Published, Hooks, Safe, Phase, PhaseOf, Func, Outcome, OutcomeOf

LEMMA HookElements ==
  \A h : h \in Hooks <=>
    \E p \in Slots : link[p[1]][p[2]] # NoSite /\ h = <<p[1], p[2], address[p[1]][p[2]]>>
BY DEF Hooks

\* Nothing a client of the manager sees has changed.
LEMMA CallsSame ==
  ASSUME UNCHANGED <<tpc, call>>
  PROVE  UNCHANGED <<Phase, Func, Outcome>>
BY DEF Phase, PhaseOf, Func, Outcome, OutcomeOf

LEMMA ProgramsSame ==
  ASSUME UNCHANGED <<instance, link, address, slot>>
  PROVE  UNCHANGED <<Published, Hooks, Safe>>
BY DEF Published, Hooks, Safe

LEMMA Stutter ==
  ASSUME UNCHANGED <<tpc, call, instance, mode, link, address, slot>>
  PROVE  UNCHANGED Abstract!vars
<1>1. UNCHANGED <<Published, mode, Hooks, Safe, Phase, Func, Outcome>>
  BY CallsSame, ProgramsSame
<1> QED BY <1>1 DEF Abstract!vars, Published, Hooks, Safe, Phase, PhaseOf, Func, Outcome, OutcomeOf

-----------------------------------------------------------------------------
(* The initial states.                                                     *)

LEMMA RefinesInit == Init => Abstract!Init
<1> SUFFICES ASSUME Init PROVE Abstract!Init
  OBVIOUS
<1>1. Published = {}  BY DEF Init, Published
<1>2. Hooks = {}
  <2>1. \A p \in Slots : link[p[1]][p[2]] = NoSite  BY SlotPair DEF Init
  <2> QED BY <2>1 DEF Hooks
<1>3. Safe = [id \in Programs |-> [e \in Entries |-> 0]]
  BY DEF Init, Safe, EmptySlot
<1>4. Phase = [t \in Threads |-> "idle"]  BY DEF Init, Phase, PhaseOf
<1>5. Func = [t \in Threads |-> NoAddress]  BY DEF Init, Func, NoCall
<1>6. Outcome = [t \in Threads |-> [ran |-> {}, suppressed |-> FALSE, value |-> 0]]
  <2>1. \A t \in Threads : tpc[t] \notin Answered  BY DEF Init, Answered
  <2> QED BY <2>1 DEF Outcome, OutcomeOf
<1>7. mode = [id \in Programs |-> DISABLE]  BY DEF Init
<1> QED
  BY <1>1, <1>2, <1>3, <1>4, <1>5, <1>6, <1>7
  DEF Abstract!Init, Abstract!Pending, Published, Hooks, Safe, Phase, PhaseOf, Func, Outcome, OutcomeOf

-----------------------------------------------------------------------------
(* The steps of OwnedPrograms in terms of the mapping.                     *)

LEMMA PrepareStep ==
  ASSUME NEW id \in Programs, id \notin Published, NEW f \in [Entries -> SafeValues \union {0}],
         Safe' = [Safe EXCEPT ![id] = f],
         UNCHANGED <<Published, mode, Hooks, Phase, Func, Outcome>>
  PROVE  Abstract!Next
<1>1. Abstract!Prepare(id)
  BY DEF Abstract!Prepare, Abstract!calls, Published, Hooks, Safe, Phase, PhaseOf, Func, Outcome, OutcomeOf
<1> QED BY <1>1 DEF Abstract!Next

LEMMA PublishStep ==
  ASSUME NEW id \in Programs, id \notin Published, Published' = Published \union {id},
         UNCHANGED <<mode, Hooks, Safe, Phase, Func, Outcome>>
  PROVE  Abstract!Next
<1>1. Abstract!Publish(id)
  BY DEF Abstract!Publish, Abstract!calls, Published, Hooks, Safe, Phase, PhaseOf, Func, Outcome, OutcomeOf
<1> QED BY <1>1 DEF Abstract!Next

LEMMA SetModeStep ==
  ASSUME NEW id \in Programs, NEW m \in Modes, id \in Published, mode' = [mode EXCEPT ![id] = m],
         UNCHANGED <<Published, Hooks, Safe, Phase, Func, Outcome>>
  PROVE  Abstract!Next
<1>1. Abstract!SetMode(id, m)
  BY DEF Abstract!SetMode, Abstract!calls, Published, Hooks, Safe, Phase, PhaseOf, Func, Outcome, OutcomeOf
<1> QED BY <1>1 DEF Abstract!Next

LEMMA AttachStep ==
  ASSUME NEW id \in Programs, NEW e \in Entries, NEW a \in Addresses, id \in Published,
         \A h \in Hooks : ~(h[1] = id /\ h[2] = e), Hooks' = Hooks \union {<<id, e, a>>},
         UNCHANGED <<Published, mode, Safe, Phase, Func, Outcome>>
  PROVE  Abstract!Next
<1>1. Abstract!Attach(id, e, a)
  BY DEF Abstract!Attach, Abstract!calls, Published, Hooks, Safe, Phase, PhaseOf, Func, Outcome, OutcomeOf
<1> QED BY <1>1 DEF Abstract!Next

LEMMA DetachStep ==
  ASSUME NEW h \in Hooks, Hooks' = Hooks \ {h},
         UNCHANGED <<Published, mode, Safe, Phase, Func, Outcome>>
  PROVE  Abstract!Next
<1>1. Abstract!Detach(h)
  BY DEF Abstract!Detach, Abstract!calls, Published, Hooks, Safe, Phase, PhaseOf, Func, Outcome, OutcomeOf
<1> QED BY <1>1 DEF Abstract!Next, Hooks

LEMMA RetireStep ==
  ASSUME NEW id \in Programs, id \in Published, mode[id] = DISABLE, \A h \in Hooks : h[1] # id,
         Published' = Published \ {id}, Safe' = [Safe EXCEPT ![id] = [e \in Entries |-> 0]],
         UNCHANGED <<mode, Hooks, Phase, Func, Outcome>>
  PROVE  Abstract!Next
<1>1. Abstract!Retire(id)
  BY DEF Abstract!Retire, Abstract!calls, Published, Hooks, Safe, Phase, PhaseOf, Func, Outcome, OutcomeOf
<1> QED BY <1>1 DEF Abstract!Next

LEMMA CallStep ==
  ASSUME NEW t \in Threads, NEW a \in Addresses, Phase[t] = "idle",
         Phase' = [Phase EXCEPT ![t] = "called"], Func' = [Func EXCEPT ![t] = a],
         UNCHANGED <<Published, mode, Hooks, Safe, Outcome>>
  PROVE  Abstract!Next
<1>1. Abstract!Call(t, a)
  BY DEF Abstract!Call, Published, Hooks, Safe, Phase, PhaseOf, Func, Outcome, OutcomeOf
<1> QED BY <1>1 DEF Abstract!Next

Due(a) == {<<h[1], h[2]>> : h \in {x \in Hooks : x[3] = a /\ mode[x[1]] # DISABLE}}

LEMMA AnswerStep ==
  ASSUME NEW t \in Threads, Phase[t] = "called", Phase' = [Phase EXCEPT ![t] = "answered"],
         NEW ran \in {{}, Due(Func[t])}, NEW suppressed \in BOOLEAN,
         NEW value \in SafeValues \union {0},
         suppressed => \E p \in ran : mode[p[1]] = ENFORCE /\ Safe[p[1]][p[2]] = value,
         Outcome' = [Outcome EXCEPT ![t] = [ran |-> ran, suppressed |-> suppressed, value |-> value]],
         UNCHANGED <<Published, mode, Hooks, Safe, Func>>
  PROVE  Abstract!Next
<1>1. Due(Func[t]) = Abstract!Due(Func[t])  BY DEF Due, Abstract!Due, Hooks
<1>2. ran \in {{}, Abstract!Due(Func[t])}  BY <1>1
<1>3. \E r \in {{}, Abstract!Due(Func[t])}, s \in BOOLEAN, v \in SafeValues \union {0} :
        /\ s => \E p \in r : mode[p[1]] = ENFORCE /\ Safe[p[1]][p[2]] = v
        /\ Outcome' = [Outcome EXCEPT ![t] = [ran |-> r, suppressed |-> s, value |-> v]]
  BY <1>2, Zenon
<1>4. UNCHANGED <<Published, mode, Hooks, Safe, Func>>  OBVIOUS
<1>5. Phase[t] = "called" /\ Phase' = [Phase EXCEPT ![t] = "answered"]  OBVIOUS
<1>6. Abstract!Answer(t)
  BY <1>3, <1>4, <1>5, Zenon
  DEF Abstract!Answer, Published, Hooks, Safe, Phase, PhaseOf, Func, Outcome, OutcomeOf
<1> QED BY <1>6 DEF Abstract!Next

LEMMA ResumeStep ==
  ASSUME NEW t \in Threads, Phase[t] = "answered", Phase' = [Phase EXCEPT ![t] = "idle"],
         Outcome' = [Outcome EXCEPT ![t] = [ran |-> {}, suppressed |-> FALSE, value |-> 0]],
         Func' = [Func EXCEPT ![t] = NoAddress],
         UNCHANGED <<Published, mode, Hooks, Safe>>
  PROVE  Abstract!Next
<1>1. Abstract!Resume(t)
  BY DEF Abstract!Resume, Abstract!Pending, Published, Hooks, Safe, Phase, PhaseOf, Func, Outcome, OutcomeOf
<1> QED BY <1>1 DEF Abstract!Next

-----------------------------------------------------------------------------
(* Control steps.                                                          *)

\* A load works on storage that OwnedPrograms lets anybody change.
LEMMA LoadRefines ==
  ASSUME LInv, LInv', (\E v \in SafeValues : LoadPrepare(v)) \/ LoadUnwind
  PROVE  Abstract!Next
<1>0. IInv /\ Types /\ Types' /\ Storage  BY InvTypes DEF LInv, Tables, IInv, TypeOK, Types
<1>1. Loading /\ UNCHANGED <<instance, mode, tpc, call>>
  BY DEF LoadPrepare, LoadUnwind, Loading, thrVars
<1>2. req.id \in Programs /\ instance[req.id] = 0 /\ \A e \in Entries : link[req.id][e] = NoSite
  BY <1>0, <1>1, LoadingPrivate, RequestParts, LoadingUnlinked
<1>3. PICK id \in Programs : id = req.id  BY <1>2
<1>4. /\ slot \in [Programs -> [Entries -> SlotRecord]] /\ slot' \in [Programs -> [Entries -> SlotRecord]]
      /\ link \in [Programs -> [Entries -> SiteRange]]
      /\ address \in [Programs -> [Entries -> AddressRange]]
  BY <1>0 DEF Types, ProgramTypes
<1>5. \A d \in Programs : d # id => slot'[d] = slot[d] /\ link'[d] = link[d] /\ address'[d] = address[d]
  BY <1>3, <1>4 DEF LoadPrepare, LoadUnwind
<1>6. \A e \in Entries : link'[id][e] = NoSite
  <2>1. link' = link \/ link' = [link EXCEPT ![req.id][cur] = NoSite]
    BY DEF LoadPrepare, LoadUnwind
  <2> QED BY <1>2, <1>3, <1>4, <2>1
<1>7. Hooks' = Hooks
  <2>1. ASSUME NEW p \in Slots
        PROVE  /\ link'[p[1]][p[2]] # NoSite <=> link[p[1]][p[2]] # NoSite
               /\ link[p[1]][p[2]] # NoSite => address'[p[1]][p[2]] = address[p[1]][p[2]]
    BY <1>2, <1>3, <1>5, <1>6, SlotPair
  <2> QED BY <2>1 DEF Hooks
<1>8. id \notin Published /\ UNCHANGED Published  BY <1>1, <1>2, <1>3 DEF Published
<1> DEFINE f == [e \in Entries |-> slot'[id][e].safe]
<1>9. f \in [Entries -> SafeValues \union {0}]
  BY <1>4 DEF SlotRecord, SafeRange
<1>10. Safe' = [Safe EXCEPT ![id] = f]
  BY <1>5 DEF Safe
<1> HIDE DEF f
<1> QED BY <1>1, <1>7, <1>8, <1>9, <1>10, CallsSame, PrepareStep

LEMMA PublishRefines ==
  ASSUME LInv, LoadPublish
  PROVE  Abstract!Next \/ UNCHANGED Abstract!vars
<1>0. IInv /\ Types  BY InvTypes DEF LInv
<1>1. Loading /\ UNCHANGED <<mode, tpc, call, link, address, slot>>
  BY DEF LoadPublish, Loading, thrVars
<1>2. req.id \in Programs /\ instance[req.id] = 0 /\ req.inst # 0
  BY <1>0, <1>1, LoadingPrivate, RequestParts
<1>3. CASE UNCHANGED instance  BY <1>1, <1>3, Stutter
<1>4. CASE instance' = [instance EXCEPT ![req.id] = req.inst]
  <2>1. PICK id \in Programs : id = req.id  BY <1>2
  <2>2. id \notin Published /\ Published' = Published \union {id}
    <3>1. instance \in [Programs -> Instances]  BY <1>0, TableParts
    <3> QED BY <1>2, <1>4, <2>1, <3>1 DEF Published
  <2>3. UNCHANGED <<Hooks, Safe>>  BY <1>1 DEF Hooks, Safe
  <2> QED BY <1>1, <2>2, <2>3, CallsSame, PublishStep
<1> QED BY <1>3, <1>4 DEF LoadPublish

LEMMA ModeRefines ==
  ASSUME LInv, ModeSet \/ RevokeDisable
  PROVE  Abstract!Next
<1>0. IInv /\ Types /\ Requests  BY InvTypes DEF LInv, Tables
<1>1. cpc \in {"mode", "disable"} /\ UNCHANGED <<instance, tpc, call, link, address>>
  BY DEF ModeSet, RevokeDisable, thrVars
<1>2. req.id \in Programs /\ req.arg \in Modes  BY <1>0, RequestParts
<1>3. PICK id \in Programs : id = req.id  BY <1>2
<1>4. instance[id] # 0
  BY <1>0, <1>1, <1>3 DEF Requests, RequestPc, RequestCurrent, Operating
<1>5. PICK m \in Modes : mode' = [mode EXCEPT ![id] = m] /\ SetSlotModes(id, m)
  BY <1>2, <1>3, ConstantTypes DEF ModeSet, RevokeDisable
<1>6. slot \in [Programs -> [Entries -> SlotRecord]]  BY <1>0, TableParts
<1>7. \A d \in Programs, e \in Entries : slot'[d][e].safe = slot[d][e].safe
  BY <1>5, <1>6 DEF SetSlotModes, SlotRecord
<1>8. UNCHANGED Safe  BY <1>7 DEF Safe
<1>9. id \in Published /\ UNCHANGED <<Published, Hooks>>  BY <1>1, <1>4 DEF Published, Hooks
<1> QED BY <1>1, <1>5, <1>8, <1>9, CallsSame, SetModeStep

LEMMA AttachRefines ==
  ASSUME LInv, AttachShare \/ AttachCheck \/ AttachPatch \/ AttachReserve
  PROVE  Abstract!Next \/ UNCHANGED Abstract!vars
<1>0. IInv /\ Types /\ Tables  BY InvTypes DEF LInv
<1>1. /\ cpc \in {"attach", "check", "patch", "reserve"}
      /\ UNCHANGED <<instance, mode, tpc, call, address, slot>>
  BY DEF AttachShare, AttachCheck, AttachPatch, AttachReserve, thrVars, progVars
<1>2. CASE UNCHANGED link  BY <1>1, <1>2, Stutter
<1>3. ASSUME NEW s \in Sites, link' = [link EXCEPT ![req.id][req.entry] = s]
      PROVE  Abstract!Next
  <2>1. req.id \in Programs /\ req.entry \in Entries  BY <1>0, RequestParts
  <2>2. PICK id \in Programs, e \in Entries, a \in Addresses :
          id = req.id /\ e = req.entry /\ a = address[id][e]
    BY <1>0, <1>1, <2>1, AttachKnows DEF AttachAddress
  <2>3. instance[id] # 0 /\ link[id][e] = NoSite
    BY <1>0, <1>1, <2>2, AttachKnows
  <2>4. link \in [Programs -> [Entries -> SiteRange]] /\ s # NoSite
    BY <1>0, TableParts, ProgramManagerAssumption DEF ProgramManagerAssumption, Sites
  <2>5. \A p \in Slots : link'[p[1]][p[2]] = IF p = <<id, e>> THEN s ELSE link[p[1]][p[2]]
    BY <1>3, <2>2, <2>4, SlotPair
  <2>6. <<id, e>> \in Slots /\ <<id, e>>[1] = id /\ <<id, e>>[2] = e  BY DEF Slots
  <2>7. Hooks' = Hooks \union {<<id, e, a>>}
    <3>1. \A h : h \in Hooks' <=>
            \E p \in Slots : link'[p[1]][p[2]] # NoSite /\ h = <<p[1], p[2], address[p[1]][p[2]]>>
      BY <1>1 DEF Hooks
    <3>2. ASSUME NEW h, h \in Hooks' PROVE h \in Hooks \union {<<id, e, a>>}
      <4>1. PICK p \in Slots : link'[p[1]][p[2]] # NoSite /\ h = <<p[1], p[2], address[p[1]][p[2]]>>
        BY <3>1, <3>2
      <4>2. CASE p = <<id, e>>  BY <2>2, <4>1, <4>2
      <4>3. CASE p # <<id, e>>  BY <2>5, <4>1, <4>3, HookElements
      <4> QED BY <4>2, <4>3
    <3>3. ASSUME NEW h \in Hooks PROVE h \in Hooks'
      <4>1. PICK p \in Slots : link[p[1]][p[2]] # NoSite /\ h = <<p[1], p[2], address[p[1]][p[2]]>>
        BY HookElements
      <4>2. link'[p[1]][p[2]] # NoSite  BY <2>4, <2>5, <4>1
      <4> QED BY <3>1, <4>1, <4>2
    <3>4. <<id, e, a>> \in Hooks'
      <4>1. link'[<<id, e>>[1]][<<id, e>>[2]] # NoSite  BY <2>4, <2>5, <2>6
      <4> QED BY <2>2, <2>6, <3>1, <4>1
    <3> QED BY <3>2, <3>3, <3>4
  <2>8. \A h \in Hooks : ~(h[1] = id /\ h[2] = e)
    BY <2>3, HookElements
  <2>9. id \in Published /\ UNCHANGED <<Published, Safe>>  BY <1>1, <2>3 DEF Published, Safe
  <2> QED BY <1>1, <2>7, <2>8, <2>9, CallsSame, AttachStep
<1>4. \/ UNCHANGED link
      \/ \E s \in Sites : link' = [link EXCEPT ![req.id][req.entry] = s]
  <2>1. cpc = "reserve" => cur \in Sites  BY <1>0 DEF Types, ControlTypes
  <2> QED BY <2>1 DEF AttachShare, AttachCheck, AttachPatch, AttachReserve, progVars
<1> QED BY <1>2, <1>3, <1>4

LEMMA UnhookRefines ==
  ASSUME LInv, NEW id \in Programs, NEW e \in Entries, Unhook(id, e),
         UNCHANGED <<instance, mode, tpc, call, address, slot>>
  PROVE  Abstract!Next
<1>0. IInv /\ Types /\ Tables  BY InvTypes DEF LInv
<1>1. \A d \in Programs, f \in Entries :
        link'[d][f] = IF d = id /\ f = e THEN NoSite ELSE link[d][f]
  BY <1>0, UnhookSites
<1>2. link[id][e] # NoSite  BY DEF Unhook
<1>3. \A p \in Slots : link'[p[1]][p[2]] = IF p = <<id, e>> THEN NoSite ELSE link[p[1]][p[2]]
  BY <1>1, SlotPair
<1>4. <<id, e>> \in Slots /\ <<id, e>>[1] = id /\ <<id, e>>[2] = e  BY DEF Slots
<1> DEFINE h == <<id, e, address[id][e]>>
<1>5. h \in Hooks  BY <1>2, <1>4, HookElements
<1>6. \A g : g \in Hooks' <=>
        \E p \in Slots : link'[p[1]][p[2]] # NoSite /\ g = <<p[1], p[2], address[p[1]][p[2]]>>
  BY DEF Hooks
<1>7. Hooks' = Hooks \ {h}
  <2>1. ASSUME NEW g, g \in Hooks' PROVE g \in Hooks /\ g # h
    <3>1. PICK p \in Slots : link'[p[1]][p[2]] # NoSite /\ g = <<p[1], p[2], address[p[1]][p[2]]>>
      BY <1>6, <2>1
    <3>2. p # <<id, e>> /\ link[p[1]][p[2]] # NoSite  BY <1>3, <3>1
    <3> QED BY <3>1, <3>2, HookElements, SlotPair
  <2>2. ASSUME NEW g \in Hooks, g # h PROVE g \in Hooks'
    <3>1. PICK p \in Slots : link[p[1]][p[2]] # NoSite /\ g = <<p[1], p[2], address[p[1]][p[2]]>>
      BY HookElements
    <3>2. p # <<id, e>>  BY <1>4, <2>2, <3>1
    <3>3. link'[p[1]][p[2]] # NoSite  BY <1>3, <3>1, <3>2
    <3> QED BY <1>6, <3>1, <3>3
  <2> QED BY <2>1, <2>2
<1>8. UNCHANGED <<Published, Safe>>  BY DEF Published, Safe
<1> HIDE DEF h
<1> QED BY <1>5, <1>7, <1>8, CallsSame, DetachStep

LEMMA DestroyRefines ==
  ASSUME LInv, RevokeDestroy
  PROVE  Abstract!Next
<1>0. IInv /\ Types /\ Requests /\ Storage  BY InvTypes DEF LInv, Tables
<1>1. cpc = "destroy" /\ UNCHANGED <<mode, tpc, call, address, link>>
  BY DEF RevokeDestroy, thrVars
<1>2. req.id \in Programs  BY <1>0, RequestParts
<1>3. PICK id \in Programs : id = req.id  BY <1>2
<1>4. /\ mode[id] = DISABLE /\ instance[id] # 0
      /\ \A e \in Entries : link[id][e] = NoSite
  BY <1>0, <1>1, <1>3 DEF Requests, RequestPc, RequestCurrent, Operating, Cursor
<1>5. /\ slot \in [Programs -> [Entries -> SlotRecord]] /\ instance \in [Programs -> Instances]
  BY <1>0, TableParts
<1>6. Published' = Published \ {id} /\ id \in Published
  BY <1>3, <1>4, <1>5 DEF RevokeDestroy, Published
<1>7. \A d \in Programs : d # id => slot'[d] = slot[d]
  BY <1>3, <1>5 DEF RevokeDestroy
<1>8. \A e \in Entries : slot'[id][e] = EmptySlot
  <2>1. ~Loading  BY <1>1 DEF Loading
  <2>2. Settled(id)  BY <1>0, <2>1 DEF Storage, Slotted
  <2>3. \A e \in Entries : slot'[id][e] = IF e < count[id] THEN EmptySlot ELSE slot[id][e]
    BY <1>3, <1>5 DEF RevokeDestroy
  <2> QED BY <2>2, <2>3 DEF Settled
<1>9. Safe' = [Safe EXCEPT ![id] = [e \in Entries |-> 0]]
  <2>1. \A d \in Programs, e \in Entries : slot'[d][e].safe = IF d = id THEN 0 ELSE slot[d][e].safe
    <3>1. EmptySlot.safe = 0  BY DEF EmptySlot
    <3> QED BY <1>7, <1>8, <3>1
  <2> QED BY <2>1 DEF Safe
<1>10. \A h \in Hooks : h[1] # id
  BY <1>4, HookElements, SlotPair
<1>11. UNCHANGED Hooks  BY <1>1 DEF Hooks
<1> QED BY <1>1, <1>4, <1>6, <1>9, <1>10, <1>11, CallsSame, RetireStep

LEMMA ControlRefines ==
  ASSUME LInv, LInv', ControlBegin \/ ControlStep \/ Loader
  PROVE  Abstract!Next \/ UNCHANGED Abstract!vars
<1>0. IInv /\ Types  BY InvTypes DEF LInv
<1>1. CASE ControlBegin \/ LockExchange \/ LockReaders \/ Unlock \/ Loader \/ RevokeConfig
  <2>1. UNCHANGED <<tpc, call, instance, mode, link, address, slot>>
    BY <1>1, ZenonT(60) DEF ControlBegin, LoadBegin, ModeBegin, AttachBegin, DetachBegin, RevokeBegin,
                LockExchange, LockReaders, Unlock, Loader, LegacyArmCheck, LegacyArm, LegacyDisarm,
                RevokeConfig, progVars, thrVars
  <2> QED BY <2>1, Stutter
<1>2. CASE (\E v \in SafeValues : LoadPrepare(v)) \/ LoadUnwind  BY <1>2, LoadRefines
<1>3. CASE LoadPublish  BY <1>3, PublishRefines
<1>4. CASE ModeSet \/ RevokeDisable  BY <1>4, ModeRefines
<1>5. CASE AttachShare \/ AttachCheck \/ AttachPatch \/ AttachReserve  BY <1>5, AttachRefines
<1>6. CASE Detach \/ RevokeDetach
  <2>1. UNCHANGED <<instance, mode, tpc, call, address, slot>>
    BY <1>6 DEF Detach, RevokeDetach, thrVars
  <2>2. CASE UNCHANGED link  BY <2>1, <2>2, Stutter
  <2>3. ASSUME NEW e \in Entries, Unhook(req.id, e) PROVE Abstract!Next
    <3>1. PICK id \in Programs : id = req.id  BY <1>0, RequestParts
    <3>2. Unhook(id, e)  BY <2>3, <3>1
    <3> QED BY <2>1, <3>2, UnhookRefines
  <2>4. \/ UNCHANGED link
        \/ \E e \in Entries : Unhook(req.id, e)
    <3>1. CASE Detach
      BY <1>0, <3>1, RequestParts DEF Detach
    <3>2. CASE RevokeDetach
      <4>1. UNCHANGED link \/ (cur < count[req.id] /\ Unhook(req.id, cur))
        BY <3>2 DEF RevokeDetach
      <4>2. cur \in Nat /\ count[req.id] \in 0 .. EntryMax  BY <1>0, RequestParts, TableParts
      <4>3. cur < count[req.id] => cur \in Entries  BY <4>2, Numbers
      <4> QED BY <4>1, <4>3
    <3> QED BY <1>6, <3>1, <3>2
  <2> QED BY <2>2, <2>3, <2>4
<1>7. CASE RevokeDestroy  BY <1>7, DestroyRefines
<1> QED BY <1>1, <1>2, <1>3, <1>4, <1>5, <1>6, <1>7 DEF ControlStep

-----------------------------------------------------------------------------
(* Thread steps.                                                           *)

\* A thread step leaves the programs alone.
LEMMA ThreadPrograms ==
  ASSUME NEW t \in Threads, ThreadStep(t) \/ \E a \in Addresses : Hit(t, a)
  PROVE  UNCHANGED <<Published, mode, Hooks, Safe>>
<1>1. UNCHANGED <<instance, mode, link, address, slot>>
  BY ThreadFrameCtl DEF ctlSide, progVars
<1> QED BY <1>1, ProgramsSame

\* One thread moves: what that does to the three functions of the mapping.
LEMMA ThreadMapping ==
  ASSUME NEW t \in Threads,
         \A u \in Threads : u # t => tpc'[u] = tpc[u] /\ call'[u] = call[u]
  PROVE  /\ Phase' = [Phase EXCEPT ![t] = PhaseOf(t)']
         /\ Func' = [Func EXCEPT ![t] = call'[t].address]
         /\ Outcome' = [Outcome EXCEPT ![t] = OutcomeOf(t)']
<1>1. \A u \in Threads : u # t => PhaseOf(u)' = PhaseOf(u) /\ OutcomeOf(u)' = OutcomeOf(u)
  BY DEF PhaseOf, OutcomeOf
<1>2. Phase' = [u \in Threads |-> PhaseOf(u)']  BY DEF Phase
<1>3. Outcome' = [u \in Threads |-> OutcomeOf(u)']  BY DEF Outcome
<1>4. Func' = [u \in Threads |-> call'[u].address]  BY DEF Func
<1>5. Phase = [u \in Threads |-> PhaseOf(u)] /\ Outcome = [u \in Threads |-> OutcomeOf(u)]
      /\ Func = [u \in Threads |-> call[u].address]
  BY DEF Phase, Outcome, Func
<1> HIDE DEF PhaseOf, OutcomeOf
<1>6. Phase' = [Phase EXCEPT ![t] = PhaseOf(t)']  BY <1>1, <1>2, <1>5
<1>7. Outcome' = [Outcome EXCEPT ![t] = OutcomeOf(t)']  BY <1>1, <1>3, <1>5
<1>8. Func' = [Func EXCEPT ![t] = call'[t].address]  BY <1>4, <1>5
<1> QED BY <1>6, <1>7, <1>8

\* Steps of a call that its caller does not see.
LEMMA SilentThread ==
  ASSUME LInv, NEW t \in Threads,
         \/ DispatchCount(t) \/ DispatchGate(t) \/ DispatchEnter(t) \/ DispatchLoopEnd(t)
         \/ (\E p \in Slots : DispatchRun(t, p))
         \/ (\E ret \in {SAFE_RETURN, FALLTHROUGH} : DispatchReturn(t, ret))
         \/ LegacyCall(t)
  PROVE  UNCHANGED Abstract!vars
<1>0. tpc \in [Threads -> ThreadPc] /\ call \in [Threads -> CallRecord]
  BY DEF LInv, IInv, TypeOK, ThreadTypes
<1>1. \A u \in Threads : u # t => tpc'[u] = tpc[u] /\ call'[u] = call[u]
  BY <1>0 DEF DispatchCount, DispatchGate, DispatchEnter, DispatchLoopEnd, DispatchRun,
              DispatchReturn, LegacyCall
<1>2. \/ /\ tpc[t] \notin Answered \union {"idle"} /\ tpc'[t] \notin Answered \union {"idle"}
      \/ /\ tpc[t] \in Answered /\ tpc'[t] \in Answered /\ call' = call
  BY <1>0 DEF DispatchCount, DispatchGate, DispatchEnter, DispatchLoopEnd, DispatchRun,
              DispatchReturn, LegacyCall, Answered
<1>3. call'[t].address = call[t].address
  <2>1. call[t] \in CallRecord  BY <1>0
  <2>2. CASE call' = call  BY <2>2
  <2>3. CASE DispatchEnter(t)  BY <1>0, <2>3 DEF DispatchEnter, CallRecord
  <2>4. ASSUME NEW p \in Slots, DispatchRun(t, p) PROVE call'[t].address = call[t].address
    <3>1. \E v, m, r : call'[t] = [call[t] EXCEPT !.last = p, !.vm = v, !.mode = m, !.ran = r]
      BY <1>0, <2>4 DEF DispatchRun
    <3> QED BY <2>1, <3>1 DEF CallRecord
  <2>5. ASSUME NEW ret, DispatchReturn(t, ret) PROVE call'[t].address = call[t].address
    <3>1. \/ call'[t] = [call[t] EXCEPT !.vm = 0, !.mode = DISABLE, !.verdict = SAFE_RETURN,
                                        !.safe = site[call[t].site].safe]
          \/ call'[t] = [call[t] EXCEPT !.vm = 0, !.mode = DISABLE]
      BY <1>0, <2>5 DEF DispatchReturn
    <3> QED BY <2>1, <3>1 DEF CallRecord
  <2> QED BY <2>2, <2>3, <2>4, <2>5 DEF DispatchCount, DispatchGate, DispatchLoopEnd, LegacyCall
<1>4. PhaseOf(t)' = PhaseOf(t) /\ OutcomeOf(t)' = OutcomeOf(t)
  <2>1. "idle" \notin Answered  BY DEF Answered
  <2> QED BY <1>2, <2>1 DEF PhaseOf, OutcomeOf
<1>5. UNCHANGED <<Phase, Func, Outcome>>
  <2>1. \A u \in Threads : PhaseOf(u)' = PhaseOf(u) /\ OutcomeOf(u)' = OutcomeOf(u)
                           /\ call'[u].address = call[u].address
    BY <1>1, <1>3, <1>4 DEF PhaseOf, OutcomeOf
  <2> QED BY <2>1 DEF Phase, Func, Outcome
<1>6. UNCHANGED <<Published, mode, Hooks, Safe>>  BY ThreadPrograms DEF ThreadStep
<1> QED BY <1>5, <1>6 DEF Abstract!vars, Published, Hooks, Safe, Phase, PhaseOf, Func, Outcome, OutcomeOf

LEMMA HitRefines ==
  ASSUME LInv, NEW t \in Threads, NEW a \in Addresses, Hit(t, a)
  PROVE  Abstract!Next
<1>0. tpc \in [Threads -> ThreadPc] /\ call \in [Threads -> CallRecord]
  BY DEF LInv, IInv, TypeOK, ThreadTypes
<1>1. \A u \in Threads : u # t => tpc'[u] = tpc[u] /\ call'[u] = call[u]
  BY <1>0 DEF Hit
<1>2. tpc[t] = "idle" /\ tpc'[t] = "tramp"  BY <1>0 DEF Hit
<1>3. call'[t].address = a  BY <1>0 DEF Hit, NoCall
<1>4. Phase[t] = "idle" /\ PhaseOf(t)' = "called" /\ OutcomeOf(t)' = OutcomeOf(t) /\ Outcome[t] = OutcomeOf(t)
  BY <1>2 DEF Phase, PhaseOf, Outcome, OutcomeOf, Answered
<1>5. /\ Phase' = [Phase EXCEPT ![t] = "called"] /\ Func' = [Func EXCEPT ![t] = a]
  BY <1>1, <1>3, <1>4, ThreadMapping
<1>6. UNCHANGED Outcome
  <2>1. \A u \in Threads : OutcomeOf(u)' = OutcomeOf(u)
    BY <1>1, <1>4 DEF OutcomeOf
  <2> QED BY <2>1 DEF Outcome
<1> QED BY <1>4, <1>5, <1>6, ThreadPrograms, CallStep

LEMMA ResumeRefines ==
  ASSUME LInv, NEW t \in Threads, Resume(t)
  PROVE  Abstract!Next
<1>0. tpc \in [Threads -> ThreadPc] /\ call \in [Threads -> CallRecord]
  BY DEF LInv, IInv, TypeOK, ThreadTypes
<1>1. \A u \in Threads : u # t => tpc'[u] = tpc[u] /\ call'[u] = call[u]
  BY <1>0 DEF Resume
<1>2. tpc[t] = "done" /\ tpc'[t] = "idle" /\ call'[t].address = NoAddress
  BY <1>0 DEF Resume, NoCall
<1>3. /\ Phase[t] = "answered" /\ PhaseOf(t)' = "idle"
      /\ OutcomeOf(t)' = [ran |-> {}, suppressed |-> FALSE, value |-> 0]
  BY <1>2 DEF Phase, PhaseOf, OutcomeOf, Answered
<1>4. /\ Phase' = [Phase EXCEPT ![t] = "idle"] /\ Func' = [Func EXCEPT ![t] = NoAddress]
      /\ Outcome' = [Outcome EXCEPT ![t] = [ran |-> {}, suppressed |-> FALSE, value |-> 0]]
  BY <1>1, <1>2, <1>3, ThreadMapping
<1> QED BY <1>3, <1>4, ThreadPrograms, ResumeStep DEF ThreadStep

\* The entries a site's dispatch loop calls are those due for its function.
LEMMA AttachedIsDue ==
  ASSUME LInv, NEW s \in Sites, NEW q \in Slots, Attached(q, s)
  PROVE  {p \in Slots : Attached(p, s)} = Due(site[s].address)
<1>0. /\ IInv /\ Types /\ Storage /\ UsersExact /\ LinkAgrees /\ OneSite
  BY InvTypes DEF LInv, Tables, SiteLinks
<1>1. s # NoSite /\ link \in [Programs -> [Entries -> SiteRange]]
  BY <1>0, TableParts, ProgramManagerAssumption DEF ProgramManagerAssumption, Sites
<1>2. site[s].users # 0  BY <1>0, UsersWitness DEF Attached
<1> DEFINE a == site[s].address
<1>3. \A p : p \in Due(a) <=> \E h \in Hooks : h[3] = a /\ mode[h[1]] # DISABLE /\ p = <<h[1], h[2]>>
  BY DEF Due
<1>4. ASSUME NEW p \in Slots, Attached(p, s) PROVE p \in Due(a)
  <2>1. link[p[1]][p[2]] = s /\ mode[p[1]] # DISABLE  BY <1>4 DEF Attached
  <2>2. address[p[1]][p[2]] = a  BY <1>0, <1>1, <2>1 DEF LinkAgrees
  <2> DEFINE h == <<p[1], p[2], address[p[1]][p[2]]>>
  <2>3. h \in Hooks  BY <1>1, <2>1, HookElements
  <2>4. h[1] = p[1] /\ h[2] = p[2] /\ h[3] = address[p[1]][p[2]]  OBVIOUS
  <2> HIDE DEF h
  <2> QED BY <1>3, <2>1, <2>2, <2>3, <2>4, SlotPair
<1>5. ASSUME NEW p, p \in Due(a) PROVE p \in Slots /\ Attached(p, s)
  <2>1. PICK h \in Hooks : h[3] = a /\ mode[h[1]] # DISABLE /\ p = <<h[1], h[2]>>  BY <1>3, <1>5
  <2>2. PICK r \in Slots : link[r[1]][r[2]] # NoSite /\ h = <<r[1], r[2], address[r[1]][r[2]]>>
    BY HookElements
  <2>3. p = r /\ address[p[1]][p[2]] = a /\ mode[p[1]] # DISABLE  BY <2>1, <2>2, SlotPair
  <2>4. p \in Slots /\ p[1] \in Programs /\ p[2] \in Entries  BY <2>3, SlotPair
  <2>5. PICK x \in Sites : x = link[p[1]][p[2]]  BY <1>1, <2>2, <2>3, <2>4 DEF SiteRange
  <2>6. site[x].address = a  BY <1>0, <2>2, <2>3, <2>4, <2>5 DEF LinkAgrees
  <2>7. site[x].users # 0  BY <1>0, <2>4, <2>5, UsersWitness
  <2>8. x = s  BY <1>0, <1>2, <2>6, <2>7 DEF OneSite
  <2>9. instance[p[1]] # 0 /\ p[2] < count[p[1]]
    BY <1>0, <2>2, <2>3, <2>4 DEF Storage, LinkedIsPublished
  <2> QED BY <2>3, <2>4, <2>5, <2>8, <2>9 DEF Attached
<1> QED BY <1>4, <1>5

\* The outcome of a call shows when the dispatch gives back its reader count.
LEMMA AnswerRefines ==
  ASSUME LInv, NEW t \in Threads, DispatchBusy(t) \/ DispatchLeave(t)
  PROVE  Abstract!Next
<1>0. /\ Types /\ CallInv(t) /\ Justified(t)
      /\ tpc \in [Threads -> ThreadPc] /\ call \in [Threads -> CallRecord]
  BY InvTypes, CallParts DEF LInv, Types, ThreadTypes
<1>1. /\ \A u \in Threads : u # t => tpc'[u] = tpc[u] /\ call'[u] = call[u]
      /\ call' = call /\ tpc[t] \in {"busy", "leave"} /\ tpc'[t] \in Answered
  BY <1>0 DEF DispatchBusy, DispatchLeave, Answered
<1>2. call[t].site \in Sites /\ call[t].ran \subseteq Slots /\ call[t].safe \in SafeValues \union {0}
  BY <1>0, <1>1 DEF Types, ThreadTypes, CallRecord, SafeRange
<1> DEFINE sup == call[t].verdict = SAFE_RETURN
<1>3. /\ Phase[t] = "called" /\ PhaseOf(t)' = "answered"
  BY <1>1 DEF Phase, PhaseOf, Answered
<1>4. OutcomeOf(t)' = [ran |-> call[t].ran, suppressed |-> sup, value |-> call[t].safe]
  BY <1>1 DEF OutcomeOf
<1>5. /\ Phase' = [Phase EXCEPT ![t] = "answered"]
      /\ Outcome' = [Outcome EXCEPT ![t] = [ran |-> call[t].ran, suppressed |-> sup, value |-> call[t].safe]]
  BY <1>1, <1>3, <1>4, ThreadMapping
<1>6. UNCHANGED Func  BY <1>1 DEF Func
<1>7. Func[t] = call[t].address  BY DEF Func
<1>8. call[t].ran \in {{}, Due(Func[t])}
  <2>1. CASE call[t].ran = {}  BY <2>1
  <2>2. CASE call[t].ran # {}
    <3>1. tpc[t] = "leave"  BY <1>0, <1>1, <2>2 DEF CallInv
    <3>2. site[call[t].site].address = call[t].address /\ call[t].ran = AllAttached(t)
      BY <1>0, <2>2, <3>1 DEF CallInv
    <3>3. PICK q \in Slots : Attached(q, call[t].site)  BY <2>2, <3>2 DEF AllAttached
    <3>4. PICK s \in Sites : s = call[t].site  BY <1>2
    <3>5. {p \in Slots : Attached(p, s)} = Due(site[s].address)
      BY <3>3, <3>4, AttachedIsDue
    <3> QED BY <1>7, <3>2, <3>4, <3>5 DEF AllAttached
  <2> QED BY <2>1, <2>2
<1>9. sup => \E p \in call[t].ran : mode[p[1]] = ENFORCE /\ Safe[p[1]][p[2]] = call[t].safe
  <2> SUFFICES ASSUME sup
               PROVE  \E p \in call[t].ran : mode[p[1]] = ENFORCE /\ Safe[p[1]][p[2]] = call[t].safe
    OBVIOUS
  <2>1. tpc[t] \in Inside
    BY <1>0, <1>1 DEF CallInv, Inside, FALLTHROUGH, SAFE_RETURN
  <2>2. PICK p \in call[t].ran : mode[p[1]] = ENFORCE /\ slot[p[1]][p[2]].safe = call[t].safe
    BY <1>0, <2>1 DEF Justified
  <2>3. p[1] \in Programs /\ p[2] \in Entries  BY <1>2, SlotPair
  <2>4. Safe[p[1]][p[2]] = slot[p[1]][p[2]].safe  BY <2>3 DEF Safe
  <2> QED BY <2>2, <2>4
<1>10. PICK r \in {{}, Due(Func[t])}, b \in BOOLEAN, v \in SafeValues \union {0} :
         r = call[t].ran /\ b = sup /\ v = call[t].safe
  BY <1>2, <1>8
<1> HIDE DEF sup
<1> QED BY <1>3, <1>5, <1>6, <1>9, <1>10, ThreadPrograms, AnswerStep DEF ThreadStep

-----------------------------------------------------------------------------
(* Every step of the manager is a step of the contract, or none.           *)

LEMMA RefinesNext == LInv /\ LInv' /\ [Next]_vars => [Abstract!Next]_(Abstract!vars)
<1> SUFFICES ASSUME LInv, LInv', [Next]_vars
             PROVE  Abstract!Next \/ UNCHANGED Abstract!vars
  OBVIOUS
<1>1. CASE ControlBegin \/ ControlStep \/ Loader  BY <1>1, ControlRefines
<1>2. ASSUME NEW t \in Threads, ThreadStep(t) PROVE Abstract!Next \/ UNCHANGED Abstract!vars
  BY <1>2, SilentThread, AnswerRefines, ResumeRefines DEF ThreadStep
<1>3. ASSUME NEW t \in Threads, NEW a \in Addresses, Hit(t, a) PROVE Abstract!Next
  BY <1>3, HitRefines
<1>4. CASE UNCHANGED vars
  <2>1. UNCHANGED <<tpc, call, instance, mode, link, address, slot>>
    BY <1>4 DEF vars, progVars, thrVars
  <2> QED BY <2>1, Stutter
<1> QED BY <1>1, <1>2, <1>3, <1>4 DEF Next

\* ls_program_impl.h keeps the contract of PROGRAMS.md: whatever operations and
\* calls overlap, a hooked call runs every enabled entry attached to its
\* function or none, suppresses the body only for an ENFORCE program it ran, and
\* a program is reclaimed only disabled and detached.
THEOREM ManagerKeepsContract == Spec => AtomicCalls
<1>1. Init => Abstract!Init  BY RefinesInit
<1>2. LInv /\ LInv' /\ [Next]_vars => [Abstract!Next]_(Abstract!vars)  BY RefinesNext
<1> QED BY <1>1, <1>2, TablesInvariance, PTL DEF Spec, AtomicCalls, Abstract!Spec
=============================================================================
