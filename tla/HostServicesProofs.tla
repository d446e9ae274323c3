------------------------- MODULE HostServicesProofs -------------------------
(***************************************************************************)
(* Theorems about the parts of HostServices, for every value of the        *)
(* constants.                                                              *)
(***************************************************************************)
EXTENDS HostServices, SequenceLemmas, FiniteSetTheorems, TLAPS

-----------------------------------------------------------------------------
(* Settings *)

\* What the handler of a client may hold.
Patches == [at : {"write", "writing", "rename", "assign"}, field : Fields, next : Settings!Configs]

\* What it leaves in the pool.
Jobs == [at : {"write", "writing", "rename", "in place"}, next : Settings!Configs]

\* A handler patches the configuration in force, in one field, and has written
\* the temporary file before it renames it.
PatchSound(r) ==
    /\ r.next = [cfg EXCEPT ![r.field] = r.next[r.field]]
    /\ ~ dropped => /\ r.at = "rename" => tmp = r.next
                    /\ file = IF r.at = "assign" THEN r.next ELSE cfg

\* One handler at a time has the lock; without dropped handlers, config.toml
\* is what is in force when none has.
SettingsInv ==
    /\ cfg \in Settings!Configs /\ acked = cfg
    /\ {file, tmp} \subseteq Settings!Configs \cup {Torn}
    /\ request \in [Clients -> Patches \cup {Settings!NoRequest}]
    /\ \A c \in Clients : request[c] # Settings!NoRequest =>
          /\ PatchSound(request[c])
          /\ \A d \in Clients \ {c} : request[d] = Settings!NoRequest
    /\ orphans \subseteq Jobs
    /\ ~ dropped =>
          /\ orphans = {}
          /\ (\A c \in Clients : request[c] = Settings!NoRequest) => file = cfg

LEMMA NoPatch == Settings!NoRequest \notin Patches /\ Settings!NoRequest.at = "none"
BY DEF Settings!NoRequest, Patches

LEMMA SettingsInit == Init => SettingsInv
BY InstancesAssumption
   DEF Init, Settings!Init, SettingsInv, Settings!Configs, Settings!SettingsAssumption

\* A step of the only handler, to r.
LEMMA HandlerGoes ==
    ASSUME SettingsInv, NEW c \in Clients, NEW r \in Patches \cup {Settings!NoRequest},
           \A d \in Clients \ {c} : request[d] = Settings!NoRequest,
           Settings!Goes(c, r)
    PROVE  /\ request' \in [Clients -> Patches \cup {Settings!NoRequest}]
           /\ request'[c] = r
           /\ \A d \in Clients \ {c} : request'[d] = Settings!NoRequest
BY DEF SettingsInv, Settings!Goes

LEMMA SettingsStep == SettingsInv /\ Settings!Next => SettingsInv'
<1> SUFFICES ASSUME SettingsInv, Settings!Next PROVE SettingsInv'
  OBVIOUS
<1>1. ASSUME NEW c \in Clients, Settings!Patch(c) PROVE SettingsInv'
  <2>1. PICK f \in Fields, v \in Values : Settings!Goes(c, Settings!Request(cfg, f, v))
    BY <1>1 DEF Settings!Patch, Settings!Cloned
  <2>2. \A d \in Clients : request[d] = Settings!NoRequest
    BY <1>1, NoPatch
       DEF Settings!Patch, Settings!Cloned, Settings!Locked, SettingsInv, Patches
  <2> DEFINE r == Settings!Request(cfg, f, v)
  <2>3. r \in Patches /\ r.at = "write" /\ r.next = [cfg EXCEPT ![r.field] = r.next[r.field]]
    BY DEF Settings!Request, Patches, SettingsInv, Settings!Configs
  <2> HIDE DEF r
  <2>4. /\ request' \in [Clients -> Patches \cup {Settings!NoRequest}]
        /\ request'[c] = r
        /\ \A d \in Clients \ {c} : request'[d] = Settings!NoRequest
    BY <2>1, <2>2, <2>3, HandlerGoes DEF r
  <2> QED
    BY <1>1, <2>2, <2>3, <2>4 DEF Settings!Patch, SettingsInv, PatchSound
<1>2. ASSUME NEW c \in Clients, NEW r \in Patches \cup {Settings!NoRequest},
             request[c] \in Patches, Settings!Goes(c, r),
             r \in Patches => r.next = request[c].next /\ r.field = request[c].field,
             UNCHANGED <<cfg, acked>>,
             {file', tmp'} \subseteq {file, tmp, request[c].next, Torn},
             orphans' \subseteq Jobs,
             dropped' \/ /\ dropped' = dropped
                         /\ orphans' = {} \/ orphans # {}
                         /\ r.at = "rename" => tmp' = r.next
                         /\ file' = IF r.at = "assign" THEN r.next ELSE file
                         /\ request[c].at # "assign"
      PROVE  SettingsInv'
  <2>1. request[c] # Settings!NoRequest
    BY <1>2, NoPatch
  <2>2. \A d \in Clients \ {c} : request[d] = Settings!NoRequest
    BY <2>1 DEF SettingsInv
  <2>3. /\ request' \in [Clients -> Patches \cup {Settings!NoRequest}]
        /\ request'[c] = r
        /\ \A d \in Clients \ {c} : request'[d] = Settings!NoRequest
    BY <1>2, <2>2, HandlerGoes
  <2>4. request[c].next \in Settings!Configs /\ PatchSound(request[c])
    BY <1>2, <2>1 DEF SettingsInv, Patches
  <2>5. r \in Patches => PatchSound(r)'
    BY <1>2, <2>1, <2>4 DEF PatchSound, SettingsInv
  <2>6. {file', tmp'} \subseteq Settings!Configs \cup {Torn}
    BY <1>2, <2>4 DEF SettingsInv
  <2>7. ~ dropped' => /\ orphans' = {}
                      /\ r = Settings!NoRequest => file' = cfg'
    BY <1>2, <2>4, NoPatch DEF SettingsInv, PatchSound
  <2> QED
    BY <1>2, <2>3, <2>5, <2>6, <2>7, NoPatch DEF SettingsInv
<1>3. ASSUME NEW c \in Clients, request[c].at # "none" PROVE request[c] \in Patches
  BY <1>3, NoPatch DEF SettingsInv
<1>4. ASSUME NEW c \in Clients, Settings!OpenTmp(c) PROVE SettingsInv'
  <2>1. request[c] \in Patches /\ request[c].at = "write"
    BY <1>3, <1>4 DEF Settings!OpenTmp
  <2>2. [request[c] EXCEPT !.at = "writing"] \in Patches
    BY <2>1 DEF Patches
  <2> QED
    BY <1>2, <1>4, <2>1, <2>2, NoPatch DEF Settings!OpenTmp, SettingsInv, Patches
<1>5. ASSUME NEW c \in Clients, Settings!WriteTmp(c) PROVE SettingsInv'
  <2>1. request[c] \in Patches /\ request[c].at = "writing"
    BY <1>3, <1>5 DEF Settings!WriteTmp
  <2>2. [request[c] EXCEPT !.at = "rename"] \in Patches
    BY <2>1 DEF Patches
  <2> QED
    BY <1>2, <1>5, <2>1, <2>2, NoPatch DEF Settings!WriteTmp, SettingsInv, Patches
<1>6. ASSUME NEW c \in Clients, Settings!RenameTmp(c) PROVE SettingsInv'
  <2>1. request[c] \in Patches /\ request[c].at = "rename"
    BY <1>3, <1>6 DEF Settings!RenameTmp
  <2>2. [request[c] EXCEPT !.at = "assign"] \in Patches
    BY <2>1 DEF Patches
  <2>3. Settings!Renamed \subseteq Jobs
    BY DEF Settings!Renamed, SettingsInv, Jobs
  <2>4. ~ dropped => tmp = request[c].next /\ Settings!Renamed = {}
    BY <2>1, NoPatch DEF SettingsInv, PatchSound, Settings!Renamed
  <2> QED
    BY <1>2, <1>6, <2>1, <2>2, <2>3, <2>4, NoPatch DEF Settings!RenameTmp, SettingsInv, Patches
<1>7. ASSUME NEW c \in Clients, Settings!Acknowledge(c) PROVE SettingsInv'
  <2>1. request[c] \in Patches /\ request[c].at = "assign"
    BY <1>3, <1>7 DEF Settings!Acknowledge
  <2>2. PatchSound(request[c]) /\ \A d \in Clients \ {c} : request[d] = Settings!NoRequest
    BY <2>1, NoPatch DEF SettingsInv
  <2>3. request' = [d \in Clients |-> Settings!NoRequest]
    BY <1>7, <2>2 DEF Settings!Acknowledge, Settings!Goes, SettingsInv
  <2>4. cfg' = request[c].next /\ acked' = cfg' /\ cfg' \in Settings!Configs
    BY <1>7, <2>1, <2>2 DEF Settings!Acknowledge, SettingsInv, PatchSound, Patches
  <2>5. ~ dropped => file = cfg'
    BY <2>1, <2>2, <2>4 DEF PatchSound
  <2> QED
    BY <1>7, <2>3, <2>4, <2>5 DEF Settings!Acknowledge, SettingsInv
<1>8. ASSUME NEW c \in Clients, Settings!Drop(c) PROVE SettingsInv'
  <2>1. request[c] \in Patches
    BY <1>3, <1>8 DEF Settings!Drop
  <2>2. request[c].at # "assign" => Settings!Job(request[c].at, request[c].next) \in Jobs
    BY <2>1 DEF Settings!Job, Jobs, Patches
  <2> QED
    BY <1>2, <1>8, <2>1, <2>2, NoPatch DEF Settings!Drop, SettingsInv
<1>9. ASSUME NEW j \in orphans, Settings!RunOrphan(j) PROVE SettingsInv'
  <2>1. dropped /\ UNCHANGED <<cfg, request, acked, dropped>>
    BY <1>9 DEF SettingsInv, Settings!RunOrphan
  <2>2. j.next \in Settings!Configs /\ Settings!Job("writing", j.next) \in Jobs
    BY DEF SettingsInv, Settings!Job, Jobs
  <2>3. orphans' \subseteq Jobs /\ {file', tmp'} \subseteq {file, tmp, j.next, Torn}
    BY <1>9, <2>2 DEF Settings!RunOrphan
  <2> QED
    BY <2>1, <2>2, <2>3 DEF SettingsInv, PatchSound
<1>10. CASE Settings!Restart
  BY <1>10 DEF Settings!Restart, SettingsInv
<1> QED
  BY <1>1, <1>4, <1>5, <1>6, <1>7, <1>8, <1>9, <1>10 DEF Settings!Next

\* A patch that was answered is in force together with those of other clients, and
\* in config.toml, as long as no client went away during a patch.
THEOREM PatchesAreKept == Spec => []PatchesLast
<1>1. SettingsInv /\ [Next]_vars => SettingsInv'
  <2>1. SettingsInv /\ UNCHANGED settings => SettingsInv'
    BY DEF SettingsInv, PatchSound, settings
  <2> QED
    BY <2>1, SettingsStep DEF Next, vars
<1>2. SettingsInv => PatchesLast
  BY NoPatch DEF SettingsInv, PatchSound, PatchesLast, Settings!PatchesLast
<1> QED
  BY <1>1, <1>2, SettingsInit, PTL DEF Spec

-----------------------------------------------------------------------------
(* The transfer pump *)

Leases == [peer : Sources, block : Pump!Blocks, left : Int, spoilt : BOOLEAN]

Downloads == [file : Files \cup {None}, missing : SUBSET Pump!Blocks,
              got : [Pump!Blocks -> Files \cup {None}], leases : SUBSET Leases]

Packets == Pump!Blocks \cup {0}

Visits == [at : {"list", "reserve", "fetch", "ingest"}, part : Parts \cup {0},
           file : Files \cup {None}, peer : Sources \cup {None},
           blocks : SUBSET Pump!Blocks, asked : SUBSET Pump!Blocks, packets : Seq(Packets)]

PumpTypes ==
    /\ downloads \in [Parts -> Downloads]
    /\ todo \subseteq Parts \X Files
    /\ visit \in Visits
    /\ visit.at # "list" => visit.part \in Parts /\ visit.file \in Files /\ visit.peer \in Sources
    /\ visit.at = "reserve" => visit.asked = {} /\ visit.packets = <<>>
    /\ visit.at = "fetch" => visit.blocks # {} /\ (visit.asked # {} => visit.packets # <<>>)
    /\ visit.at = "ingest" => visit.packets # <<>>

\* The answer for a block is in hand.
Answered(b) == \E i \in 1 .. Len(visit.packets) : visit.packets[i] = b

\* The pump still comes to the block: it is yet to be asked for, or the answer is
\* in hand.
Expected(b) ==
    CASE visit.at = "fetch" -> b \in visit.blocks /\ (b \in visit.asked => Answered(b))
      [] visit.at = "ingest" -> Answered(b)
      [] OTHER -> FALSE

\* The leases are those the pump still comes to, and those whose step failed.
PumpLeases ==
    \A p \in Parts : \A l \in downloads[p].leases :
        \/ l.spoilt
        \/ p = visit.part /\ l.peer = visit.peer /\ Expected(l.block)

PumpInv == PumpTypes /\ PumpLeases /\ OwnBlocksOnly

LEMMA NoDownloadTyped ==
    /\ Pump!NoDownload \in Downloads
    /\ Pump!NoDownload.file = None /\ Pump!NoDownload.leases = {}
    /\ Pump!NoDownload.got = [b \in Pump!Blocks |-> None]
BY DEF Pump!NoDownload, Downloads

LEMMA NoVisitTyped ==
    /\ Pump!NoVisit \in Visits /\ Pump!NoVisit.at = "list"
    /\ Pump!NoVisit.asked = {} /\ Pump!NoVisit.packets = <<>>
BY DEF Pump!NoVisit, Visits

LEMMA PumpInit == Init => PumpInv
BY NoDownloadTyped, NoVisitTyped
   DEF Init, Pump!Init, PumpInv, PumpTypes, PumpLeases, Expected, Answered, OwnBlocksOnly,
          Pump!OwnBlocksOnly,
       Pump!Blocks

\* Leases that are taken leave the file and its blocks alone.
LEMMA LeasedTyped ==
    ASSUME NEW d \in Downloads, NEW peer \in Sources, NEW S \in SUBSET Pump!Blocks,
           NEW v \in BOOLEAN
    PROVE  LET e == Pump!Leased(d, peer, S, v)
           IN  /\ e \in Downloads /\ e.file = d.file /\ e.got = d.got
               /\ \A l \in e.leases \ d.leases : l.peer = peer /\ l.block \in S /\ l.spoilt = v
<1> DEFINE new == {Pump!Lease(peer, b, v) : b \in S}
<1>1. new \subseteq Leases /\ \A l \in new : l.peer = peer /\ l.block \in S /\ l.spoilt = v
  BY InstancesAssumption DEF Pump!Lease, Leases, Pump!Blocks, Pump!PumpAssumption
<1>2. Pump!Leased(d, peer, S, v) = [d EXCEPT !.missing = @ \ S, !.leases = @ \cup new]
  BY DEF Pump!Leased
<1> HIDE DEF new
<1> QED
  BY <1>1, <1>2 DEF Downloads

\* So do leases that are spoilt, and nothing else happens to them.
LEMMA SpoiltTyped ==
    ASSUME NEW d \in Downloads, NEW b
    PROVE  LET e == Pump!Spoilt(d, b)
           IN  /\ e \in Downloads /\ e.file = d.file /\ e.got = d.got
               /\ \A l \in e.leases : \E m \in d.leases :
                     /\ l.peer = m.peer /\ l.block = m.block
                     /\ ~ l.spoilt => ~ m.spoilt /\ ~ (m.peer = visit.peer /\ m.block = b)
<1> DEFINE marked(l) == [l EXCEPT !.spoilt = @ \/ (l.peer = visit.peer /\ l.block = b)]
           new == {marked(l) : l \in d.leases}
<1>1. ASSUME NEW l \in d.leases
      PROVE  /\ marked(l) \in Leases
             /\ marked(l).peer = l.peer /\ marked(l).block = l.block
             /\ ~ marked(l).spoilt => ~ l.spoilt /\ ~ (l.peer = visit.peer /\ l.block = b)
  <2>1. l \in Leases /\ l.spoilt \in BOOLEAN
    BY DEF Downloads, Leases
  <2>2. (l.spoilt \/ (l.peer = visit.peer /\ l.block = b)) \in BOOLEAN
    OBVIOUS
  <2> QED
    BY <2>1, <2>2 DEF Leases
<1> HIDE DEF marked
<1>2. new \subseteq Leases /\ \A l \in new : \E m \in d.leases : l = marked(m)
  BY <1>1
<1>3. Pump!Spoilt(d, b) = [d EXCEPT !.leases = new]
  BY DEF Pump!Spoilt, marked
<1> HIDE DEF new
<1>4. [d EXCEPT !.leases = new] \in Downloads /\ [d EXCEPT !.leases = new].leases = new
  BY <1>2 DEF Downloads
<1> QED
  BY <1>1, <1>2, <1>3, <1>4 DEF Downloads

\* Leases that are given back leave the file and its blocks alone.
LEMMA ReleasedTyped ==
    ASSUME NEW d \in Downloads, NEW gone \in SUBSET Leases
    PROVE  /\ Pump!Released(d, gone) \in Downloads
           /\ Pump!Released(d, gone).file = d.file
           /\ Pump!Released(d, gone).got = d.got
           /\ Pump!Released(d, gone).leases = d.leases \ gone
<1>1. {l.block : l \in gone} \subseteq Pump!Blocks
  BY DEF Leases
<1> QED
  BY <1>1 DEF Pump!Released, Downloads

LEMMA PumpStep == PumpInv /\ Pump!Next => PumpInv'
<1> SUFFICES ASSUME PumpInv, Pump!Next PROVE PumpInv'
  OBVIOUS
<1> USE DEF PumpInv
<1>1. ASSUME NEW p \in Parts, NEW f \in Files, Pump!CreateDownload(p, f) PROVE PumpInv'
  <2> DEFINE d == [Pump!NoDownload EXCEPT !.file = f, !.missing = Pump!Blocks]
  <2>1. /\ d \in Downloads /\ d.file = f /\ d.leases = {}
        /\ d.got = [b \in Pump!Blocks |-> None]
    BY NoDownloadTyped DEF Downloads
  <2>2. downloads' = [downloads EXCEPT ![p] = d] /\ UNCHANGED <<todo, visit, waited>>
    BY <1>1 DEF Pump!CreateDownload
  <2> HIDE DEF d
  <2> QED
    BY <2>1, <2>2 DEF PumpTypes, PumpLeases, Expected, Answered, OwnBlocksOnly,
          Pump!OwnBlocksOnly
<1>2. ASSUME NEW p \in Parts, Pump!DeleteDownload(p) PROVE PumpInv'
  BY <1>2, NoDownloadTyped
     DEF Pump!DeleteDownload, PumpTypes, PumpLeases, Expected, Answered, OwnBlocksOnly,
          Pump!OwnBlocksOnly
<1>3. CASE Pump!Tick
  <2> DEFINE aged(p) == [downloads[p] EXCEPT !.leases = {[l EXCEPT !.left = @ - 1] : l \in @}]
             gone(p) == {l \in aged(p).leases : l.left = 0}
  <2>1. ASSUME NEW p \in Parts
        PROVE  /\ aged(p) \in Downloads
               /\ aged(p).file = downloads[p].file
               /\ aged(p).got = downloads[p].got
               /\ \A l \in aged(p).leases : \E m \in downloads[p].leases :
                     l.peer = m.peer /\ l.block = m.block /\ l.spoilt = m.spoilt
    <3>1. downloads[p] \in Downloads
      BY DEF PumpTypes
    <3>2. \A l \in downloads[p].leases :
             /\ [l EXCEPT !.left = @ - 1] \in Leases
             /\ [l EXCEPT !.left = @ - 1].peer = l.peer
             /\ [l EXCEPT !.left = @ - 1].block = l.block
             /\ [l EXCEPT !.left = @ - 1].spoilt = l.spoilt
      BY <3>1 DEF Downloads, Leases
    <3> DEFINE later == {[l EXCEPT !.left = @ - 1] : l \in downloads[p].leases}
    <3>3. /\ later \subseteq Leases
          /\ \A l \in later : \E m \in downloads[p].leases :
                l.peer = m.peer /\ l.block = m.block /\ l.spoilt = m.spoilt
      BY <3>2
    <3>4. aged(p) = [downloads[p] EXCEPT !.leases = later]
      OBVIOUS
    <3> HIDE DEF later, aged
    <3> QED
      BY <3>1, <3>3, <3>4 DEF Downloads
  <2>2. /\ downloads' = [p \in Parts |-> Pump!Released(aged(p), gone(p))]
        /\ UNCHANGED <<todo, visit>>
    BY <1>3 DEF Pump!Tick
  <2>3. ASSUME NEW p \in Parts PROVE gone(p) \in SUBSET Leases
    BY <2>1 DEF Downloads
  <2> HIDE DEF aged, gone
  <2>4. ASSUME NEW p \in Parts
        PROVE  /\ downloads'[p] \in Downloads
               /\ downloads'[p].file = downloads[p].file
               /\ downloads'[p].got = downloads[p].got
               /\ \A l \in downloads'[p].leases : \E m \in downloads[p].leases :
                     l.peer = m.peer /\ l.block = m.block /\ l.spoilt = m.spoilt
    BY <2>1, <2>2, <2>3, ReleasedTyped
  <2> QED
    BY <2>2, <2>4 DEF PumpTypes, PumpLeases, Expected, Answered, OwnBlocksOnly,
          Pump!OwnBlocksOnly
<1>4. CASE Pump!List
  <2>1. {<<p, downloads[p].file>> : p \in {q \in Parts : downloads[q].file # None}}
            \subseteq Parts \X Files
    BY DEF PumpTypes, Downloads
  <2> QED
    BY <1>4, <2>1
       DEF Pump!List, PumpTypes, PumpLeases, Expected, Answered, OwnBlocksOnly,
          Pump!OwnBlocksOnly
<1>5. CASE Pump!Skip
  BY <1>5 DEF Pump!Skip, PumpTypes, PumpLeases, Expected, Answered, OwnBlocksOnly,
          Pump!OwnBlocksOnly
<1>6. ASSUME NEW item \in todo, NEW peer \in Sources, Pump!ChooseSource(item, peer)
      PROVE  PumpInv'
  <2>1. item[1] \in Parts /\ item[2] \in Files
    BY DEF PumpTypes
  <2>2. /\ visit' \in Visits
        /\ visit'.at = "reserve" /\ visit'.part = item[1] /\ visit'.file = item[2]
        /\ visit'.peer = peer /\ visit'.asked = {} /\ visit'.packets = <<>>
    BY <1>6, <2>1, NoVisitTyped DEF Pump!ChooseSource, Pump!Visit, Pump!NoVisit, Visits
  <2>3. todo' \subseteq todo /\ visit.at = "list" /\ UNCHANGED downloads
    BY <1>6 DEF Pump!ChooseSource, Pump!Visit
  <2> QED
    BY <2>1, <2>2, <2>3
       DEF PumpTypes, PumpLeases, Expected, Answered, OwnBlocksOnly,
          Pump!OwnBlocksOnly
<1>7. CASE Pump!Reserve
  <2>1. /\ visit.at = "reserve" /\ visit.part \in Parts /\ visit.peer \in Sources
        /\ visit.asked = {} /\ visit.packets = <<>> /\ visit.file \in Files
        /\ downloads[visit.part] \in Downloads
    BY <1>7 DEF Pump!Reserve, PumpTypes
  <2>2. ASSUME NEW S \in SUBSET Pump!Blocks, S # {}, NEW v \in BOOLEAN,
               visit' = IF v THEN Pump!NoVisit ELSE [visit EXCEPT !.at = "fetch", !.blocks = S],
               downloads' = [downloads EXCEPT
                    ![visit.part] = Pump!Leased(downloads[visit.part], visit.peer, S, v)],
               UNCHANGED todo
        PROVE  PumpInv'
    <3> DEFINE e == Pump!Leased(downloads[visit.part], visit.peer, S, v)
    <3>1. /\ e \in Downloads /\ e.file = downloads[visit.part].file
          /\ e.got = downloads[visit.part].got
          /\ \A l \in e.leases \ downloads[visit.part].leases :
                l.peer = visit.peer /\ l.block \in S /\ l.spoilt = v
      <4>1. PICK d, q : d = downloads[visit.part] /\ q = visit.peer /\ d \in Downloads /\ q \in Sources
        BY <2>1
      <4>2. LET x == Pump!Leased(d, q, S, v)
            IN  /\ x \in Downloads /\ x.file = d.file /\ x.got = d.got
                /\ \A l \in x.leases \ d.leases : l.peer = q /\ l.block \in S /\ l.spoilt = v
        BY <4>1, LeasedTyped
      <4> QED
        BY <4>1, <4>2
    <3>2. downloads' = [downloads EXCEPT ![visit.part] = e]
      BY <2>2
    <3> HIDE DEF e
    <3>3. \A p \in Parts : \A l \in downloads[p].leases : l.spoilt
      BY <2>1 DEF PumpLeases, Expected
    <3>4. /\ visit' \in Visits
          /\ v => visit'.at = "list"
          /\ ~ v => /\ visit'.at = "fetch" /\ visit'.blocks = S /\ visit'.asked = {}
                    /\ visit'.part = visit.part /\ visit'.peer = visit.peer
                    /\ visit'.file = visit.file
      BY <2>1, <2>2, NoVisitTyped DEF PumpTypes, Visits
    <3>5. /\ downloads' \in [Parts -> Downloads] /\ downloads'[visit.part] = e
          /\ \A p \in Parts \ {visit.part} : downloads'[p] = downloads[p]
      BY <2>1, <3>1, <3>2 DEF PumpTypes
    <3>6. PumpTypes'
      BY <2>1, <2>2, <3>4, <3>5 DEF PumpTypes
    <3>7. OwnBlocksOnly'
      BY <3>1, <3>5 DEF OwnBlocksOnly, Pump!OwnBlocksOnly
    <3>8. PumpLeases'
      <4>1. ASSUME NEW p \in Parts, NEW l \in downloads'[p].leases, ~ l.spoilt
            PROVE  ~ v /\ p = visit.part /\ l.peer = visit.peer /\ l.block \in S
        BY <3>1, <3>3, <3>5, <4>1
      <4> QED
        BY <3>4, <4>1 DEF PumpLeases, Expected
    <3> QED
      BY <3>6, <3>7, <3>8
  <2>3. CASE visit' = Pump!NoVisit /\ UNCHANGED <<downloads, todo>>
    BY <2>1, <2>3, NoVisitTyped
       DEF PumpTypes, PumpLeases, Expected, OwnBlocksOnly, Pump!OwnBlocksOnly
  <2>4. \A n : Pump!Lowest(downloads[visit.part], n) \in SUBSET Pump!Blocks
    BY <2>1 DEF Pump!Lowest, Downloads
  <2>5. \/ \E n \in 1 .. MaxReserve :
              LET S == Pump!Lowest(downloads[visit.part], n)
              IN  /\ S # {}
                  /\ \/ /\ visit' = [visit EXCEPT !.at = "fetch", !.blocks = S]
                        /\ downloads' = [downloads EXCEPT ![visit.part] =
                              Pump!Leased(downloads[visit.part], visit.peer, S, FALSE)]
                     \/ /\ visit' = Pump!NoVisit
                        /\ downloads' = [downloads EXCEPT ![visit.part] =
                              Pump!Leased(downloads[visit.part], visit.peer, S, TRUE)]
                  /\ UNCHANGED todo
        \/ visit' = Pump!NoVisit /\ UNCHANGED <<downloads, todo>>
    BY ONLY <1>7, Zenon DEF Pump!Reserve
  <2>6. ASSUME NEW n \in 1 .. MaxReserve, NEW S, S = Pump!Lowest(downloads[visit.part], n),
               S # {}, UNCHANGED todo,
               \/ /\ visit' = [visit EXCEPT !.at = "fetch", !.blocks = S]
                  /\ downloads' = [downloads EXCEPT ![visit.part] =
                        Pump!Leased(downloads[visit.part], visit.peer, S, FALSE)]
               \/ /\ visit' = Pump!NoVisit
                  /\ downloads' = [downloads EXCEPT ![visit.part] =
                        Pump!Leased(downloads[visit.part], visit.peer, S, TRUE)]
        PROVE  PumpInv'
    BY <2>2, <2>4, <2>6
  <2> QED
    BY ONLY <2>3, <2>5, <2>6
<1>8. CASE Pump!FetchBlock
  <2>1. PICK b \in visit.blocks \ visit.asked, c \in Packets :
           /\ visit' = [visit EXCEPT !.asked = @ \cup {b}, !.packets = Append(@, c)]
           /\ IF c = b THEN UNCHANGED downloads
              ELSE downloads' = [downloads EXCEPT
                                    ![visit.part] = Pump!Spoilt(downloads[visit.part], b)]
    BY <1>8 DEF Pump!FetchBlock, Packets
  <2>2. /\ visit.at = "fetch" /\ visit.part \in Parts /\ visit.file \in Files
        /\ visit.peer \in Sources /\ UNCHANGED todo /\ visit.packets \in Seq(Packets)
        /\ visit.blocks # {}
    BY <1>8 DEF Pump!FetchBlock, PumpTypes, Visits
  <2>3. PICK ps, next : /\ ps = visit.packets /\ next = Append(ps, c) /\ ps \in Seq(Packets)
    BY <2>2
  <2>4. /\ next \in Seq(Packets) /\ Len(next) = Len(ps) + 1 /\ next # <<>>
        /\ next[Len(ps) + 1] = c /\ \A i \in 1 .. Len(ps) : next[i] = ps[i]
        /\ Len(ps) \in Nat
    BY <2>3
  <2>5. /\ visit' \in Visits /\ visit'.at = "fetch" /\ visit'.part = visit.part
        /\ visit'.file = visit.file /\ visit'.peer = visit.peer
        /\ visit'.blocks = visit.blocks /\ visit'.asked = visit.asked \cup {b}
        /\ visit'.packets = next
    BY <2>1, <2>2, <2>3, <2>4 DEF PumpTypes, Visits
  <2>6. \A x : Answered(x) => Answered(x)'
    BY <2>3, <2>4, <2>5 DEF Answered
  <2>7. c = b => Answered(b)'
    BY <2>4, <2>5 DEF Answered
  <2>8. ASSUME NEW p \in Parts
        PROVE  /\ downloads'[p] \in Downloads /\ downloads'[p].file = downloads[p].file
               /\ downloads'[p].got = downloads[p].got
               /\ \A l \in downloads'[p].leases : \E m \in downloads[p].leases :
                     /\ l.peer = m.peer /\ l.block = m.block
                     /\ ~ l.spoilt =>
                          /\ ~ m.spoilt
                          /\ p = visit.part /\ c # b => ~ (m.peer = visit.peer /\ m.block = b)
    <3>1. CASE c = b
      BY <2>1, <3>1 DEF PumpTypes
    <3>2. CASE c # b /\ p = visit.part
      <4>1. downloads[p] \in Downloads /\ downloads'[p] = Pump!Spoilt(downloads[p], b)
        BY <2>1, <3>2 DEF PumpTypes
      <4> QED
        BY <3>2, <4>1, SpoiltTyped
    <3>3. CASE c # b /\ p # visit.part
      BY <2>1, <3>3 DEF PumpTypes
    <3> QED
      BY <3>1, <3>2, <3>3
  <2>9. downloads' \in [Parts -> Downloads]
    <3>1. downloads' = [p \in Parts |-> downloads'[p]]
      BY <2>1 DEF PumpTypes
    <3> QED
      BY <2>8, <3>1
  <2>10. PumpTypes'
    BY <2>2, <2>4, <2>5, <2>9 DEF PumpTypes
  <2>11. OwnBlocksOnly'
    BY <2>8 DEF OwnBlocksOnly, Pump!OwnBlocksOnly
  <2>12. PumpLeases'
    <3>1. ASSUME NEW p \in Parts, NEW l \in downloads'[p].leases, ~ l.spoilt
          PROVE  p = visit.part /\ l.peer = visit.peer /\ Expected(l.block)'
      <4>1. PICK m \in downloads[p].leases :
               /\ l.peer = m.peer /\ l.block = m.block /\ ~ m.spoilt
               /\ p = visit.part /\ c # b => ~ (m.peer = visit.peer /\ m.block = b)
        BY <2>8, <3>1
      <4>2. p = visit.part /\ m.peer = visit.peer /\ Expected(m.block)
        BY <4>1 DEF PumpLeases
      <4>3. m.block \in visit.blocks /\ (m.block \in visit.asked => Answered(m.block))
        BY <2>2, <4>2 DEF Expected
      <4>4. m.block = b => c = b
        BY <4>1, <4>2
      <4>5. l.block \in visit'.blocks /\ (l.block \in visit'.asked => Answered(l.block)')
        BY <2>5, <2>6, <2>7, <4>1, <4>3, <4>4
      <4> QED
        BY <2>5, <4>1, <4>2, <4>5 DEF Expected
    <3> QED
      BY <2>5, <3>1 DEF PumpLeases
  <2> QED
    BY <2>10, <2>11, <2>12
<1>9. CASE Pump!Fetched
  <2>1. /\ visit.at = "fetch" /\ visit.asked = visit.blocks
        /\ visit' = [visit EXCEPT !.at = "ingest"] /\ UNCHANGED <<downloads, todo>>
    BY <1>9 DEF Pump!Fetched
  <2>2. /\ visit' \in Visits /\ visit'.at = "ingest" /\ visit'.part = visit.part
        /\ visit'.peer = visit.peer /\ visit'.file = visit.file
        /\ visit'.packets = visit.packets
    BY <2>1 DEF PumpTypes, Visits
  <2>3. PumpTypes'
    BY <2>1, <2>2 DEF PumpTypes
  <2>4. \A b : Expected(b) => Expected(b)'
    BY <2>1, <2>2 DEF Expected, Answered
  <2> QED
    BY <2>1, <2>2, <2>3, <2>4 DEF PumpLeases, OwnBlocksOnly, Pump!OwnBlocksOnly
<1>10. CASE Pump!FetchFails
  <2> DEFINE gone(p) == Pump!GivenBack(downloads[p])
  <2>1. /\ visit.at = "fetch" /\ visit' = Pump!NoVisit /\ UNCHANGED todo
        /\ downloads' = [p \in Parts |-> Pump!Released(downloads[p], gone(p))]
    BY <1>10 DEF Pump!FetchFails
  <2>2. ASSUME NEW p \in Parts
        PROVE  /\ gone(p) \in SUBSET Leases
               /\ \A l \in downloads[p].leases : l.spoilt \/ l \in gone(p)
    BY DEF Pump!GivenBack, PumpTypes, Downloads, PumpLeases
  <2> HIDE DEF gone
  <2>3. ASSUME NEW p \in Parts
        PROVE  /\ downloads'[p] \in Downloads
               /\ downloads'[p].file = downloads[p].file
               /\ downloads'[p].got = downloads[p].got
               /\ \A l \in downloads'[p].leases : l.spoilt
    BY <2>1, <2>2, ReleasedTyped DEF PumpTypes
  <2> QED
    BY <2>1, <2>3, NoVisitTyped
       DEF PumpTypes, PumpLeases, Expected, Answered, OwnBlocksOnly,
          Pump!OwnBlocksOnly
<1>11. CASE Pump!Ingest
  <2>0. PICK d, b, leased, rest :
           /\ d = downloads[visit.part] /\ b = Head(visit.packets)
           /\ leased = {l \in d.leases : l.peer = visit.peer /\ l.block = b}
           /\ rest = Tail(visit.packets)
    OBVIOUS
  <2>1. /\ visit.at = "ingest" /\ visit.part \in Parts /\ visit.file \in Files
        /\ d \in Downloads /\ visit.packets \in Seq(Packets) /\ visit.packets # <<>>
        /\ b \in Packets /\ rest \in Seq(Packets) /\ UNCHANGED todo
    BY <1>11, <2>0 DEF Pump!Ingest, PumpTypes, Visits
  <2>2. /\ \A i \in 1 .. Len(visit.packets) :
              visit.packets[i] = b \/ \E j \in 1 .. Len(rest) : rest[j] = visit.packets[i]
        /\ Len(rest) \in Nat /\ (Len(rest) = 0 <=> rest = <<>>)
    <3>1. PICK ps \in Seq(Packets) : ps = visit.packets /\ ps # <<>>
      BY <2>1
    <3>2. /\ Len(ps) \in Nat \ {0} /\ Head(ps) = ps[1] /\ Len(Tail(ps)) = Len(ps) - 1
          /\ \A j \in 1 .. Len(ps) - 1 : Tail(ps)[j] = ps[j + 1]
          /\ Tail(ps) \in Seq(Packets)
      BY <3>1
    <3>4. Len(Tail(ps)) = 0 <=> Tail(ps) = <<>>
      <4>1. \A q \in Seq(Packets) : (Len(q) = 0) <=> (q = <<>>)
        OBVIOUS
      <4> QED
        BY <3>2, <4>1
    <3>3. ASSUME NEW i \in 1 .. Len(ps)
          PROVE  ps[i] = Head(ps) \/ \E j \in 1 .. Len(Tail(ps)) : Tail(ps)[j] = ps[i]
      <4>1. CASE i = 1
        BY <3>2, <4>1
      <4>2. CASE i # 1
        <5>1. i - 1 \in 1 .. Len(ps) - 1 /\ (i - 1) + 1 = i
          BY <3>2, <4>2
        <5> QED
          BY <3>2, <5>1
      <4> QED
        BY <4>1, <4>2
    <3> QED
      BY <2>0, <3>1, <3>2, <3>3, <3>4
  <2>3. visit' = IF rest = <<>> THEN Pump!NoVisit ELSE [visit EXCEPT !.packets = rest]
    BY <1>11, <2>0 DEF Pump!Ingest
  <2>4. /\ visit' \in Visits
        /\ rest = <<>> => visit'.at = "list"
        /\ rest # <<>> => /\ visit'.at = "ingest" /\ visit'.part = visit.part
                          /\ visit'.file = visit.file /\ visit'.peer = visit.peer
                          /\ visit'.packets = rest
    BY <2>1, <2>3, NoVisitTyped DEF PumpTypes, Visits
  <2>5. \A x : Expected(x) /\ x # b => rest # <<>> /\ Expected(x)'
    <3>1. ASSUME NEW x, Expected(x), x # b
          PROVE  \E j \in 1 .. Len(rest) : rest[j] = x
      BY <2>1, <2>2, <3>1 DEF Expected, Answered
    <3> QED
      BY <2>2, <2>4, <3>1 DEF Expected, Answered
  <2>6. ASSUME NEW e \in Downloads,
               downloads' = [downloads EXCEPT ![visit.part] = e],
               \A c \in Pump!Blocks : e.got[c] \in {None, e.file},
               \A l \in e.leases : \E m \in d.leases :
                  /\ l.peer = m.peer /\ l.block = m.block
                  /\ ~ l.spoilt => ~ m.spoilt /\ ~ (m.peer = visit.peer /\ m.block = b)
        PROVE  PumpInv'
    <3>1. /\ downloads' \in [Parts -> Downloads] /\ downloads'[visit.part] = e
          /\ \A p \in Parts \ {visit.part} : downloads'[p] = downloads[p]
      BY <2>1, <2>6 DEF PumpTypes
    <3>2. PumpTypes'
      BY <2>1, <2>4, <3>1, NoVisitTyped DEF PumpTypes
    <3>3. OwnBlocksOnly'
      BY <2>6, <3>1 DEF OwnBlocksOnly, Pump!OwnBlocksOnly
    <3>4. ASSUME NEW p \in Parts, NEW l \in downloads'[p].leases, ~ l.spoilt
          PROVE  p = visit'.part /\ l.peer = visit'.peer /\ Expected(l.block)'
      <4>1. CASE p # visit.part
        BY <3>1, <3>4, <4>1 DEF PumpLeases
      <4>2. CASE p = visit.part
        <5>1. PICK m \in d.leases :
                 /\ l.peer = m.peer /\ l.block = m.block
                 /\ ~ m.spoilt /\ ~ (m.peer = visit.peer /\ m.block = b)
          BY <2>6, <3>1, <3>4, <4>2
        <5>2. m.peer = visit.peer /\ Expected(m.block)
          BY <2>0, <2>1, <5>1 DEF PumpLeases
        <5> QED
          BY <2>4, <2>5, <4>2, <5>1, <5>2
      <4> QED
        BY <4>1, <4>2
    <3>5. PumpLeases'
      BY <3>4 DEF PumpLeases
    <3> QED
      BY <3>2, <3>3, <3>5
  <2>7. CASE downloads' = [downloads EXCEPT ![visit.part] = Pump!Spoilt(d, b)]
    <3> DEFINE e == Pump!Spoilt(d, b)
    <3>1. /\ e \in Downloads /\ e.file = d.file /\ e.got = d.got
          /\ \A l \in e.leases : \E m \in d.leases :
                /\ l.peer = m.peer /\ l.block = m.block
                /\ ~ l.spoilt => ~ m.spoilt /\ ~ (m.peer = visit.peer /\ m.block = b)
      BY <2>1, SpoiltTyped
    <3> HIDE DEF e
    <3>2. \A c \in Pump!Blocks : e.got[c] \in {None, e.file}
      BY <2>0, <2>1, <3>1 DEF OwnBlocksOnly, Pump!OwnBlocksOnly
    <3>3. downloads' = [downloads EXCEPT ![visit.part] = e]
      BY <2>7 DEF e
    <3> QED
      BY <2>6, <3>1, <3>2, <3>3
  <2>8. CASE /\ b # 0 /\ d.file = visit.file
             /\ downloads' = [downloads EXCEPT ![visit.part] =
                                  [d EXCEPT !.leases = @ \ leased, !.got[b] = visit.file]]
    <3> DEFINE e == [d EXCEPT !.leases = @ \ leased, !.got[b] = visit.file]
    <3>1. /\ e \in Downloads /\ e.file = d.file /\ e.leases = d.leases \ leased
          /\ e.got = [d.got EXCEPT ![b] = visit.file]
      BY <2>1 DEF Downloads
    <3> HIDE DEF e
    <3>2. \A c \in Pump!Blocks : e.got[c] \in {None, e.file}
      BY <2>0, <2>1, <2>8, <3>1 DEF OwnBlocksOnly, Pump!OwnBlocksOnly, Downloads
    <3>3. \A l \in e.leases : l \in d.leases /\ ~ (l.peer = visit.peer /\ l.block = b)
      BY <2>0, <3>1
    <3>4. downloads' = [downloads EXCEPT ![visit.part] = e]
      BY <2>8 DEF e
    <3> QED
      BY <2>6, <3>1, <3>2, <3>3, <3>4
  <2> QED
    BY <1>11, <2>0, <2>7, <2>8 DEF Pump!Ingest, Pump!ForThisFile
<1> QED
  BY <1>1, <1>2, <1>3, <1>4, <1>5, <1>6, <1>7, <1>8, <1>9, <1>10, <1>11 DEF Pump!Next

LEMMA PumpSound == Spec => []PumpInv
<1>1. PumpInv /\ [Next]_vars => PumpInv'
  <2>1. PumpInv /\ UNCHANGED pump => PumpInv'
    BY DEF PumpInv, PumpTypes, PumpLeases, Expected, Answered, OwnBlocksOnly,
           Pump!OwnBlocksOnly, pump
  <2> QED
    BY <2>1, PumpStep DEF Next, vars
<1> QED
  BY <1>1, PumpInit, PTL DEF Spec

\* A .part never gets a block of another file, although the number may be deleted
\* and given away while the pump is fetching.
THEOREM OwnBlocks == Spec => []OwnBlocksOnly
BY PumpSound, PTL DEF PumpInv

\* After a visit, however it ended and whatever became of the part number, the only
\* leases left are those whose own step failed: a reserve that was not saved, an
\* answer that was not the block asked for, or an ingest that was refused or failed.
THEOREM LeasesReturned == Spec => []NothingLeftBehind
<1>1. PumpInv => NothingLeftBehind
  BY DEF PumpInv, PumpLeases, Expected, NothingLeftBehind, Pump!NothingLeftBehind
<1> QED
  BY <1>1, PumpSound, PTL

-----------------------------------------------------------------------------
(* The part store *)

Saving == {"backup", "write", "rename"}

Moving == {"move", "unlink", "known_write", "known_rename", "settle"}

Deleting == {"delete_met", "delete_bak", "delete_part", "remove_met", "remove_bak"}

FilesTypes ==
    /\ met \in Store!Mets \cup {None, Torn}
    /\ bak \in Store!Mets \cup {None, Torn}
    /\ met_tmp \in Store!Mets \cup {None, Torn}
    /\ entry \in Store!Mets \cup {None}
    /\ part_file \in Files \cup {None}
    /\ incoming \in [1 .. Slots -> Files \cup {None, Torn}]
    /\ known # Torn => known \subseteq Files
    /\ known_tmp \subseteq Files /\ known_keys \subseteq Files /\ lost \subseteq Files
    /\ pc \in {"ready", "dead"} \cup Saving \cup Moving \cup Deleting
    /\ reason \in {"create", "command", "finalize"}
    /\ target \in 1 .. Slots
    /\ log \in (Store!Mets \cup {None, Torn}) \X (Store!Mets \cup {None, Torn})
    /\ leftover \in BOOLEAN

\* What each operation has at hand.
AtHand ==
    /\ pc \in Saving \cup Moving => entry # None
    /\ pc \in Saving /\ reason = "create" => met = None
    /\ pc = "rename" => met_tmp = entry
    /\ pc \in Moving => entry.state = "completing"
    /\ pc \in {"delete_bak", "delete_part", "remove_bak"} => met = None
    /\ pc = "delete_part" => bak = None

\* Which versions there are: the backup is of one of the last two, and there is none
\* of a download that was saved only once, unless an earlier one left it.
Versions ==
    /\ met \in {None, Torn, log[2]}
    /\ met = None <=> log[2] = None
    /\ met = None => log[1] = None
    /\ log[1] # None => bak \in {Torn, log[1], log[2]}
    /\ log[1] = None /\ ~ leftover => bak \in {None, Torn, log[2]}
    /\ met = None /\ ~ leftover => bak = None
    /\ pc \in {"write", "rename"} /\ met # None => bak = met

Before(state) ==
    CASE state = "queued" -> {"queued"}
      [] state = "downloading" -> {"queued", "downloading"}
      [] state = "completing" -> {"queued", "downloading", "completing"}
      [] OTHER -> {"queued", "downloading", "completing", "completed"}

\* While the process runs, the entry is never behind the metadata; completed
\* is saved once, by a finalization.
EntryAhead ==
    met \in Store!Mets =>
        /\ pc # "dead" => /\ entry # None /\ entry.file = met.file
                          /\ met.state \in Before(entry.state)
        /\ pc = "backup" => met.state # "completed"

Delivered(f) == \E s \in 1 .. Slots : incoming[s] = f

Listed(f) == f \in lost \/ (known # Torn /\ f \in known)

\* What a version of the metadata says of the file is so.
Kept(m) ==
    m \in Store!Mets =>
        /\ m.state = "completing" => part_file = m.file \/ Delivered(m.file)
        /\ m.state = "completed" => Delivered(m.file) /\ Listed(m.file)

\* It is so of every version there is, and of the entry; a backup is never of
\* completed metadata, so that an undone copy is not the one it counts on.
AllKept ==
    /\ Kept(met) /\ Kept(bak)
    /\ pc # "dead" => Kept(entry)
    /\ bak \in Store!Mets => bak.state # "completed"
    /\ pc \in {"known_write", "known_rename", "settle"} => Delivered(entry.file)
    /\ pc = "unlink" => part_file # None /\ incoming[target] = part_file
    /\ pc = "settle" => Listed(entry.file)
    /\ pc = "known_rename" => known # Torn /\ known_tmp = known \cup {entry.file}
    /\ \A f \in known_keys : Listed(f)

FilesInv == FilesTypes /\ AtHand /\ Versions /\ EntryAhead /\ AllKept

LEMMA NoneIsNone ==
    /\ {None, Torn} \cap (Files \cup Store!Mets) = {} /\ None # Torn
    /\ \A S \in SUBSET Files : S # Torn
    /\ Slots \in Nat \ {0}
BY InstancesAssumption DEF Store!PartStoreAssumption

LEMMA FilesInit == Init => FilesInv
<1> SUFFICES ASSUME Store!Init PROVE FilesInv
  BY DEF Init
<1> USE NoneIsNone DEF Store!Init
<1>1. FilesTypes
  <2>1. leftover \in BOOLEAN
    BY Zenon
  <2>2. incoming \in [1 .. Slots -> Files \cup {None, Torn}] /\ target \in 1 .. Slots
    OBVIOUS
  <2>3. log \in (Store!Mets \cup {None, Torn}) \X (Store!Mets \cup {None, Torn})
    OBVIOUS
  <2> QED
    BY <2>1, <2>2, <2>3 DEF FilesTypes
<1>2. AtHand /\ Versions /\ EntryAhead
  BY DEF AtHand, Versions, EntryAhead, Saving, Moving
<1>3. AllKept
  BY DEF AllKept, Kept
<1> QED
  BY <1>1, <1>2, <1>3 DEF FilesInv

LEMMA FreeSlotIsFree ==
    Store!FreeSlots # {} => Store!FreeSlot \in 1 .. Slots /\ incoming[Store!FreeSlot] = None
<1> SUFFICES ASSUME Store!FreeSlots # {}
             PROVE  Store!FreeSlot \in Store!FreeSlots
  BY DEF Store!FreeSlots
<1>1. Store!FreeSlots \in SUBSET Nat
  BY NoneIsNone DEF Store!FreeSlots
<1>2. \E s \in Store!FreeSlots : \A t \in Store!FreeSlots : s <= t
  BY <1>1, LeastNatural
<1> QED
  BY <1>2, Zenon DEF Store!FreeSlot

LEMMA FilesTypesStep == FilesInv /\ Store!Next => FilesTypes'
<1> SUFFICES ASSUME FilesInv, Store!Next PROVE FilesTypes'
  OBVIOUS
<1> USE NoneIsNone DEF FilesInv
<1>1. ASSUME NEW f \in Files, Store!CreateDownload(f) PROVE FilesTypes'
  BY <1>1
          DEF Store!CreateDownload, Store!SaveEntry, Store!Met, FilesTypes, AtHand, Saving,
         Moving, Deleting, Store!Mets
<1>2. CASE Store!Advance
  BY <1>2
          DEF Store!Advance, Store!SaveEntry, Store!Met, Store!storeFiles, FilesTypes,
         AtHand, Saving, Moving, Deleting, Store!Mets
<1>3. CASE Store!BeginDelete
  BY <1>3
          DEF Store!BeginDelete, Store!storeFiles, FilesTypes, AtHand, Saving, Moving,
         Deleting
<1>4. CASE Store!Backup
  BY <1>4
          DEF Store!Backup, Store!BackedUp, Store!SaveFails, Store!SaveStep, FilesTypes,
         AtHand, Saving, Moving, Deleting
<1>5. CASE Store!WriteMet
  BY <1>5
          DEF Store!WriteMet, Store!SaveFails, Store!SaveStep, FilesTypes, AtHand, Saving,
         Moving, Deleting, Store!Mets
<1>6. CASE Store!RenameMet
  BY <1>6
          DEF Store!RenameMet, Store!SaveFails, Store!SaveStep, FilesTypes, AtHand, Saving,
         Moving, Deleting, Store!Mets
<1>7. ASSUME NEW step \in Deleting, Store!Remove(step) PROVE FilesTypes'
  <2>1. leftover' \in BOOLEAN
    BY <1>7, Zenon DEF Store!Remove, FilesTypes
  <2>2. /\ met' \in {met, None} /\ bak' \in {bak, None} /\ part_file' \in {part_file, None}
        /\ entry' \in {entry, None} /\ log' \in {log, <<None, None>>}
        /\ pc' \in {"ready", "dead"} \cup Deleting
        /\ UNCHANGED <<met_tmp, incoming, known, known_tmp, known_keys, lost, reason, target>>
    BY <1>7 DEF Store!Remove, Store!Follows, Deleting
  <2> HIDE DEF Deleting
  <2> QED
    BY <2>1, <2>2 DEF FilesTypes
<1>8. CASE Store!BeginPass
  BY <1>8
          DEF Store!BeginPass, Store!storeFiles, FilesTypes, AtHand, Saving, Moving,
         Deleting
<1>9. CASE Store!MovePart
  BY <1>9, FreeSlotIsFree
          DEF Store!MovePart, Store!PassFails, Store!PartAfterCut, FilesTypes, AtHand,
         Saving, Moving, Deleting
<1>10. CASE Store!UnlinkPart
  BY <1>10
          DEF Store!UnlinkPart, Store!PassFails, FilesTypes, AtHand, Saving, Moving,
         Deleting
<1>11. CASE Store!MissingPart
  BY <1>11
          DEF Store!MissingPart, Store!PassFails, Store!storeFiles, FilesTypes, AtHand,
         Saving, Moving, Deleting
<1>12. CASE Store!WriteKnown
  BY <1>12
          DEF Store!WriteKnown, Store!PassFails, FilesTypes, AtHand, Saving, Moving,
         Deleting, Store!Mets
<1>13. CASE Store!RenameKnown
  BY <1>13
          DEF Store!RenameKnown, Store!PassFails, FilesTypes, AtHand, Saving, Moving,
         Deleting, Store!Mets
<1>14. CASE Store!Settle
  BY <1>14
          DEF Store!Settle, Store!SaveEntry, Store!Met, Store!storeFiles, FilesTypes,
         AtHand, Saving, Moving, Deleting, Store!Mets
<1>15. CASE Store!Kill
  BY <1>15 DEF Store!Kill, Store!storeFiles, FilesTypes, AtHand, Saving, Moving, Deleting
<1>16. CASE Store!Damage
  BY <1>16 DEF Store!Damage, FilesTypes, AtHand, Saving, Moving, Deleting
<1>17. CASE Store!DamageKnown
  BY <1>17 DEF Store!DamageKnown, FilesTypes, AtHand, Saving, Moving, Deleting, Store!Mets
<1>18. CASE Store!Start
  BY <1>18
          DEF Store!Start, Store!Loaded, Store!LoadKnown, FilesTypes, AtHand, Saving,
         Moving, Deleting, Store!Mets
<1> QED
  BY <1>1, <1>2, <1>3, <1>4, <1>5, <1>6, <1>7, <1>8, <1>9, <1>10, <1>11, <1>12, <1>13, <1>14, <1>15, <1>16, <1>17, <1>18
     DEF Store!Next, Deleting

LEMMA AtHandStep == FilesInv /\ Store!Next => AtHand'
<1> SUFFICES ASSUME FilesInv, Store!Next PROVE AtHand'
  OBVIOUS
<1> USE NoneIsNone DEF FilesInv
<1>1. ASSUME NEW f \in Files, Store!CreateDownload(f) PROVE AtHand'
  BY <1>1
          DEF Store!CreateDownload, Store!SaveEntry, Store!Met, FilesTypes, AtHand,
         EntryAhead, Saving, Moving, Deleting, Store!Mets
<1>2. CASE Store!Advance
  BY <1>2
          DEF Store!Advance, Store!SaveEntry, Store!Met, Store!storeFiles, FilesTypes,
         AtHand, EntryAhead, Saving, Moving, Deleting, Store!Mets
<1>3. CASE Store!BeginDelete
  BY <1>3
          DEF Store!BeginDelete, Store!storeFiles, FilesTypes, AtHand, EntryAhead, Saving,
         Moving, Deleting, Store!Mets
<1>4. CASE Store!Backup
  BY <1>4
          DEF Store!Backup, Store!BackedUp, Store!SaveFails, Store!SaveStep, FilesTypes,
         AtHand, EntryAhead, Saving, Moving, Deleting, Store!Mets
<1>5. CASE Store!WriteMet
  BY <1>5
          DEF Store!WriteMet, Store!SaveFails, Store!SaveStep, FilesTypes, AtHand,
         EntryAhead, Saving, Moving, Deleting, Store!Mets
<1>6. CASE Store!RenameMet
  BY <1>6
          DEF Store!RenameMet, Store!SaveFails, Store!SaveStep, FilesTypes, AtHand,
         EntryAhead, Saving, Moving, Deleting, Store!Mets
<1>7. ASSUME NEW step \in Deleting, Store!Remove(step) PROVE AtHand'
  BY <1>7
          DEF Store!Remove, Store!Follows, Deleting, FilesTypes, AtHand, EntryAhead, Saving,
         Moving, Deleting, Store!Mets
<1>8. CASE Store!BeginPass
  BY <1>8
          DEF Store!BeginPass, Store!storeFiles, FilesTypes, AtHand, EntryAhead, Saving,
         Moving, Deleting, Store!Mets
<1>9. CASE Store!MovePart
  BY <1>9, FreeSlotIsFree
          DEF Store!MovePart, Store!PassFails, Store!PartAfterCut, FilesTypes, AtHand,
         EntryAhead, Saving, Moving, Deleting, Store!Mets
<1>10. CASE Store!UnlinkPart
  BY <1>10
          DEF Store!UnlinkPart, Store!PassFails, FilesTypes, AtHand, EntryAhead, Saving,
         Moving, Deleting, Store!Mets
<1>11. CASE Store!MissingPart
  BY <1>11
          DEF Store!MissingPart, Store!PassFails, Store!storeFiles, FilesTypes, AtHand,
         EntryAhead, Saving, Moving, Deleting, Store!Mets
<1>12. CASE Store!WriteKnown
  BY <1>12
          DEF Store!WriteKnown, Store!PassFails, FilesTypes, AtHand, EntryAhead, Saving,
         Moving, Deleting, Store!Mets
<1>13. CASE Store!RenameKnown
  BY <1>13
          DEF Store!RenameKnown, Store!PassFails, FilesTypes, AtHand, EntryAhead, Saving,
         Moving, Deleting, Store!Mets
<1>14. CASE Store!Settle
  BY <1>14
          DEF Store!Settle, Store!SaveEntry, Store!Met, Store!storeFiles, FilesTypes,
         AtHand, EntryAhead, Saving, Moving, Deleting, Store!Mets
<1>15. CASE Store!Kill
  BY <1>15
          DEF Store!Kill, Store!storeFiles, FilesTypes, AtHand, EntryAhead, Saving, Moving,
         Deleting, Store!Mets
<1>16. CASE Store!Damage
  BY <1>16
          DEF Store!Damage, FilesTypes, AtHand, EntryAhead, Saving, Moving, Deleting,
         Store!Mets
<1>17. CASE Store!DamageKnown
  BY <1>17
          DEF Store!DamageKnown, FilesTypes, AtHand, EntryAhead, Saving, Moving, Deleting,
         Store!Mets
<1>18. CASE Store!Start
  BY <1>18
          DEF Store!Start, Store!Loaded, Store!LoadKnown, FilesTypes, AtHand, EntryAhead,
         Saving, Moving, Deleting, Store!Mets
<1> QED
  BY <1>1, <1>2, <1>3, <1>4, <1>5, <1>6, <1>7, <1>8, <1>9, <1>10, <1>11, <1>12, <1>13, <1>14, <1>15, <1>16, <1>17, <1>18
     DEF Store!Next, Deleting

LEMMA VersionsStep == FilesInv /\ Store!Next => Versions'
<1> SUFFICES ASSUME FilesInv, Store!Next PROVE Versions'
  OBVIOUS
<1> USE NoneIsNone DEF FilesInv
<1>1. ASSUME NEW f \in Files, Store!CreateDownload(f) PROVE Versions'
  BY <1>1
          DEF Store!CreateDownload, Store!SaveEntry, Store!Met, FilesTypes, AtHand,
         Versions, Saving, Deleting
<1>2. CASE Store!Advance
  BY <1>2
          DEF Store!Advance, Store!SaveEntry, Store!Met, Store!storeFiles, FilesTypes,
         AtHand, Versions, Saving, Deleting
<1>3. CASE Store!BeginDelete
  BY <1>3
          DEF Store!BeginDelete, Store!storeFiles, FilesTypes, AtHand, Versions, Saving,
         Deleting
<1>4. CASE Store!Backup
  BY <1>4
          DEF Store!Backup, Store!BackedUp, Store!SaveFails, Store!SaveStep, FilesTypes,
         AtHand, Versions, Saving, Deleting
<1>5. CASE Store!WriteMet
  BY <1>5
          DEF Store!WriteMet, Store!SaveFails, Store!SaveStep, FilesTypes, AtHand, Versions,
         Saving, Deleting
<1>6. CASE Store!RenameMet
  BY <1>6
          DEF Store!RenameMet, Store!SaveFails, Store!SaveStep, FilesTypes, AtHand,
         Versions, Saving, Deleting
<1>7. ASSUME NEW step \in Deleting, Store!Remove(step) PROVE Versions'
  <2>1. \/ leftover' <=> met' = None /\ bak' # None
        \/ UNCHANGED <<met, log, leftover, bak>>
    BY <1>7, Zenon DEF Store!Remove
  <2>2. \/ /\ met' = IF step \in {"delete_met", "remove_met"} THEN None ELSE met
           /\ log' = IF step \in {"delete_met", "remove_met"} THEN <<None, None>> ELSE log
           /\ bak' = IF step \in {"delete_bak", "remove_bak"} THEN None ELSE bak
           /\ leftover' <=> met' = None /\ bak' # None
        \/ UNCHANGED <<met, log, leftover, bak>>
    BY <1>7, <2>1 DEF Store!Remove
  <2>3. pc = step /\ pc' \in {"ready", "dead"} \cup Deleting
    BY <1>7 DEF Store!Remove, Store!Follows, Deleting
  <2> QED
    BY <2>2, <2>3 DEF FilesTypes, AtHand, Versions, Saving, Deleting
<1>8. CASE Store!BeginPass
  BY <1>8
          DEF Store!BeginPass, Store!storeFiles, FilesTypes, AtHand, Versions, Saving,
         Deleting
<1>9. CASE Store!MovePart
  BY <1>9, FreeSlotIsFree
          DEF Store!MovePart, Store!PassFails, Store!PartAfterCut, FilesTypes, AtHand,
         Versions, Saving, Deleting
<1>10. CASE Store!UnlinkPart
  BY <1>10
          DEF Store!UnlinkPart, Store!PassFails, FilesTypes, AtHand, Versions, Saving,
         Deleting
<1>11. CASE Store!MissingPart
  BY <1>11
          DEF Store!MissingPart, Store!PassFails, Store!storeFiles, FilesTypes, AtHand,
         Versions, Saving, Deleting
<1>12. CASE Store!WriteKnown
  BY <1>12
          DEF Store!WriteKnown, Store!PassFails, FilesTypes, AtHand, Versions, Saving,
         Deleting
<1>13. CASE Store!RenameKnown
  BY <1>13
          DEF Store!RenameKnown, Store!PassFails, FilesTypes, AtHand, Versions, Saving,
         Deleting
<1>14. CASE Store!Settle
  BY <1>14
          DEF Store!Settle, Store!SaveEntry, Store!Met, Store!storeFiles, FilesTypes,
         AtHand, Versions, Saving, Deleting
<1>15. CASE Store!Kill
  BY <1>15
          DEF Store!Kill, Store!storeFiles, FilesTypes, AtHand, Versions, Saving, Deleting
<1>16. CASE Store!Damage
  BY <1>16 DEF Store!Damage, FilesTypes, AtHand, Versions, Saving, Deleting
<1>17. CASE Store!DamageKnown
  BY <1>17 DEF Store!DamageKnown, FilesTypes, AtHand, Versions, Saving, Deleting
<1>18. CASE Store!Start
  BY <1>18
          DEF Store!Start, Store!Loaded, Store!LoadKnown, FilesTypes, AtHand, Versions,
         Saving, Deleting
<1> QED
  BY <1>1, <1>2, <1>3, <1>4, <1>5, <1>6, <1>7, <1>8, <1>9, <1>10, <1>11, <1>12, <1>13, <1>14, <1>15, <1>16, <1>17, <1>18
     DEF Store!Next, Deleting

LEMMA EntryAheadStep == FilesInv /\ Store!Next => EntryAhead'
<1> SUFFICES ASSUME FilesInv, Store!Next PROVE EntryAhead'
  OBVIOUS
<1> USE NoneIsNone DEF FilesInv
<1>1. ASSUME NEW f \in Files, Store!CreateDownload(f) PROVE EntryAhead'
  BY <1>1
          DEF Store!CreateDownload, Store!SaveEntry, Store!Met, FilesTypes, AtHand,
         EntryAhead, Before, Saving, Moving, Deleting, Store!Mets
<1>2. CASE Store!Advance
  BY <1>2
          DEF Store!Advance, Store!SaveEntry, Store!Met, Store!storeFiles, FilesTypes,
         AtHand, EntryAhead, Before, Saving, Moving, Deleting, Store!Mets
<1>3. CASE Store!BeginDelete
  BY <1>3
          DEF Store!BeginDelete, Store!storeFiles, FilesTypes, AtHand, EntryAhead, Before,
         Saving, Moving, Deleting, Store!Mets
<1>4. CASE Store!Backup
  BY <1>4
          DEF Store!Backup, Store!BackedUp, Store!SaveFails, Store!SaveStep, FilesTypes,
         AtHand, EntryAhead, Before, Saving, Moving, Deleting, Store!Mets
<1>5. CASE Store!WriteMet
  BY <1>5
          DEF Store!WriteMet, Store!SaveFails, Store!SaveStep, FilesTypes, AtHand,
         EntryAhead, Before, Saving, Moving, Deleting, Store!Mets
<1>6. CASE Store!RenameMet
  BY <1>6
          DEF Store!RenameMet, Store!SaveFails, Store!SaveStep, FilesTypes, AtHand,
         EntryAhead, Before, Saving, Moving, Deleting, Store!Mets
<1>7. ASSUME NEW step \in Deleting, Store!Remove(step) PROVE EntryAhead'
  BY <1>7
          DEF Store!Remove, Store!Follows, Deleting, FilesTypes, AtHand, EntryAhead, Before,
         Saving, Moving, Deleting, Store!Mets
<1>8. CASE Store!BeginPass
  BY <1>8
          DEF Store!BeginPass, Store!storeFiles, FilesTypes, AtHand, EntryAhead, Before,
         Saving, Moving, Deleting, Store!Mets
<1>9. CASE Store!MovePart
  BY <1>9, FreeSlotIsFree
          DEF Store!MovePart, Store!PassFails, Store!PartAfterCut, FilesTypes, AtHand,
         EntryAhead, Before, Saving, Moving, Deleting, Store!Mets
<1>10. CASE Store!UnlinkPart
  BY <1>10
          DEF Store!UnlinkPart, Store!PassFails, FilesTypes, AtHand, EntryAhead, Before,
         Saving, Moving, Deleting, Store!Mets
<1>11. CASE Store!MissingPart
  BY <1>11
          DEF Store!MissingPart, Store!PassFails, Store!storeFiles, FilesTypes, AtHand,
         EntryAhead, Before, Saving, Moving, Deleting, Store!Mets
<1>12. CASE Store!WriteKnown
  BY <1>12
          DEF Store!WriteKnown, Store!PassFails, FilesTypes, AtHand, EntryAhead, Before,
         Saving, Moving, Deleting, Store!Mets
<1>13. CASE Store!RenameKnown
  BY <1>13
          DEF Store!RenameKnown, Store!PassFails, FilesTypes, AtHand, EntryAhead, Before,
         Saving, Moving, Deleting, Store!Mets
<1>14. CASE Store!Settle
  BY <1>14
          DEF Store!Settle, Store!SaveEntry, Store!Met, Store!storeFiles, FilesTypes,
         AtHand, EntryAhead, Before, Saving, Moving, Deleting, Store!Mets
<1>15. CASE Store!Kill
  BY <1>15
          DEF Store!Kill, Store!storeFiles, FilesTypes, AtHand, EntryAhead, Before, Saving,
         Moving, Deleting, Store!Mets
<1>16. CASE Store!Damage
  BY <1>16
          DEF Store!Damage, FilesTypes, AtHand, EntryAhead, Before, Saving, Moving,
         Deleting, Store!Mets
<1>17. CASE Store!DamageKnown
  BY <1>17
          DEF Store!DamageKnown, FilesTypes, AtHand, EntryAhead, Before, Saving, Moving,
         Deleting, Store!Mets
<1>18. CASE Store!Start
  BY <1>18
          DEF Store!Start, Store!Loaded, Store!LoadKnown, FilesTypes, AtHand, EntryAhead,
         Before, Saving, Moving, Deleting, Store!Mets
<1> QED
  BY <1>1, <1>2, <1>3, <1>4, <1>5, <1>6, <1>7, <1>8, <1>9, <1>10, <1>11, <1>12, <1>13, <1>14, <1>15, <1>16, <1>17, <1>18
     DEF Store!Next, Deleting

LEMMA AllKeptStep == FilesInv /\ Store!Next => AllKept'
<1> SUFFICES ASSUME FilesInv, Store!Next PROVE AllKept'
  OBVIOUS
<1> USE NoneIsNone DEF FilesInv
<1>1. ASSUME NEW f \in Files, Store!CreateDownload(f) PROVE AllKept'
  BY <1>1
          DEF Store!CreateDownload, Store!SaveEntry, Store!Met, FilesTypes, AtHand, AllKept,
         EntryAhead, Before, Kept, Delivered, Listed, Saving, Moving, Deleting, Store!Mets
<1>2. CASE Store!Advance
  BY <1>2
          DEF Store!Advance, Store!SaveEntry, Store!Met, Store!storeFiles, FilesTypes,
         AtHand, AllKept, EntryAhead, Before, Kept, Delivered, Listed, Saving, Moving,
         Deleting, Store!Mets
<1>3. CASE Store!BeginDelete
  BY <1>3
          DEF Store!BeginDelete, Store!storeFiles, FilesTypes, AtHand, AllKept, EntryAhead,
         Before, Kept, Delivered, Listed, Saving, Moving, Deleting, Store!Mets
<1>4. CASE Store!Backup
  BY <1>4
          DEF Store!Backup, Store!BackedUp, Store!SaveFails, Store!SaveStep, FilesTypes,
         AtHand, AllKept, EntryAhead, Before, Kept, Delivered, Listed, Saving, Moving,
         Deleting, Store!Mets
<1>5. CASE Store!WriteMet
  BY <1>5
          DEF Store!WriteMet, Store!SaveFails, Store!SaveStep, FilesTypes, AtHand, AllKept,
         EntryAhead, Before, Kept, Delivered, Listed, Saving, Moving, Deleting, Store!Mets
<1>6. CASE Store!RenameMet
  BY <1>6
          DEF Store!RenameMet, Store!SaveFails, Store!SaveStep, FilesTypes, AtHand, AllKept,
         EntryAhead, Before, Kept, Delivered, Listed, Saving, Moving, Deleting, Store!Mets
<1>7. ASSUME NEW step \in Deleting, Store!Remove(step) PROVE AllKept'
  BY <1>7
          DEF Store!Remove, Store!Follows, Deleting, FilesTypes, AtHand, AllKept,
         EntryAhead, Before, Kept, Delivered, Listed, Saving, Moving, Deleting, Store!Mets
<1>8. CASE Store!BeginPass
  BY <1>8
          DEF Store!BeginPass, Store!storeFiles, FilesTypes, AtHand, AllKept, EntryAhead,
         Before, Kept, Delivered, Listed, Saving, Moving, Deleting, Store!Mets
<1>9. CASE Store!MovePart
  <2> DEFINE to == Store!FreeSlot
  <2>1. /\ part_file \in Files /\ to \in 1 .. Slots /\ incoming[to] = None /\ target' = to
        /\ pc = "move" /\ entry \in Store!Mets /\ entry.state = "completing"
        /\ UNCHANGED <<met, bak, known, known_keys, entry, lost>>
    BY <1>9, FreeSlotIsFree, NoneIsNone
       DEF Store!MovePart, FilesTypes, AtHand, Moving
  <2>2. /\ part_file' \in {None, part_file} /\ incoming'[to] \in {part_file, Torn}
        /\ part_file' = None => incoming'[to] = part_file
        /\ \A s \in 1 .. Slots : s # to => incoming'[s] = incoming[s]
        /\ \/ pc' \in {"ready", "dead"}
           \/ pc' \in {"known_write", "unlink"} /\ incoming'[to] = part_file
        /\ pc' = "unlink" => part_file' = part_file
    BY <1>9, <2>1 DEF Store!MovePart, Store!PassFails, Store!PartAfterCut, FilesTypes
  <2> HIDE DEF to
  <2>3. \A f \in Files : Delivered(f) => Delivered(f)'
    BY <2>1, <2>2, NoneIsNone DEF Delivered
  <2>4. \A f \in Files : part_file = f \/ Delivered(f) => (part_file = f \/ Delivered(f))'
    BY <2>1, <2>2, <2>3 DEF Delivered
  <2>5. Kept(entry) /\ entry.file \in Files /\ (pc' \in {"known_write", "unlink"} => Delivered(entry.file)')
    BY <2>1, <2>2, <2>3 DEF AllKept, Kept, Delivered, Store!Mets
  <2>6. \A f \in Files : Listed(f)' = Listed(f)
    BY <2>1 DEF Listed
  <2>7. Kept(met)' /\ Kept(bak)' /\ Kept(entry)'
    BY <2>1, <2>3, <2>4, <2>6 DEF AllKept, Kept, Store!Mets
  <2> QED
    BY <2>1, <2>2, <2>5, <2>6, <2>7 DEF AllKept, FilesTypes
<1>10. CASE Store!UnlinkPart
  BY <1>10
          DEF Store!UnlinkPart, Store!PassFails, FilesTypes, AtHand, AllKept, EntryAhead,
         Before, Kept, Delivered, Listed, Saving, Moving, Deleting, Store!Mets
<1>11. CASE Store!MissingPart
  BY <1>11
          DEF Store!MissingPart, Store!PassFails, Store!storeFiles, FilesTypes, AtHand,
         AllKept, EntryAhead, Before, Kept, Delivered, Listed, Saving, Moving, Deleting,
         Store!Mets
<1>12. CASE Store!WriteKnown
  BY <1>12
          DEF Store!WriteKnown, Store!PassFails, FilesTypes, AtHand, AllKept, EntryAhead,
         Before, Kept, Delivered, Listed, Saving, Moving, Deleting, Store!Mets
<1>13. CASE Store!RenameKnown
  BY <1>13
          DEF Store!RenameKnown, Store!PassFails, FilesTypes, AtHand, AllKept, EntryAhead,
         Before, Kept, Delivered, Listed, Saving, Moving, Deleting, Store!Mets
<1>14. CASE Store!Settle
  BY <1>14
          DEF Store!Settle, Store!SaveEntry, Store!Met, Store!storeFiles, FilesTypes,
         AtHand, AllKept, EntryAhead, Before, Kept, Delivered, Listed, Saving, Moving,
         Deleting, Store!Mets
<1>15. CASE Store!Kill
  BY <1>15
          DEF Store!Kill, Store!storeFiles, FilesTypes, AtHand, AllKept, EntryAhead, Before,
         Kept, Delivered, Listed, Saving, Moving, Deleting, Store!Mets
<1>16. CASE Store!Damage
  BY <1>16
          DEF Store!Damage, FilesTypes, AtHand, AllKept, EntryAhead, Before, Kept,
         Delivered, Listed, Saving, Moving, Deleting, Store!Mets
<1>17. CASE Store!DamageKnown
  BY <1>17
          DEF Store!DamageKnown, FilesTypes, AtHand, AllKept, EntryAhead, Before, Kept,
         Delivered, Listed, Saving, Moving, Deleting, Store!Mets
<1>18. CASE Store!Start
  BY <1>18
          DEF Store!Start, Store!Loaded, Store!LoadKnown, FilesTypes, AtHand, AllKept,
         EntryAhead, Before, Kept, Delivered, Listed, Saving, Moving, Deleting, Store!Mets
<1> QED
  BY <1>1, <1>2, <1>3, <1>4, <1>5, <1>6, <1>7, <1>8, <1>9, <1>10, <1>11, <1>12, <1>13, <1>14, <1>15, <1>16, <1>17, <1>18
     DEF Store!Next, Deleting

LEMMA FilesSound == Spec => []FilesInv
<1>1. FilesInv /\ [Next]_vars => FilesInv'
  <2>1. FilesInv /\ UNCHANGED part_store => FilesInv'
    BY DEF FilesInv, FilesTypes, AtHand, Versions, EntryAhead, AllKept, Kept, Delivered,
           Listed, part_store
  <2>2. FilesInv /\ Store!Next => FilesInv'
    BY FilesTypesStep, AtHandStep, VersionsStep, EntryAheadStep, AllKeptStep DEF FilesInv
  <2> QED
    BY <2>1, <2>2 DEF Next, vars
<1> QED
  BY <1>1, FilesInit, PTL DEF Spec

\* Wherever the process is killed while it saves, the start has the last version of
\* the metadata, or from the backup that one or the one before, if the backup was not
\* cut and is not one that an earlier download of the number left there.
THEOREM LatestIsLoaded == Spec => []LoadIsRecent
<1>1. FilesInv => LoadIsRecent
  BY NoneIsNone
     DEF FilesInv, FilesTypes, Versions, LoadIsRecent, Store!LoadIsRecent, Store!Loaded
<1> QED
  BY <1>1, FilesSound, PTL

\* Through a rename or a copy, cut, undone or repeated, and through kills, a file that
\* is complete is in its .part or in incoming, and what is called completed is
\* in incoming and in known.met.
THEOREM FinishedFilesKept == Spec => []ContentIsKept
<1>1. FilesInv => ContentIsKept
  BY NoneIsNone
     DEF FilesInv, FilesTypes, AllKept, Kept, Delivered, Listed, ContentIsKept,
         Store!ContentIsKept
<1> QED
  BY <1>1, FilesSound, PTL

-----------------------------------------------------------------------------
(* The shared library *)

Entries == [path : Paths, stamp : Stamps, content : Contents]

Tasks == [kind : Library!Kinds \cup {"boot", "startup"},
          pc : {"scan", "hash", "swap", "snapshot", "queue"},
          found : SUBSET Entries, left : SUBSET (Entries \cup Contents),
          done : SUBSET Entries, calm : BOOLEAN]

LibraryTypes ==
    /\ disk \subseteq Entries /\ cache \subseteq Entries /\ library \subseteq Entries
    /\ runs \subseteq Tasks
    /\ status \in [Library!Kinds -> [state : {"idle", "running", "succeeded", "failed"},
                                     cooldown : Nat]]
    /\ age \in [Republish -> [Contents -> Nat]]
    /\ \A r \in runs :
          IF Library!Indexing(r) THEN r.pc \in {"scan", "hash", "swap"}
          ELSE r.pc \in {"snapshot", "queue"} /\ r.left \subseteq Contents

\* Of a file that is as it was, an entry has the content.
True(entries) ==
    \A e \in entries, d \in disk : e.path = d.path /\ e.stamp = d.stamp => e.content = d.content

\* What a task has done is of what it found; of files that have not changed
\* since, it is right, and all of them are done or left.
IndexSound(r) ==
    Library!Indexing(r) =>
        /\ True(r.found) /\ True(r.done)
        /\ \A e \in r.done : \E f \in r.found : f.path = e.path /\ f.stamp = e.stamp
        /\ r.left \subseteq r.found
        /\ r.pc = "swap" => r.left = {}
        /\ r.calm /\ r.pc # "scan" => r.done \cup r.left = disk

IndexInv ==
    /\ \A d, e \in disk : d.path = e.path => d = e
    /\ True(cache)
    /\ \A r \in runs : IndexSound(r)
    /\ IndexIsTrue

\* What the task of a kind has still to announce has waited; without a task,
\* what is left of the wait is in the cooldown.
Waited(k, c) ==
    /\ (\A r \in runs : r.kind # k) => age[k][c] + status[k].cooldown >= Cooldown
    /\ \A r \in runs : r.kind = k /\ (r.pc = "snapshot" \/ c \in r.left)
                          => age[k][c] >= Cooldown

\* A kind has one task at a time, and is running when it has one; main's is alone.
OneEach ==
    /\ \A r, s \in runs : r.kind = s.kind \/ r.kind = "boot" => r = s
    /\ \A r \in runs : r.kind \in Library!Kinds =>
          status[r.kind].state = "running" /\ status[r.kind].cooldown = 0

RunInv == OneEach /\ AnnouncedOnce /\ \A k \in Republish, c \in Contents : Waited(k, c)

LibraryInv == LibraryTypes /\ IndexInv /\ RunInv

LEMMA CooldownIsNat ==
    /\ Cooldown \in Nat
    /\ Library!Kinds = {"reindex"} \cup Republish
    /\ \A k \in Republish : k \notin {"reindex", "boot", "startup"}
BY InstancesAssumption DEF Library!SharedOpsAssumption, Library!Kinds

LEMMA TaskTyped ==
    ASSUME NEW kind \in Library!Kinds \cup {"boot", "startup"},
           NEW at \in {"scan", "hash", "swap", "snapshot", "queue"},
           NEW found \in SUBSET Entries, NEW left \in SUBSET (Entries \cup Contents)
    PROVE  /\ Library!Task(kind, at, found, left) \in Tasks
           /\ Library!Task(kind, at, found, left).kind = kind
           /\ Library!Task(kind, at, found, left).pc = at
           /\ Library!Task(kind, at, found, left).found = found
           /\ Library!Task(kind, at, found, left).left = left
           /\ Library!Task(kind, at, found, left).done = {}
           /\ Library!Task(kind, at, found, left).calm = TRUE
BY DEF Library!Task, Tasks

LEMMA BootingTyped ==
    /\ Library!Booting \subseteq Tasks
    /\ \A r \in Library!Booting : /\ r.kind = "boot" /\ r.pc = "scan" /\ r.found = {}
                                  /\ r.left = {} /\ r.done = {}
    /\ \A r, s \in Library!Booting : r = s
<1> DEFINE r == Library!Task("boot", "scan", {}, {})
<1>1. r \in Tasks /\ r.kind = "boot" /\ r.pc = "scan" /\ r.found = {} /\ r.left = {} /\ r.done = {}
  BY DEF Library!Task, Tasks
<1>2. Library!Booting = {r}
  BY DEF Library!Booting
<1> HIDE DEF r
<1> QED
  BY <1>1, <1>2

LEMMA LibraryInit == Init => LibraryInv
<1> SUFFICES ASSUME Init PROVE LibraryInv
  OBVIOUS
<1> USE CooldownIsNat, BootingTyped DEF Init, Library!Init
<1>1. LibraryTypes
  BY DEF LibraryTypes, Library!Indexing, Library!Idle
<1>2. IndexInv
  BY DEF IndexInv, IndexSound, True, IndexIsTrue, Library!IndexIsTrue
<1>3. RunInv
  BY DEF RunInv, OneEach, Waited, AnnouncedOnce, Library!AnnouncedOnce, Library!Idle
<1> QED
  BY <1>1, <1>2, <1>3 DEF LibraryInv

\* A task goes on as s, which is of the same kind.
GoesOn(r, s) ==
    /\ runs' = (runs \ {r}) \cup {s}
    /\ s \in Tasks /\ s.kind = r.kind
    /\ IF Library!Indexing(s) THEN s.pc \in {"scan", "hash", "swap"}
       ELSE s.pc \in {"snapshot", "queue"} /\ s.left \subseteq Contents

LEMMA TasksGoOn ==
    ASSUME LibraryInv, NEW r \in runs, NEW s, GoesOn(r, s), UNCHANGED status
    PROVE  OneEach'
BY DEF LibraryInv, RunInv, OneEach, GoesOn

\* What it announces is no more than before.
LEMMA WaitsGoOn ==
    ASSUME LibraryInv, NEW r \in runs, NEW s, GoesOn(r, s), UNCHANGED <<age, repeated, status>>,
           s.pc = "snapshot" => r.pc = "snapshot",
           r.pc = "snapshot" \/ s.left \subseteq r.left \/ Library!Indexing(s)
    PROVE  RunInv'
<1>1. ASSUME NEW k \in Republish, NEW c \in Contents PROVE Waited(k, c)'
  BY CooldownIsNat DEF LibraryInv, RunInv, Waited, GoesOn, Library!Indexing
<1> QED
  BY <1>1, TasksGoOn DEF LibraryInv, RunInv, AnnouncedOnce, Library!AnnouncedOnce

\* A task ends, or main begins anew.
LEMMA TasksEnd ==
    ASSUME LibraryInv, NEW r \in runs, NEW result, Library!Ends(r, result),
           result \in [state : {"succeeded", "failed"}, cooldown : Nat],
           UNCHANGED <<disk, cache, age, repeated>>, library' \subseteq Entries,
           r.pc = "queue" => result.cooldown >= Cooldown \/ ~ r.kind \in Republish
    PROVE  /\ LibraryTypes'
           /\ \A s \in runs' : s \in runs \/ s \in Library!Booting
           /\ RunInv'
<1>1. \/ runs' = runs \ {r}
      \/ r.kind = "boot" /\ runs = {r} /\ runs' = Library!Booting
  BY DEF Library!Ends, LibraryInv, RunInv, OneEach
<1>2. LibraryTypes'
  <2>1. status' \in [Library!Kinds -> [state : {"idle", "running", "succeeded", "failed"},
                                       cooldown : Nat]]
    BY DEF Library!Ends, LibraryInv, LibraryTypes
  <2> QED
    BY <1>1, <2>1, BootingTyped DEF LibraryInv, LibraryTypes, Library!Indexing
<1>3. OneEach'
  BY <1>1, BootingTyped, CooldownIsNat
     DEF Library!Ends, LibraryInv, LibraryTypes, RunInv, OneEach
<1>4. ASSUME NEW k \in Republish, NEW c \in Contents PROVE Waited(k, c)'
  <2>1. Waited(k, c) /\ age[k][c] \in Nat /\ status[k].cooldown \in Nat /\ k \in Library!Kinds
    BY CooldownIsNat DEF LibraryInv, LibraryTypes, RunInv
  <2>2. CASE r.kind # k
    BY <1>1, <2>1, <2>2, BootingTyped, CooldownIsNat
       DEF Waited, Library!Ends, LibraryInv, LibraryTypes
  <2>3. CASE r.kind = k
    <3>1. status'[k] = result /\ runs' = runs \ {r}
      BY <1>1, <2>1, <2>3, CooldownIsNat DEF Library!Ends, LibraryInv, LibraryTypes
    <3>2. r.pc = "snapshot" => age[k][c] >= Cooldown
      BY <2>1, <2>3 DEF Waited
    <3>3. r.pc \in {"snapshot", "queue"}
      BY <2>3, CooldownIsNat DEF LibraryInv, LibraryTypes, Library!Indexing
    <3>4. \A s \in runs' : s.kind # k
      BY <2>3, <3>1 DEF LibraryInv, RunInv, OneEach
    <3> QED
      BY <2>1, <2>3, <3>1, <3>2, <3>3, <3>4, CooldownIsNat DEF Waited
  <2> QED
    BY <2>2, <2>3
<1> QED
  BY <1>1, <1>2, <1>3, <1>4 DEF LibraryInv, RunInv, AnnouncedOnce, Library!AnnouncedOnce

\* A step in which the files stay as they are keeps what is right of them.
LEMMA IndexGoesOn ==
    ASSUME LibraryInv, NEW r \in runs, NEW s, GoesOn(r, s), UNCHANGED <<disk, cache, library, fresh>>,
           IndexSound(s)
    PROVE  LibraryTypes' => IndexInv'
BY DEF LibraryInv, IndexInv, IndexSound, True, GoesOn, IndexIsTrue, Library!IndexIsTrue,
       Library!Indexing

LEMMA LibraryStep == LibraryInv /\ Library!Next => LibraryInv'
<1> SUFFICES ASSUME LibraryInv, Library!Next PROVE LibraryInv'
  OBVIOUS
<1> USE CooldownIsNat
<1>a. ASSUME NEW r \in runs
      PROVE  /\ r \in Tasks /\ r.kind \in Library!Kinds \cup {"boot", "startup"}
             /\ r.found \subseteq Entries /\ r.done \subseteq Entries
             /\ r.left \subseteq Entries \cup Contents
             /\ IndexSound(r)
             /\ IF Library!Indexing(r) THEN r.pc \in {"scan", "hash", "swap"}
                ELSE r.pc \in {"snapshot", "queue"} /\ r.left \subseteq Contents
  BY DEF LibraryInv, LibraryTypes, IndexInv, Tasks
<1>b. library \subseteq Entries
  BY DEF LibraryInv, LibraryTypes
<1>1. ASSUME NEW p \in Paths, Library!FileChanges(p) PROVE LibraryInv'
  <2> DEFINE later(r) == [r EXCEPT !.calm = ~ Library!Indexing(r)]
  <2>1. ASSUME NEW r \in runs
        PROVE  /\ later(r) \in Tasks
               /\ later(r).kind = r.kind /\ later(r).pc = r.pc /\ later(r).left = r.left
               /\ later(r).found = r.found /\ later(r).done = r.done
               /\ Library!Indexing(r) => ~ later(r).calm
    BY <1>a DEF Tasks, Library!Indexing
  <2>2. /\ runs' = {later(r) : r \in runs} /\ ~ fresh'
        /\ UNCHANGED <<cache, library, status, age, repeated>>
    BY <1>1 DEF Library!FileChanges
  <2> HIDE DEF later
  <2>3. PICK new \in SUBSET Entries :
           /\ disk' = {d \in disk : d.path # p} \cup new
           /\ \A e, f \in new : e = f
           /\ \A e \in new : e.path = p /\ e.stamp \in Library!NewStamps(p)
    <3>1. CASE Library!NewStamps(p) # {}
               /\ \E c \in Contents : disk' = (disk \ {e \in disk : e.path = p})
                     \cup {Library!Entry(p, CHOOSE s \in Library!NewStamps(p) : TRUE, c)}
      <4> DEFINE s == CHOOSE s \in Library!NewStamps(p) : TRUE
      <4>1. s \in Library!NewStamps(p) /\ s \in Stamps
        BY <3>1 DEF Library!NewStamps
      <4>2. PICK c \in Contents : disk' = (disk \ {e \in disk : e.path = p})
                                           \cup {Library!Entry(p, s, c)}
        BY <3>1
      <4> HIDE DEF s
      <4>3. /\ Library!Entry(p, s, c) \in Entries /\ Library!Entry(p, s, c).path = p
            /\ Library!Entry(p, s, c).stamp = s
        BY <4>1 DEF Library!Entry, Entries
      <4>4. {Library!Entry(p, s, c)} \in SUBSET Entries
        BY <4>3
      <4>5. disk' = {d \in disk : d.path # p} \cup {Library!Entry(p, s, c)}
        BY <4>2
      <4> QED
        BY <4>1, <4>3, <4>4, <4>5
    <3>2. CASE disk' = disk \ {e \in disk : e.path = p}
      <4> WITNESS {} \in SUBSET Entries
      <4> QED
        BY <3>2
    <3> QED
      BY <1>1, <3>1, <3>2 DEF Library!FileChanges
  <2>4. ASSUME NEW e \in new, NEW f, f \in cache \/ \E r \in runs : f \in r.found, f.path = p
        PROVE  f.stamp # e.stamp
    BY <2>3, <2>4 DEF Library!NewStamps
  <2>5. LibraryTypes'
    BY <2>1, <2>2, <2>3 DEF LibraryInv, LibraryTypes, Library!Indexing
  <2>6. ASSUME NEW S \in SUBSET Entries, True(S),
               \A e \in new, f \in S : f.path = p => f.stamp # e.stamp
        PROVE  True(S)'
    BY <2>3, <2>6 DEF True
  <2>7. True(cache)'
    BY <2>2, <2>4, <2>6 DEF LibraryInv, LibraryTypes, IndexInv, True
  <2>8. ASSUME NEW r \in runs PROVE IndexSound(later(r))'
    <3> SUFFICES ASSUME Library!Indexing(r) PROVE IndexSound(later(r))'
      BY <2>1 DEF IndexSound, Library!Indexing
    <3>1. True(r.found)'
      BY <1>a, <2>4, <2>6 DEF IndexSound
    <3>2. True(r.done)'
      BY <1>a, <2>4, <2>6 DEF IndexSound
    <3> QED
      BY <1>a, <2>1, <3>1, <3>2 DEF IndexSound, True, Library!Indexing
  <2>9. IndexInv'
    BY <2>2, <2>3, <2>7, <2>8
       DEF LibraryInv, IndexInv, IndexSound, True, IndexIsTrue, Library!IndexIsTrue,
           Library!Indexing
  <2>10. RunInv'
    BY <2>1, <2>2
       DEF LibraryInv, RunInv, OneEach, Waited, AnnouncedOnce, Library!AnnouncedOnce
  <2> QED
    BY <2>5, <2>9, <2>10 DEF LibraryInv
<1>2. CASE Library!Kill
  <2>1. LibraryTypes'
    BY <1>2, BootingTyped
       DEF Library!Kill, Library!Idle, LibraryInv, LibraryTypes, Library!Indexing
  <2>2. IndexInv'
    BY <1>2, BootingTyped
       DEF Library!Kill, LibraryInv, IndexInv, IndexSound, True, IndexIsTrue,
           Library!IndexIsTrue
  <2>3. RunInv'
    BY <1>2, BootingTyped
       DEF Library!Kill, Library!Idle, LibraryInv, RunInv, OneEach, Waited, AnnouncedOnce,
           Library!AnnouncedOnce
  <2> QED
    BY <2>1, <2>2, <2>3 DEF LibraryInv
<1>3. CASE Library!Tick
  <2>1. ASSUME NEW k \in Library!Kinds
        PROVE  /\ status[k].cooldown \in Nat
               /\ status'[k] \in [state : {"idle", "running", "succeeded", "failed"}, cooldown : Nat]
               /\ status'[k].state = status[k].state
               /\ status'[k].cooldown = IF status[k].cooldown > 0 THEN status[k].cooldown - 1 ELSE 0
    BY <1>3 DEF Library!Tick, LibraryInv, LibraryTypes
  <2>2. ASSUME NEW k \in Republish, NEW c \in Contents
        PROVE  /\ age[k][c] \in Nat
               /\ age'[k][c] = IF age[k][c] < Cooldown THEN age[k][c] + 1 ELSE Cooldown
    BY <1>3 DEF Library!Tick, LibraryInv, LibraryTypes
  <2>3. /\ DOMAIN status' = Library!Kinds /\ status' = [k \in Library!Kinds |-> status'[k]]
        /\ age' = [k \in Republish |-> [c \in Contents |-> age'[k][c]]]
        /\ UNCHANGED <<disk, cache, library, runs, fresh, repeated>>
    BY <1>3 DEF Library!Tick
  <2>4. LibraryTypes'
    BY <2>1, <2>2, <2>3 DEF LibraryInv, LibraryTypes, Library!Indexing
  <2>5. IndexInv'
    BY <2>3
       DEF LibraryInv, IndexInv, IndexSound, True, IndexIsTrue, Library!IndexIsTrue,
           Library!Indexing
  <2>6. ASSUME NEW k \in Republish, NEW c \in Contents PROVE Waited(k, c)'
    BY <2>1, <2>2, <2>3 DEF LibraryInv, RunInv, Waited
  <2>7. RunInv'
    BY <2>1, <2>3, <2>6 DEF LibraryInv, RunInv, OneEach, AnnouncedOnce, Library!AnnouncedOnce
  <2> QED
    BY <2>4, <2>5, <2>7 DEF LibraryInv
<1>4. ASSUME NEW k \in Library!Kinds, Library!StartAction(k) PROVE LibraryInv'
  <2> DEFINE t == Library!Task(k, Library!FirstStep(k), {}, {})
  <2>1. /\ t \in Tasks /\ t.kind = k /\ t.left = {} /\ t.found = {} /\ t.done = {}
        /\ t.pc = IF k = "reindex" THEN "scan" ELSE "snapshot"
    BY DEF Library!Task, Tasks, Library!FirstStep
  <2> HIDE DEF t
  <2>2. /\ \A r \in runs : r.kind # "boot" /\ r.kind # k
        /\ status[k].cooldown = 0
        /\ status' = [status EXCEPT ![k] = [state |-> "running", cooldown |-> 0]]
        /\ runs' = runs \cup {t}
        /\ UNCHANGED <<disk, cache, library, fresh, age, repeated>>
    BY <1>4
       DEF Library!StartAction, Library!Serving, Library!Running, LibraryInv, RunInv, OneEach, t
  <2>3. LibraryTypes'
    BY <2>1, <2>2 DEF LibraryInv, LibraryTypes, Library!Indexing
  <2>4. IndexInv'
    BY <2>1, <2>2
       DEF LibraryInv, IndexInv, IndexSound, True, IndexIsTrue, Library!IndexIsTrue,
           Library!Indexing
  <2>5. OneEach'
    BY <2>1, <2>2 DEF LibraryInv, LibraryTypes, RunInv, OneEach
  <2>6. ASSUME NEW j \in Republish, NEW c \in Contents PROVE Waited(j, c)'
    BY <2>1, <2>2 DEF LibraryInv, LibraryTypes, RunInv, Waited
  <2> QED
    BY <2>2, <2>3, <2>4, <2>5, <2>6
       DEF LibraryInv, RunInv, AnnouncedOnce, Library!AnnouncedOnce
<1>5. ASSUME NEW r \in runs, Library!Scan(r) PROVE LibraryInv'
  <2> DEFINE s == Library!Task(r.kind, "hash", disk, disk)
  <2>1. /\ s \in Tasks /\ s.kind = r.kind /\ s.pc = "hash" /\ s.found = disk /\ s.left = disk
        /\ s.done = {}
    BY <1>a DEF Library!Task, Tasks, LibraryInv, LibraryTypes
  <2> HIDE DEF s
  <2>2. /\ GoesOn(r, s) /\ Library!Indexing(s)
        /\ UNCHANGED <<disk, cache, library, status, fresh, age, repeated>>
    BY <1>5, <2>1 DEF Library!Scan, Library!Becomes, GoesOn, Library!Indexing, s
  <2>3. IndexSound(s)
    BY <2>1 DEF IndexSound, True, LibraryInv, IndexInv
  <2>4. LibraryTypes'
    BY <2>2 DEF LibraryInv, LibraryTypes, GoesOn, Library!Indexing
  <2> QED
    BY <2>1, <2>2, <2>3, <2>4, IndexGoesOn, WaitsGoOn DEF LibraryInv
<1>6. ASSUME NEW r \in runs, NEW e \in r.left, Library!HashFile(r, e) PROVE LibraryInv'
  <2>1. PICK c : /\ \/ \E x \in cache : x.path = e.path /\ x.stamp = e.stamp /\ x.content = c
                    \/ c \in Library!Hashes(e)
                 /\ runs' = (runs \ {r}) \cup {[r EXCEPT !.left = @ \ {e},
                                                !.done = @ \cup {Library!Hashed(e, c)}]}
    BY <1>6 DEF Library!HashFile, Library!Becomes, Library!Reusable
  <2> DEFINE x == Library!Hashed(e, c)
             s == [r EXCEPT !.left = @ \ {e}, !.done = @ \cup {x}]
  <2>2. /\ Library!Indexing(r) /\ r.pc = "hash"
        /\ UNCHANGED <<disk, cache, library, status, fresh, age, repeated>>
    BY <1>6 DEF Library!HashFile
  <2>3. e \in r.found /\ e \in Entries
    BY <1>a, <2>2 DEF IndexSound
  <2>4. c \in Contents
    BY <2>1 DEF Library!Hashes, LibraryInv, LibraryTypes, Entries
  <2>5. x \in Entries /\ x.path = e.path /\ x.stamp = e.stamp /\ x.content = c
    BY <2>3, <2>4 DEF Library!Hashed, Library!Entry, Entries
  <2>6. e \in disk => x = e
    <3> SUFFICES ASSUME e \in disk PROVE c = e.content
      BY <2>3 DEF Library!Hashed, Library!Entry, Entries
    <3>1. c \in Library!Hashes(e) => c = e.content
      BY DEF Library!Hashes, LibraryInv, IndexInv
    <3> QED
      BY <2>1, <3>1 DEF LibraryInv, IndexInv, True
  <2>7. True({x})
    <3> SUFFICES ASSUME NEW d \in disk, x.path = d.path, x.stamp = d.stamp
                 PROVE  c = d.content
      BY <2>5 DEF True
    <3>1. c \in Library!Hashes(e) => c = d.content
      BY <2>5 DEF Library!Hashes, LibraryInv, IndexInv
    <3> QED
      BY <2>1, <2>5, <3>1 DEF LibraryInv, IndexInv, True
  <2>8. /\ s \in Tasks /\ s.kind = r.kind /\ s.pc = "hash" /\ s.found = r.found
        /\ s.left = r.left \ {e} /\ s.done = r.done \cup {x} /\ s.calm = r.calm
    <3> HIDE DEF x
    <3> QED
      BY <1>a, <2>2, <2>5 DEF Tasks
  <2>9. GoesOn(r, s) /\ Library!Indexing(s)
    BY <2>1, <2>2, <2>8 DEF GoesOn, Library!Indexing
  <2> HIDE DEF s, x
  <2>10. IndexSound(s)
    BY <1>a, <2>2, <2>3, <2>5, <2>6, <2>7, <2>8 DEF IndexSound, True
  <2>11. LibraryTypes'
    BY <2>2, <2>9 DEF LibraryInv, LibraryTypes, GoesOn, Library!Indexing
  <2> QED
    BY <2>2, <2>8, <2>9, <2>10, <2>11, IndexGoesOn, WaitsGoOn DEF LibraryInv
<1>7. ASSUME NEW r \in runs, Library!IndexFails(r) PROVE LibraryInv'
  <2>1. /\ Library!Ends(r, Library!Failed) /\ r.pc # "queue"
        /\ UNCHANGED <<disk, cache, library, fresh, age, repeated>>
    BY <1>7 DEF Library!IndexFails
  <2>2. Library!Failed \in [state : {"succeeded", "failed"}, cooldown : Nat]
    BY DEF Library!Failed
  <2>3. LibraryTypes' /\ RunInv' /\ \A s \in runs' : s \in runs \/ s \in Library!Booting
    BY <1>b, <2>1, <2>2, TasksEnd
  <2>4. IndexInv'
    BY <2>1, <2>3, BootingTyped
       DEF LibraryInv, IndexInv, IndexSound, True, IndexIsTrue, Library!IndexIsTrue
  <2> QED
    BY <2>3, <2>4 DEF LibraryInv
<1>8. ASSUME NEW r \in runs, Library!StoreCache(r) PROVE LibraryInv'
  <2> DEFINE s == [r EXCEPT !.pc = "swap"]
  <2>1. /\ s \in Tasks /\ s.kind = r.kind /\ s.pc = "swap" /\ s.found = r.found
        /\ s.left = r.left /\ s.done = r.done /\ s.calm = r.calm
    BY <1>a DEF Tasks
  <2> HIDE DEF s
  <2>2. /\ GoesOn(r, s) /\ Library!Indexing(r) /\ Library!Indexing(s) /\ r.left = {} /\ r.pc = "hash"
        /\ cache' \in {r.done, cache}
        /\ UNCHANGED <<disk, library, status, fresh, age, repeated>>
    BY <1>8, <2>1 DEF Library!StoreCache, Library!Becomes, GoesOn, Library!Indexing, s
  <2>3. IndexSound(s)
    BY <1>a, <2>1, <2>2 DEF IndexSound
  <2>4. LibraryTypes'
    BY <1>a, <2>2 DEF LibraryInv, LibraryTypes, GoesOn, Library!Indexing
  <2>5. IndexInv'
    BY <1>a, <2>2, <2>3
       DEF LibraryInv, IndexInv, IndexSound, True, GoesOn, IndexIsTrue, Library!IndexIsTrue,
           Library!Indexing
  <2> QED
    BY <2>1, <2>2, <2>4, <2>5, WaitsGoOn DEF LibraryInv
<1>9. ASSUME NEW r \in runs, Library!Swap(r) PROVE LibraryInv'
  <2>1. /\ Library!Indexing(r) /\ r.pc = "swap" /\ r.left = {}
        /\ library' \subseteq r.done
        /\ {e.content : e \in library'} = {e.content : e \in r.done}
        /\ fresh' = r.calm
        /\ UNCHANGED <<disk, cache, age, repeated>>
    BY <1>9, <1>a DEF Library!Swap, Library!Distinct, IndexSound
  <2>2. IndexIsTrue'
    BY <1>a, <2>1 DEF IndexSound, IndexIsTrue, Library!IndexIsTrue
  <2>3. CASE r.kind = "boot"
    <3> DEFINE s == Library!Task("startup", "snapshot", {}, {})
    <3>1. /\ s \in Tasks /\ s.kind = "startup" /\ s.pc = "snapshot" /\ s.left = {}
      BY DEF Library!Task, Tasks
    <3>2. runs' = {s} /\ UNCHANGED status
      BY <1>9, <2>3 DEF Library!Swap
    <3>3. \A q \in runs : q = r
      BY <2>3 DEF LibraryInv, RunInv, OneEach
    <3> HIDE DEF s
    <3>4. ~ Library!Indexing(s)
      BY <3>1 DEF Library!Indexing
    <3>5. LibraryTypes'
      BY <1>a, <2>1, <3>1, <3>2, <3>4 DEF LibraryInv, LibraryTypes, Library!Indexing
    <3>6. IndexInv'
      BY <2>1, <2>2, <3>2, <3>4 DEF LibraryInv, IndexInv, IndexSound, True, Library!Indexing
    <3>7. RunInv'
      BY <2>1, <2>3, <3>1, <3>2, <3>3
         DEF LibraryInv, RunInv, OneEach, Waited, AnnouncedOnce, Library!AnnouncedOnce
    <3> QED
      BY <3>5, <3>6, <3>7 DEF LibraryInv
  <2>4. CASE r.kind # "boot"
    <3> DEFINE result == [state |-> "succeeded", cooldown |-> 0]
    <3>1. result \in [state : {"succeeded", "failed"}, cooldown : Nat]
      OBVIOUS
    <3>2. Library!Ends(r, result)
      BY <1>9, <2>4 DEF Library!Swap
    <3> HIDE DEF result
    <3>3. LibraryTypes' /\ RunInv' /\ \A s \in runs' : s \in runs \/ s \in Library!Booting
      BY <1>a, <2>1, <3>1, <3>2, TasksEnd
    <3>4. IndexInv'
      BY <2>1, <2>2, <3>3, BootingTyped DEF LibraryInv, IndexInv, IndexSound, True
    <3> QED
      BY <3>3, <3>4 DEF LibraryInv
  <2> QED
    BY <2>3, <2>4
<1>10. ASSUME NEW r \in runs, Library!Snapshot(r) PROVE LibraryInv'
  <2>0. r.pc = "snapshot" /\ ~ Library!Indexing(r)
        /\ UNCHANGED <<disk, cache, library, fresh, age, repeated>>
    BY <1>10, <1>a DEF Library!Snapshot
  <2>1. CASE /\ runs' = (runs \ {r}) \cup {Library!Task(r.kind, "queue", {}, {e.content : e \in library})}
             /\ UNCHANGED status
    <3> DEFINE all == {e.content : e \in library} \cap Contents
    <3>1. {e.content : e \in library} \subseteq Contents
      BY DEF LibraryInv, LibraryTypes, Entries
    <3> DEFINE s == Library!Task(r.kind, "queue", {}, all)
    <3>2. /\ s \in Tasks /\ s.kind = r.kind /\ s.pc = "queue" /\ s.left \subseteq Contents
      BY <1>a DEF Library!Task, Tasks
    <3>3. runs' = (runs \ {r}) \cup {s}
      <4>1. all = {e.content : e \in library}
        BY <3>1
      <4> QED
        BY <2>1, <4>1
    <3> HIDE DEF s
    <3>4. GoesOn(r, s) /\ ~ Library!Indexing(s)
      BY <2>0, <3>2, <3>3 DEF GoesOn, Library!Indexing
    <3>5. IndexSound(s)
      BY <3>4 DEF IndexSound
    <3>6. LibraryTypes'
      BY <2>0, <2>1, <3>4 DEF LibraryInv, LibraryTypes, GoesOn, Library!Indexing
    <3> QED
      BY <2>0, <2>1, <3>2, <3>4, <3>5, <3>6, IndexGoesOn, WaitsGoOn DEF LibraryInv
  <2>2. CASE Library!Ends(r, Library!Failed)
    <3>1. Library!Failed \in [state : {"succeeded", "failed"}, cooldown : Nat]
      BY DEF Library!Failed
    <3>2. LibraryTypes' /\ RunInv' /\ \A s \in runs' : s \in runs \/ s \in Library!Booting
      BY <1>b, <2>0, <2>2, <3>1, TasksEnd
    <3>3. IndexInv'
      BY <2>0, <3>2, BootingTyped
         DEF LibraryInv, IndexInv, IndexSound, True, IndexIsTrue, Library!IndexIsTrue
    <3> QED
      BY <3>2, <3>3 DEF LibraryInv
  <2> QED
    BY <1>10, <2>1, <2>2 DEF Library!Snapshot, Library!Becomes
<1>11. ASSUME NEW r \in runs, NEW c \in r.left, Library!QueuePublish(r, c) PROVE LibraryInv'
  <2> DEFINE s == [r EXCEPT !.left = @ \ {c}]
  <2>0. /\ r.pc = "queue" /\ ~ Library!Indexing(r) /\ c \in Contents
        /\ UNCHANGED <<disk, cache, library, status, fresh>>
    BY <1>11, <1>a DEF Library!QueuePublish
  <2>1. /\ s \in Tasks /\ s.kind = r.kind /\ s.pc = "queue" /\ s.left = r.left \ {c}
    BY <1>a, <2>0 DEF Tasks
  <2> HIDE DEF s
  <2>2. GoesOn(r, s) /\ ~ Library!Indexing(s)
    BY <1>11, <1>a, <2>0, <2>1
       DEF Library!QueuePublish, Library!Becomes, GoesOn, Library!Indexing, s
  <2>3. IndexSound(s)
    BY <2>2 DEF IndexSound
  <2>4. CASE UNCHANGED <<age, repeated>>
    <3>1. LibraryTypes'
      BY <2>0, <2>2, <2>4 DEF LibraryInv, LibraryTypes, GoesOn, Library!Indexing
    <3> QED
      BY <2>0, <2>1, <2>2, <2>3, <2>4, <3>1, IndexGoesOn, WaitsGoOn DEF LibraryInv
  <2>5. CASE /\ r.kind \in Republish
             /\ age' = [age EXCEPT ![r.kind][c] = 0]
             /\ repeated' = (repeated \/ age[r.kind][c] < Cooldown)
    <3>1. age' \in [Republish -> [Contents -> Nat]]
      BY <2>0, <2>5 DEF LibraryInv, LibraryTypes
    <3>2. LibraryTypes'
      BY <2>0, <2>2, <3>1 DEF LibraryInv, LibraryTypes, GoesOn, Library!Indexing
    <3>3. age[r.kind][c] >= Cooldown /\ age[r.kind][c] \in Nat
      BY <2>0, <2>5 DEF LibraryInv, LibraryTypes, RunInv, Waited
    <3>4. ASSUME NEW k \in Republish, NEW d \in Contents PROVE Waited(k, d)'
      <4>1. k # r.kind \/ d # c => age'[k][d] = age[k][d]
        BY <2>0, <2>5 DEF LibraryInv, LibraryTypes
      <4>2. \A q \in runs : q.kind = r.kind => q = r
        BY DEF LibraryInv, RunInv, OneEach
      <4> QED
        BY <2>0, <2>1, <2>2, <4>1, <4>2 DEF LibraryInv, RunInv, Waited, GoesOn
    <3>5. ~ repeated'
      <4>1. ~ repeated /\ ~ (age[r.kind][c] < Cooldown)
        BY <3>3 DEF LibraryInv, RunInv, AnnouncedOnce, Library!AnnouncedOnce
      <4> QED
        BY <2>5, <4>1, Zenon
    <3>6. RunInv'
      BY <2>0, <2>2, <3>4, <3>5, TasksGoOn
         DEF LibraryInv, RunInv, AnnouncedOnce, Library!AnnouncedOnce
    <3> QED
      BY <2>0, <2>2, <2>3, <3>2, <3>6, IndexGoesOn DEF LibraryInv
  <2> QED
    BY <1>11, <2>4, <2>5 DEF Library!QueuePublish
<1>12. ASSUME NEW r \in runs, Library!EndPublish(r) PROVE LibraryInv'
  <2>1. PICK state \in {"succeeded", "failed"} :
           Library!Ends(r, [state |-> state, cooldown |-> Cooldown])
    BY <1>12 DEF Library!EndPublish
  <2> DEFINE result == [state |-> state, cooldown |-> Cooldown]
  <2>2. /\ result \in [state : {"succeeded", "failed"}, cooldown : Nat]
        /\ result.cooldown = Cooldown
    OBVIOUS
  <2>3. UNCHANGED <<disk, cache, library, fresh, age, repeated>>
    BY <1>12 DEF Library!EndPublish
  <2> HIDE DEF result
  <2>4. LibraryTypes' /\ RunInv' /\ \A s \in runs' : s \in runs \/ s \in Library!Booting
    <3>1. Library!Ends(r, result)
      BY <2>1 DEF result
    <3> QED
      BY <1>b, <2>2, <2>3, <3>1, TasksEnd
  <2>5. IndexInv'
    BY <2>3, <2>4, BootingTyped
       DEF LibraryInv, IndexInv, IndexSound, True, IndexIsTrue, Library!IndexIsTrue
  <2> QED
    BY <2>4, <2>5 DEF LibraryInv
<1> QED
  BY <1>1, <1>2, <1>3, <1>4, <1>5, <1>6, <1>7, <1>8, <1>9, <1>10, <1>11, <1>12
     DEF Library!Next

LEMMA LibrarySound == Spec => []LibraryInv
<1>1. LibraryInv /\ [Next]_vars => LibraryInv'
  <2>1. ASSUME LibraryInv, UNCHANGED shared PROVE LibraryInv'
    <3>1. LibraryTypes'
      BY <2>1 DEF LibraryInv, LibraryTypes, Library!Indexing, shared
    <3>2. IndexInv'
      BY <2>1
         DEF LibraryInv, IndexInv, IndexSound, True, IndexIsTrue, Library!IndexIsTrue,
             Library!Indexing, shared
    <3>3. RunInv'
      BY <2>1
         DEF LibraryInv, RunInv, OneEach, Waited, AnnouncedOnce, Library!AnnouncedOnce, shared
    <3> QED
      BY <3>1, <3>2, <3>3 DEF LibraryInv
  <2> QED
    BY <2>1, LibraryStep DEF Next, vars
<1> QED
  BY <1>1, LibraryInit, PTL DEF Spec

\* An index during which no file changed is right, whatever the cache holds of
\* earlier ones that were overtaken by changes, failed or were killed.
THEOREM IndexesAreTrue == Spec => []IndexIsTrue
<1>1. LibraryInv => IndexIsTrue
  BY DEF LibraryInv, IndexInv
<1> QED
  BY <1>1, LibrarySound, PTL

\* However starts, tasks and their failures interleave, nothing that an API client
\* had announced is announced again before the cooldown is over.
THEOREM AnnouncementsAreSpaced == Spec => []AnnouncedOnce
<1>1. LibraryInv => AnnouncedOnce
  BY DEF LibraryInv, RunInv
<1> QED
  BY <1>1, LibrarySound, PTL

-----------------------------------------------------------------------------
(* Uploads *)

\* A set of positions has an order.
LEMMA InOrder ==
    ASSUME NEW n \in Nat, NEW K \in SUBSET (1 .. n)
    PROVE  /\ IsFiniteSet(K) /\ Cardinality(K) \in Nat
           /\ \E f \in [1 .. Cardinality(K) -> K] :
                 \A i, j \in 1 .. Cardinality(K) : i < j => f[i] < f[j]
<1> DEFINE Ordering(L, m) == \E f \in [1 .. m -> L] : \A i, j \in 1 .. m : i < j => f[i] < f[j]
           Fine(L) == IsFiniteSet(L) /\ Cardinality(L) \in Nat /\ Ordering(L, Cardinality(L))
           S == {k \in Nat : \A L \in SUBSET (1 .. k) : Fine(L)}
<1>1. 0 \in S
  <2>1. ASSUME NEW L \in SUBSET (1 .. 0) PROVE Fine(L)
    <3>1. L = {}
      OBVIOUS
    <3>2. IsFiniteSet(L) /\ Cardinality(L) = 0
      BY <3>1, FS_EmptySet
    <3>3. [i \in 1 .. 0 |-> 0] \in [1 .. 0 -> L] /\ \A i, j \in 1 .. 0 : FALSE
      OBVIOUS
    <3>4. Ordering(L, 0)
      BY <3>3
    <3>5. Cardinality(L) \in Nat /\ Ordering(L, Cardinality(L))
      <4> HIDE DEF Ordering
      <4> QED
        BY <3>2, <3>4
    <3> QED
      BY <3>2, <3>5
  <2> QED
    BY <2>1
<1>2. ASSUME NEW k \in Nat, k \in S PROVE k + 1 \in S
  <2>1. ASSUME NEW L \in SUBSET (1 .. k + 1) PROVE Fine(L)
    <3>1. CASE k + 1 \notin L
      <4>1. L \in SUBSET (1 .. k)
        BY <3>1
      <4> QED
        BY <1>2, <4>1
    <3>2. CASE k + 1 \in L
      <4>1. PICK M : M = L \ {k + 1}
        OBVIOUS
      <4>2. M \in SUBSET (1 .. k)
        BY <4>1
      <4>3. Fine(M)
        BY <1>2, <4>2
      <4>4. PICK m \in Nat : m = Cardinality(M)
        BY <4>3
      <4>5. PICK f \in [1 .. m -> M] : \A i, j \in 1 .. m : i < j => f[i] < f[j]
        BY <4>3, <4>4
      <4>6. L = M \cup {k + 1} /\ k + 1 \notin M
        BY <3>2, <4>1
      <4>7. IsFiniteSet(L) /\ Cardinality(L) = m + 1
        BY <4>3, <4>4, <4>6, FS_AddElement
      <4>8. PICK g : g = [i \in 1 .. m + 1 |-> IF i <= m THEN f[i] ELSE k + 1]
        OBVIOUS
      <4>9. \A i \in 1 .. m : f[i] \in M /\ f[i] \in 1 .. k
        BY <4>2, <4>5
      <4>10. \A i \in 1 .. m + 1 : i <= m => i \in 1 .. m
        BY <4>4
      <4>11. g \in [1 .. m + 1 -> L]
        BY <4>6, <4>8, <4>9, <4>10
      <4>12. ASSUME NEW i \in 1 .. m + 1, NEW j \in 1 .. m + 1, i < j PROVE g[i] < g[j]
        <5>1. i \in 1 .. m /\ i <= m /\ g[i] = f[i]
          BY <4>8, <4>12
        <5>2. CASE j <= m
          <6>1. j \in 1 .. m /\ g[j] = f[j]
            BY <4>8, <5>2
          <6> QED
            BY <4>5, <4>12, <5>1, <6>1
        <5>3. CASE ~ (j <= m)
          <6>1. g[j] = k + 1
            BY <4>8, <5>3
          <6>2. f[i] \in 1 .. k
            BY <4>9, <5>1
          <6> QED
            BY <5>1, <6>1, <6>2
        <5> QED
          BY <5>2, <5>3
      <4>13. Ordering(L, m + 1)
        BY <4>11, <4>12
      <4> QED
        BY <4>7, <4>13
    <3> QED
      BY <3>1, <3>2
  <2>2. k + 1 \in Nat
    OBVIOUS
  <2> QED
    BY <2>1, <2>2
<1>3. n \in S
  <2> HIDE DEF S
  <2>1. Nat \subseteq S
    BY <1>1, <1>2, Induction
  <2> QED
    BY <2>1
<1> QED
  BY <1>3

LEMMA UploadsConstants == MaxRecent \in Nat \ {0} /\ ActivityTTL \in Nat \ {0} /\ Retention \in Nat \ {0}
BY InstancesAssumption DEF Uploads!TrackerAssumption

Sessions == [id : Nat, key : Peers \X Ranges, left : Nat, reason : {"none", "expired", "completed"}]

LEMMA EndedIs ==
    ASSUME NEW x \in Sessions, NEW why \in {"expired", "completed"}
    PROVE  LET e == Uploads!Ended(x, why)
           IN  e \in Sessions /\ e.id = x.id /\ e.key = x.key
BY UploadsConstants DEF Sessions, Uploads!Ended

LEMMA AgedIs ==
    ASSUME NEW x \in Sessions
    PROVE  LET e == Uploads!Aged(x)
           IN  e \in Sessions /\ e.id = x.id /\ e.key = x.key
BY DEF Sessions, Uploads!Aged

LEMMA LongerIs ==
    ASSUME NEW s \in Seq(Sessions), NEW i \in DOMAIN s
    PROVE  LET r == [s EXCEPT ![i].left = ActivityTTL]
           IN  /\ r \in Seq(Sessions) /\ Len(r) = Len(s)
               /\ \A j \in 1 .. Len(s) : r[j].id = s[j].id /\ r[j].key = s[j].key
<1>1. PICK x : x = [s[i] EXCEPT !.left = ActivityTTL]
  OBVIOUS
<1>2. s[i] \in Sessions
  OBVIOUS
<1>3. x \in Sessions /\ x.id = s[i].id /\ x.key = s[i].key
  BY <1>1, <1>2, UploadsConstants DEF Sessions
<1>4. PICK r : r = [s EXCEPT ![i] = x]
  OBVIOUS
<1>5. r = [s EXCEPT ![i].left = ActivityTTL]
  BY <1>1, <1>4
<1>6. /\ r \in Seq(Sessions) /\ Len(r) = Len(s) /\ r[i] = x
      /\ \A j \in 1 .. Len(s) : j # i => r[j] = s[j]
  BY <1>3, <1>4
<1> QED
  BY <1>3, <1>5, <1>6

\* The sessions of r are those of s at different positions in K.
Drawn(r, s, K) ==
    \E at \in [1 .. Len(r) -> K] :
        /\ \A i, j \in 1 .. Len(r) : at[i] = at[j] => i = j
        /\ \A i \in 1 .. Len(r) : r[i].id = s[at[i]].id /\ r[i].key = s[at[i]].key

OwnIds(s) == \A i, j \in 1 .. Len(s) : s[i].id = s[j].id => i = j
OwnKeys(s) == \A i, j \in 1 .. Len(s) : s[i].key = s[j].key => i = j
Apart(s, t) == \A i \in 1 .. Len(s), j \in 1 .. Len(t) : s[i].id # t[j].id
UpTo(s, n) == \A i \in 1 .. Len(s) : s[i].id <= n

LEMMA UpToIs ==
    ASSUME NEW s \in Seq(Sessions), NEW n, UpTo(s, n)
    PROVE  \A i \in 1 .. Len(s) : s[i].id \in Nat /\ s[i].id <= n
<1>1. \A i \in 1 .. Len(s) : s[i] \in Sessions
  OBVIOUS
<1> QED
  BY <1>1 DEF UpTo, Sessions

LEMMA DrawnOwnIds ==
    ASSUME NEW r, NEW s, NEW K \in SUBSET (1 .. Len(s)), Drawn(r, s, K), OwnIds(s)
    PROVE  OwnIds(r)
<1>1. PICK at \in [1 .. Len(r) -> K] :
        /\ \A i, j \in 1 .. Len(r) : at[i] = at[j] => i = j
        /\ \A i \in 1 .. Len(r) : r[i].id = s[at[i]].id /\ r[i].key = s[at[i]].key
  BY DEF Drawn
<1>2. \A i \in 1 .. Len(r) : at[i] \in K /\ at[i] \in 1 .. Len(s)
  BY <1>1
<1>3. ASSUME NEW i \in 1 .. Len(r), NEW j \in 1 .. Len(r), r[i].id = r[j].id PROVE i = j
  <2>1. s[at[i]].id = s[at[j]].id
    BY <1>1, <1>3
  <2>2. at[i] = at[j]
    BY <1>2, <2>1 DEF OwnIds
  <2> QED
    BY <1>1, <2>2
<1> QED
  BY <1>3 DEF OwnIds

LEMMA DrawnOwnKeys ==
    ASSUME NEW r, NEW s, NEW K \in SUBSET (1 .. Len(s)), Drawn(r, s, K), OwnKeys(s)
    PROVE  OwnKeys(r)
<1>1. PICK at \in [1 .. Len(r) -> K] :
        /\ \A i, j \in 1 .. Len(r) : at[i] = at[j] => i = j
        /\ \A i \in 1 .. Len(r) : r[i].id = s[at[i]].id /\ r[i].key = s[at[i]].key
  BY DEF Drawn
<1>2. \A i \in 1 .. Len(r) : at[i] \in K /\ at[i] \in 1 .. Len(s)
  BY <1>1
<1>3. ASSUME NEW i \in 1 .. Len(r), NEW j \in 1 .. Len(r), r[i].key = r[j].key PROVE i = j
  <2>1. s[at[i]].key = s[at[j]].key
    BY <1>1, <1>3
  <2>2. at[i] = at[j]
    BY <1>2, <2>1 DEF OwnKeys
  <2> QED
    BY <1>1, <2>2
<1> QED
  BY <1>3 DEF OwnKeys

LEMMA DrawnApart ==
    ASSUME NEW r, NEW s, NEW K \in SUBSET (1 .. Len(s)), Drawn(r, s, K), NEW t, Apart(s, t)
    PROVE  Apart(r, t)
<1>1. PICK at \in [1 .. Len(r) -> K] :
        /\ \A i, j \in 1 .. Len(r) : at[i] = at[j] => i = j
        /\ \A i \in 1 .. Len(r) : r[i].id = s[at[i]].id /\ r[i].key = s[at[i]].key
  BY DEF Drawn
<1>2. \A i \in 1 .. Len(r) : at[i] \in K /\ at[i] \in 1 .. Len(s)
  BY <1>1
<1>3. ASSUME NEW i \in 1 .. Len(r), NEW j \in 1 .. Len(t) PROVE r[i].id # t[j].id
  BY <1>1, <1>2 DEF Apart
<1> QED
  BY <1>3 DEF Apart

LEMMA DrawnUpTo ==
    ASSUME NEW r, NEW s, NEW K \in SUBSET (1 .. Len(s)), Drawn(r, s, K), NEW n, UpTo(s, n)
    PROVE  UpTo(r, n)
BY DEF Drawn, UpTo

\* What is drawn from different positions is apart.
LEMMA DrawnDisjoint ==
    ASSUME NEW s, OwnIds(s), NEW K \in SUBSET (1 .. Len(s)), NEW L \in SUBSET (1 .. Len(s)),
           K \cap L = {}, NEW r, Drawn(r, s, K), NEW q, Drawn(q, s, L)
    PROVE  Apart(r, q)
<1>1. PICK at \in [1 .. Len(r) -> K] :
        /\ \A i, j \in 1 .. Len(r) : at[i] = at[j] => i = j
        /\ \A i \in 1 .. Len(r) : r[i].id = s[at[i]].id /\ r[i].key = s[at[i]].key
  BY DEF Drawn
<1>2. \A i \in 1 .. Len(r) : at[i] \in K /\ at[i] \in 1 .. Len(s)
  BY <1>1
<1>3. PICK by \in [1 .. Len(q) -> L] :
        \A i \in 1 .. Len(q) : q[i].id = s[by[i]].id
  BY DEF Drawn
<1>4. \A i \in 1 .. Len(q) : by[i] \in L /\ by[i] \in 1 .. Len(s)
  BY <1>3
<1>5. ASSUME NEW i \in 1 .. Len(r), NEW j \in 1 .. Len(q), r[i].id = q[j].id PROVE FALSE
  <2>1. s[at[i]].id = s[by[j]].id
    BY <1>1, <1>3, <1>5
  <2>2. at[i] = by[j]
    BY <1>2, <1>4, <2>1 DEF OwnIds
  <2> QED
    BY <1>2, <1>4, <2>2
<1> QED
  BY <1>5 DEF Apart

LEMMA ApartBack == ASSUME NEW s, NEW t, Apart(s, t) PROVE Apart(t, s)
BY DEF Apart

LEMMA JoinedOwnIds ==
    ASSUME NEW S, NEW s \in Seq(S), NEW t \in Seq(S), OwnIds(s), OwnIds(t), Apart(s, t)
    PROVE  OwnIds(s \o t)
<1>1. PICK l, m \in Nat : l = Len(s) /\ m = Len(t)
  OBVIOUS
<1>2. PICK u : u = s \o t
  OBVIOUS
<1>3. /\ Len(u) = l + m /\ \A i \in 1 .. l : u[i] = s[i]
      /\ \A i \in 1 .. m : u[l + i] = t[i]
  BY <1>1, <1>2, Joined
<1>4. ASSUME NEW i \in 1 .. l + m, ~ (i <= l) PROVE i - l \in 1 .. m /\ u[i] = t[i - l]
  <2>1. i - l \in 1 .. m /\ l + (i - l) = i
    BY <1>4
  <2> QED
    BY <1>3, <2>1
<1>5. ASSUME NEW i \in 1 .. l + m, NEW j \in 1 .. l + m, u[i].id = u[j].id PROVE i = j
  <2>1. CASE i <= l /\ j <= l
    <3>1. i \in 1 .. l /\ j \in 1 .. l
      BY <2>1
    <3> QED
      BY <1>1, <1>3, <1>5, <3>1 DEF OwnIds
  <2>2. CASE i <= l /\ ~ (j <= l)
    <3>1. i \in 1 .. l
      BY <2>2
    <3>2. j - l \in 1 .. m /\ u[j] = t[j - l] /\ u[i] = s[i]
      BY <1>3, <1>4, <2>2, <3>1
    <3>3. s[i].id # t[j - l].id
      BY <1>1, <3>1, <3>2 DEF Apart
    <3> QED
      BY <1>5, <3>2, <3>3
  <2>3. CASE ~ (i <= l) /\ j <= l
    <3>1. j \in 1 .. l
      BY <2>3
    <3>2. i - l \in 1 .. m /\ u[i] = t[i - l] /\ u[j] = s[j]
      BY <1>3, <1>4, <2>3, <3>1
    <3>3. s[j].id # t[i - l].id
      BY <1>1, <3>1, <3>2 DEF Apart
    <3> QED
      BY <1>5, <3>2, <3>3
  <2>4. CASE ~ (i <= l) /\ ~ (j <= l)
    <3>1. i - l \in 1 .. m /\ j - l \in 1 .. m /\ t[i - l].id = t[j - l].id
      BY <1>4, <1>5, <2>4
    <3>2. i - l = j - l
      BY <1>1, <3>1 DEF OwnIds
    <3> QED
      BY <3>2
  <2> QED
    BY <2>1, <2>2, <2>3, <2>4
<1> QED
  BY <1>2, <1>3, <1>5 DEF OwnIds

LEMMA JoinedApart ==
    ASSUME NEW S, NEW s \in Seq(S), NEW t \in Seq(S), NEW q, Apart(q, s), Apart(q, t)
    PROVE  Apart(q, s \o t)
<1>1. PICK l, m \in Nat : l = Len(s) /\ m = Len(t)
  OBVIOUS
<1>2. PICK u : u = s \o t
  OBVIOUS
<1>3. /\ Len(u) = l + m /\ \A i \in 1 .. l : u[i] = s[i]
      /\ \A i \in 1 .. m : u[l + i] = t[i]
  BY <1>1, <1>2, Joined
<1>4. ASSUME NEW i \in 1 .. l + m, NEW k \in 1 .. Len(q) PROVE q[k].id # u[i].id
  <2>1. CASE i <= l
    <3>1. i \in 1 .. l
      BY <2>1
    <3> QED
      BY <1>1, <1>3, <3>1 DEF Apart
  <2>2. CASE ~ (i <= l)
    <3>1. i - l \in 1 .. m /\ l + (i - l) = i
      BY <2>2
    <3>2. u[i] = t[i - l]
      BY <1>3, <3>1
    <3> QED
      BY <1>1, <3>1, <3>2 DEF Apart
  <2> QED
    BY <2>1, <2>2
<1> QED
  BY <1>2, <1>3, <1>4 DEF Apart

LEMMA JoinedUpTo ==
    ASSUME NEW S, NEW s \in Seq(S), NEW t \in Seq(S), NEW n, UpTo(s, n), UpTo(t, n)
    PROVE  UpTo(s \o t, n)
<1>1. PICK l, m \in Nat : l = Len(s) /\ m = Len(t)
  OBVIOUS
<1>2. PICK u : u = s \o t
  OBVIOUS
<1>3. /\ Len(u) = l + m /\ \A i \in 1 .. l : u[i] = s[i]
      /\ \A i \in 1 .. m : u[l + i] = t[i]
  BY <1>1, <1>2, Joined
<1>4. ASSUME NEW i \in 1 .. l + m PROVE u[i].id <= n
  <2>1. CASE i <= l
    <3>1. i \in 1 .. l
      BY <2>1
    <3> QED
      BY <1>1, <1>3, <3>1 DEF UpTo
  <2>2. CASE ~ (i <= l)
    <3>1. i - l \in 1 .. m /\ l + (i - l) = i
      BY <2>2
    <3> QED
      BY <1>1, <1>3, <3>1 DEF UpTo
  <2> QED
    BY <2>1, <2>2
<1> QED
  BY <1>2, <1>3, <1>4 DEF UpTo

\* What is running, or over, of a list of sessions.
LEMMA AtIs ==
    ASSUME NEW s \in Seq(Sessions), NEW K \in SUBSET (1 .. Len(s))
    PROVE  LET r == Uploads!At(s, K) IN
           /\ r \in Seq(Sessions) /\ Drawn(r, s, K)
           /\ \A i \in 1 .. Len(r) : \E j \in K : r[i] = s[j]
<1>1. PICK l \in Nat : l = Len(s)
  OBVIOUS
<1>2. \A S : Uploads!Cardinality(S) = Cardinality(S)
  BY DEF Uploads!Cardinality, Cardinality, Uploads!IsFiniteSet, IsFiniteSet
<1>3. PICK n \in Nat : n = Uploads!Cardinality(K)
  BY <1>1, <1>2, InOrder
<1>4. \E f \in [1 .. n -> K] : \A i, j \in 1 .. n : i < j => f[i] < f[j]
  BY <1>1, <1>2, <1>3, InOrder
<1>5. PICK at : at = CHOOSE f \in [1 .. n -> K] : \A i, j \in 1 .. n : i < j => f[i] < f[j]
  OBVIOUS
<1>6. at \in [1 .. n -> K] /\ \A i, j \in 1 .. n : i < j => at[i] < at[j]
  BY <1>4, <1>5
<1>7. PICK r : r = [i \in 1 .. n |-> s[at[i]]]
  OBVIOUS
<1>8. r = Uploads!At(s, K)
  BY <1>3, <1>5, <1>7 DEF Uploads!At
<1>9. \A i \in 1 .. n : at[i] \in K /\ at[i] \in 1 .. l /\ s[at[i]] \in Sessions
  <2>1. \A j \in 1 .. l : s[j] \in Sessions
    BY <1>1
  <2>2. \A i \in 1 .. n : at[i] \in K
    BY <1>6
  <2> QED
    BY <1>1, <2>1, <2>2
<1>10. r \in Seq(Sessions) /\ Len(r) = n /\ \A i \in 1 .. n : r[i] = s[at[i]]
  BY <1>7, <1>9
<1>11. ASSUME NEW i \in 1 .. n, NEW j \in 1 .. n, at[i] = at[j] PROVE i = j
  <2>1. at[i] \in Nat /\ at[j] \in Nat
    BY <1>9
  <2>2. ~ (at[i] < at[j]) /\ ~ (at[j] < at[i])
    BY <1>11, <2>1
  <2>3. ~ (i < j) /\ ~ (j < i)
    BY <1>6, <2>2
  <2> QED
    BY <2>3
<1>12. Drawn(r, s, K)
  BY <1>6, <1>10, <1>11 DEF Drawn
<1>13. \A i \in 1 .. Len(r) : \E j \in K : r[i] = s[j]
  BY <1>9, <1>10
<1> QED
  BY <1>8, <1>10, <1>12, <1>13

\* The last of a list.
LEMMA CappedIs ==
    ASSUME NEW s \in Seq(Sessions)
    PROVE  Uploads!Capped(s) \in Seq(Sessions) /\ Drawn(Uploads!Capped(s), s, 1 .. Len(s))
<1> USE UploadsConstants
<1>1. PICK l \in Nat : l = Len(s)
  OBVIOUS
<1>2. CASE l > MaxRecent
  <2>1. PICK d \in Nat : d = l - MaxRecent /\ d <= l
    BY <1>2
  <2>2. PICK r : r = SubSeq(s, d + 1, l)
    OBVIOUS
  <2>3. r = Uploads!Capped(s)
    BY <1>1, <1>2, <2>1, <2>2 DEF Uploads!Capped
  <2>4. r \in Seq(Sessions) /\ Len(r) = l - d /\ \A i \in 1 .. l - d : r[i] = s[i + d]
    <3>1. d + 1 \in 1 .. l /\ l \in 1 .. l
      BY <1>2, <2>1
    <3>2. /\ r \in Seq(Sessions) /\ Len(r) = l - (d + 1) + 1
          /\ \A i \in 1 .. l - (d + 1) + 1 : r[i] = s[(d + 1) + i - 1]
      BY <1>1, <2>2, <3>1
    <3>3. l - (d + 1) + 1 = l - d
      BY <2>1
    <3>4. \A i \in 1 .. l - d : (d + 1) + i - 1 = i + d
      BY <2>1
    <3> QED
      BY <3>2, <3>3, <3>4
  <2>5. \A i \in 1 .. l - d : i + d \in 1 .. l
    BY <2>1
  <2>6. [i \in 1 .. l - d |-> i + d] \in [1 .. l - d -> 1 .. l]
    BY <2>5
  <2>7. \A i, j \in 1 .. l - d : i + d = j + d => i = j
    BY <2>1
  <2>8. Drawn(r, s, 1 .. l)
    <3>1. PICK at : at = [i \in 1 .. l - d |-> i + d]
      OBVIOUS
    <3>2. at \in [1 .. Len(r) -> 1 .. l] /\ \A i, j \in 1 .. Len(r) : at[i] = at[j] => i = j
      BY <2>4, <2>6, <2>7, <3>1
    <3>3. \A i \in 1 .. Len(r) : r[i] = s[at[i]]
      BY <2>4, <3>1
    <3> QED
      BY <3>2, <3>3 DEF Drawn
  <2> QED
    BY <1>1, <2>3, <2>4, <2>8
<1>3. CASE ~ (l > MaxRecent)
  <2>1. Uploads!Capped(s) = s
    BY <1>1, <1>3 DEF Uploads!Capped
  <2>2. PICK at : at = [i \in 1 .. Len(s) |-> i]
    OBVIOUS
  <2>3. /\ at \in [1 .. Len(s) -> 1 .. Len(s)] /\ \A i, j \in 1 .. Len(s) : at[i] = at[j] => i = j
        /\ \A i \in 1 .. Len(s) : s[i] = s[at[i]]
    BY <2>2
  <2>4. Drawn(s, s, 1 .. Len(s))
    BY <2>3 DEF Drawn
  <2> QED
    BY <2>1, <2>4
<1> QED
  BY <1>2, <1>3

\* Sessions that change one by one stay what they are.
LEMMA ChangedIs ==
    ASSUME NEW s \in Seq(Sessions), NEW r \in Seq(Sessions), Len(r) = Len(s),
           \A i \in 1 .. Len(s) : r[i].id = s[i].id /\ r[i].key = s[i].key
    PROVE  Drawn(r, s, 1 .. Len(s))
<1>1. PICK at : at = [i \in 1 .. Len(s) |-> i]
  OBVIOUS
<1>2. /\ at \in [1 .. Len(r) -> 1 .. Len(s)] /\ \A i, j \in 1 .. Len(r) : at[i] = at[j] => i = j
      /\ \A i \in 1 .. Len(r) : s[at[i]] = s[i]
  BY <1>1
<1> QED
  BY <1>2 DEF Drawn

\* Every session has its number, the active ones their ranges too.
Numbered(a, r, n) ==
    /\ a \in Seq(Sessions) /\ r \in Seq(Sessions) /\ n \in Nat
    /\ OwnIds(a) /\ OwnIds(r) /\ Apart(a, r) /\ OwnKeys(a)
    /\ UpTo(a, n) /\ UpTo(r, n)

\* Of the active ones, those that run stay and those that are over go on the end of the
\* history.
LEMMA Pruned ==
    ASSUME Numbered(active, recent, next_id)
    PROVE  /\ Numbered(Uploads!PrunedActive, Uploads!PrunedRecent, next_id)
           /\ \A i \in 1 .. Len(Uploads!PrunedActive) :
                 \E j \in 1 .. Len(active) : Uploads!PrunedActive[i] = active[j]
<1>1. PICK K, L, M : /\ K = Uploads!RunningIn(active) /\ L = DOMAIN active \ K
                     /\ M = Uploads!RunningIn(recent)
  OBVIOUS
<1>2. /\ active \in Seq(Sessions) /\ recent \in Seq(Sessions) /\ next_id \in Nat
      /\ OwnIds(active) /\ OwnIds(recent) /\ Apart(active, recent) /\ OwnKeys(active)
      /\ UpTo(active, next_id) /\ UpTo(recent, next_id)
  BY DEF Numbered
<1>3. /\ K \in SUBSET (1 .. Len(active)) /\ L \in SUBSET (1 .. Len(active)) /\ K \cap L = {}
      /\ M \in SUBSET (1 .. Len(recent))
  BY <1>1, <1>2 DEF Uploads!RunningIn
<1>4. PICK a, over, old : /\ a = Uploads!At(active, K) /\ over = Uploads!At(active, L)
                          /\ old = Uploads!At(recent, M)
  OBVIOUS
<1>5. /\ a \in Seq(Sessions) /\ Drawn(a, active, K)
      /\ \A i \in 1 .. Len(a) : \E j \in K : a[i] = active[j]
  BY <1>2, <1>3, <1>4, AtIs
<1>6. over \in Seq(Sessions) /\ Drawn(over, active, L)
  BY <1>2, <1>3, <1>4, AtIs
<1>7. old \in Seq(Sessions) /\ Drawn(old, recent, M)
  BY <1>2, <1>3, <1>4, AtIs
<1>8. PICK expired : expired = [i \in DOMAIN over |-> Uploads!Ended(over[i], "expired")]
  OBVIOUS
<1>9. /\ expired \in Seq(Sessions) /\ Len(expired) = Len(over)
      /\ Drawn(expired, over, 1 .. Len(over))
  <2>1. PICK n \in Nat : n = Len(over) /\ DOMAIN over = 1 .. n
    BY <1>6
  <2>2. \A i \in 1 .. n : over[i] \in Sessions
    BY <1>6, <2>1
  <2>3. \A x \in Sessions : LET e == Uploads!Ended(x, "expired")
                            IN  e \in Sessions /\ e.id = x.id /\ e.key = x.key
    <3>1. "expired" \in {"expired", "completed"}
      OBVIOUS
    <3> QED
      BY <3>1, EndedIs
  <2>4. expired \in Seq(Sessions) /\ Len(expired) = n
        /\ \A i \in 1 .. n : expired[i] = Uploads!Ended(over[i], "expired")
    BY <1>8, <2>1, <2>2, <2>3
  <2>5. \A i \in 1 .. n : expired[i].id = over[i].id /\ expired[i].key = over[i].key
    BY <2>2, <2>3, <2>4
  <2> QED
    BY <1>6, <2>1, <2>4, <2>5, ChangedIs
<1>10. OwnIds(a) /\ OwnKeys(a) /\ UpTo(a, next_id) /\ Apart(a, recent) /\ Apart(a, over)
  BY <1>2, <1>3, <1>5, <1>6, DrawnOwnIds, DrawnOwnKeys, DrawnUpTo, DrawnApart, DrawnDisjoint
<1>11. OwnIds(over) /\ UpTo(over, next_id) /\ Apart(over, recent)
  BY <1>2, <1>3, <1>6, DrawnOwnIds, DrawnUpTo, DrawnApart
<1>12. OwnIds(old) /\ UpTo(old, next_id)
  BY <1>2, <1>3, <1>7, DrawnOwnIds, DrawnUpTo
<1>13. Apart(old, a) /\ Apart(old, over)
  BY <1>3, <1>7, <1>10, <1>11, ApartBack, DrawnApart
<1>14. OwnIds(expired) /\ UpTo(expired, next_id)
  BY <1>9, <1>11, DrawnOwnIds, DrawnUpTo
<1>15. Apart(expired, a) /\ Apart(expired, old)
  BY <1>9, <1>10, <1>13, ApartBack, DrawnApart
<1>16. PICK all : all = old \o expired
  OBVIOUS
<1>17. all \in Seq(Sessions)
  BY <1>7, <1>9, <1>16
<1>18. OwnIds(all) /\ UpTo(all, next_id) /\ Apart(a, all)
  BY <1>7, <1>9, <1>12, <1>13, <1>14, <1>15, <1>16, ApartBack, JoinedOwnIds, JoinedUpTo, JoinedApart
<1>19. PICK r : r = Uploads!Capped(all)
  OBVIOUS
<1>20. r \in Seq(Sessions) /\ Drawn(r, all, 1 .. Len(all))
  BY <1>17, <1>19, CappedIs
<1>21. OwnIds(r) /\ UpTo(r, next_id) /\ Apart(r, a)
  BY <1>18, <1>20, ApartBack, DrawnOwnIds, DrawnUpTo, DrawnApart
<1>22. Apart(a, r)
  BY <1>21, ApartBack
<1>23. a = Uploads!PrunedActive /\ r = Uploads!PrunedRecent
  BY <1>1, <1>4, <1>8, <1>16, <1>19 DEF Uploads!PrunedActive, Uploads!PrunedRecent
<1>24. Numbered(a, r, next_id)
  BY <1>2, <1>5, <1>10, <1>20, <1>21, <1>22 DEF Numbered
<1>25. \A i \in 1 .. Len(a) : \E j \in 1 .. Len(active) : a[i] = active[j]
  BY <1>3, <1>5
<1> QED
  BY <1>23, <1>24, <1>25

Readers == {Uploads!Reading(p) : p \in Peers}
Writers == {Uploads!Writing(p, b) : p \in Peers, b \in Ranges}

\* A range is being sent, or was given up.
Sent(key, given_up) == (\E s \in Streams : Uploads!Is(s, key)) \/ key \in given_up

UploadsInv ==
    /\ stream \in [Streams -> {Uploads!Closed} \cup Readers \cup Writers]
    /\ Numbered(active, recent, next_id)
    /\ \A i \in 1 .. Len(active) : Sent(active[i].key, failed)

\* What a stream is doing.
LEMMA StreamIs ==
    /\ \A p \in Peers : Uploads!Reading(p).peer = p /\ "range" \notin DOMAIN Uploads!Reading(p)
    /\ "range" \notin DOMAIN Uploads!Closed
    /\ \A p \in Peers, b \in Ranges : /\ Uploads!Writing(p, b).peer = p
                                      /\ Uploads!Writing(p, b).range = b
                                      /\ "range" \in DOMAIN Uploads!Writing(p, b)
BY DEF Uploads!Reading, Uploads!Closed, Uploads!Writing

\* A stream that starts writing a range, with what was given up but that.
LEMMA SentStart ==
    ASSUME stream \in [Streams -> {Uploads!Closed} \cup Readers \cup Writers],
           NEW s \in Streams, ~ Uploads!IsWriting(s), NEW p \in Peers, NEW b \in Ranges,
           stream' = [stream EXCEPT ![s] = Uploads!Writing(p, b)], failed' = failed \ {<<p, b>>}
    PROVE  /\ (Sent(<<p, b>>, failed))'
           /\ \A key : Sent(key, failed) => (Sent(key, failed))'
<1>1. stream'[s] = Uploads!Writing(p, b) /\ \A t \in Streams : t # s => stream'[t] = stream[t]
  OBVIOUS
<1>2. (Uploads!Is(s, <<p, b>>))'
  BY <1>1, StreamIs DEF Uploads!Is, Uploads!IsWriting
<1> QED
  BY <1>1, <1>2 DEF Sent, Uploads!Is, Uploads!IsWriting

\* One that stops writing its range, or any other.
LEMMA SentStop ==
    ASSUME stream \in [Streams -> {Uploads!Closed} \cup Readers \cup Writers],
           NEW s \in Streams, NEW after, stream' = [stream EXCEPT ![s] = after]
    PROVE  \A key : /\ Sent(key, failed) /\ ~ Uploads!Is(s, key) /\ failed \subseteq failed'
                    => (Sent(key, failed))'
<1>1. \A t \in Streams : t # s => stream'[t] = stream[t]
  OBVIOUS
<1> QED
  BY <1>1 DEF Sent, Uploads!Is, Uploads!IsWriting

\* A range that is noted goes on, or is a new session.
LEMMA NoteStep ==
    ASSUME UploadsInv, NEW s \in Streams, NEW b \in Ranges, Uploads!NoteSending(s, b)
    PROVE  UploadsInv'
<1>1. PICK a, r : a = Uploads!PrunedActive /\ r = Uploads!PrunedRecent
  OBVIOUS
<1>2. /\ Numbered(a, r, next_id)
      /\ \A i \in 1 .. Len(a) : \E j \in 1 .. Len(active) : a[i] = active[j]
  BY <1>1, Pruned DEF UploadsInv
<1>3. PICK p \in Peers : stream[s] = Uploads!Reading(p)
  BY StreamIs DEF UploadsInv, Uploads!NoteSending, Uploads!IsWriting, Readers, Writers
<1>4. stream[s].peer = p
  BY <1>3, StreamIs
<1>5. PICK key \in Peers \X Ranges : key = <<p, b>>
  OBVIOUS
<1>6. PICK found : found = {i \in DOMAIN a : a[i].key = key}
  OBVIOUS
<1>7. /\ ~ Uploads!IsWriting(s) /\ recent' = r /\ failed' = failed \ {key}
      /\ stream' = [stream EXCEPT ![s] = Uploads!Writing(p, b)]
      /\ IF found # {}
         THEN active' = [a EXCEPT ![Uploads!First(found)].left = ActivityTTL] /\ next_id' = next_id
         ELSE /\ next_id' = next_id + 1
              /\ active' = Append(a, [id |-> next_id', key |-> key, left |-> ActivityTTL, reason |-> "none"])
  BY <1>1, <1>3, <1>4, <1>5, <1>6 DEF Uploads!NoteSending
<1>8. /\ (Sent(key, failed))'
      /\ \A k : Sent(k, failed) => (Sent(k, failed))'
  BY <1>5, <1>7, SentStart DEF UploadsInv
<1>9. \A i \in 1 .. Len(a) : (Sent(a[i].key, failed))' 
  <2>1. ASSUME NEW i \in 1 .. Len(a) PROVE Sent(a[i].key, failed)
    BY <1>2 DEF UploadsInv
  <2>2. ASSUME NEW i \in 1 .. Len(a) PROVE \E k : k = a[i].key
    OBVIOUS
  <2> QED
    BY <1>8, <2>1
<1>10. stream' \in [Streams -> {Uploads!Closed} \cup Readers \cup Writers]
  BY <1>7 DEF UploadsInv, Writers
<1>11. /\ a \in Seq(Sessions) /\ r \in Seq(Sessions) /\ next_id \in Nat
       /\ OwnIds(a) /\ OwnIds(r) /\ Apart(a, r) /\ OwnKeys(a)
       /\ UpTo(a, next_id) /\ UpTo(r, next_id)
  BY <1>2 DEF Numbered
<1>12. CASE found # {}
  <2>1. PICK i \in DOMAIN a : i = Uploads!First(found)
    <3>1. found \in SUBSET Nat
      BY <1>6, <1>11
    <3>2. \E m \in found : \A n \in found : m <= n
      BY <1>12, <3>1, LeastNatural
    <3>3. Uploads!First(found) \in found
      BY <3>2 DEF Uploads!First
    <3> QED
      BY <1>6, <3>3
  <2>2. PICK q : q = [a EXCEPT ![i].left = ActivityTTL]
    OBVIOUS
  <2>3. active' = q /\ next_id' = next_id
    BY <1>7, <1>12, <2>1, <2>2
  <2>4. /\ q \in Seq(Sessions) /\ Len(q) = Len(a)
        /\ \A j \in 1 .. Len(a) : q[j].id = a[j].id /\ q[j].key = a[j].key
    BY <1>11, <2>1, <2>2, LongerIs
  <2>5. Drawn(q, a, 1 .. Len(a))
    BY <1>11, <2>4, ChangedIs
  <2>6. OwnIds(q) /\ Apart(q, r) /\ OwnKeys(q) /\ UpTo(q, next_id)
    BY <1>11, <2>5, DrawnOwnIds, DrawnApart, DrawnOwnKeys, DrawnUpTo
  <2>7. Numbered(active', recent', next_id')
    BY <1>7, <1>11, <2>3, <2>4, <2>6 DEF Numbered
  <2>8. \A j \in 1 .. Len(active') : (Sent(active[j].key, failed))'
    BY <1>9, <2>3, <2>4
  <2> QED
    BY <1>10, <2>7, <2>8 DEF UploadsInv
<1>13. CASE found = {}
  <2>1. PICK n \in Nat : n = next_id + 1
    BY <1>11
  <2>2. PICK x \in Sessions : x = [id |-> n, key |-> key, left |-> ActivityTTL, reason |-> "none"]
    BY UploadsConstants DEF Sessions
  <2>3. x.id = n /\ x.key = key
    BY <2>2
  <2>4. PICK q : q = Append(a, x)
    OBVIOUS
  <2>5. active' = q /\ next_id' = n
    BY <1>7, <1>13, <2>1, <2>2, <2>4
  <2>6. PICK l \in Nat : l = Len(a)
    BY <1>11
  <2>7. /\ q \in Seq(Sessions) /\ Len(q) = l + 1 /\ q[l + 1] = x
        /\ \A i \in 1 .. l : q[i] = a[i] /\ a[i] \in Sessions
    BY <1>11, <2>4, <2>6
  <2>8. \A i \in 1 .. l : a[i].id \in Nat /\ a[i].id <= next_id /\ a[i].key # key
    <3>1. \A i \in 1 .. l : a[i].id \in Nat /\ a[i].id <= next_id
      BY <1>11, <2>6, <2>7 DEF UpTo, Sessions
    <3>2. \A i \in 1 .. l : a[i].key # key
      BY <1>6, <1>11, <1>13, <2>6
    <3> QED
      BY <3>1, <3>2
  <2>9. ASSUME NEW i \in 1 .. l + 1, i # l + 1 PROVE i \in 1 .. l
    BY <2>9
  <2>10. OwnIds(q) /\ OwnKeys(q)
    <3>1. ASSUME NEW i \in 1 .. l + 1, NEW j \in 1 .. l + 1,
                 q[i].id = q[j].id \/ q[i].key = q[j].key
          PROVE  i = j
      <4>0. ASSUME NEW k \in 1 .. l + 1, k # l + 1
            PROVE  q[k].id # q[l + 1].id /\ q[k].key # q[l + 1].key
        <5>1. k \in 1 .. l
          BY <2>9, <4>0
        <5>2. q[k] = a[k] /\ a[k].id \in Nat /\ a[k].id <= next_id /\ a[k].key # key
          BY <2>7, <2>8, <5>1
        <5>3. q[l + 1].id = n /\ q[l + 1].key = key
          BY <2>3, <2>7
        <5>4. a[k].id # n
          BY <1>11, <2>1, <5>2
        <5> QED
          BY <5>2, <5>3, <5>4
      <4>1. CASE i = l + 1 /\ j # l + 1
        BY <3>1, <4>0, <4>1
      <4>2. CASE i # l + 1 /\ j = l + 1
        BY <3>1, <4>0, <4>2
      <4>3. CASE i # l + 1 /\ j # l + 1
        <5>1. i \in 1 .. l /\ j \in 1 .. l
          BY <2>9, <4>3
        <5> QED
          BY <1>11, <2>6, <2>7, <3>1, <5>1 DEF OwnIds, OwnKeys
      <4> QED
        BY <4>1, <4>2, <4>3
    <3> QED
      BY <2>7, <3>1 DEF OwnIds, OwnKeys
  <2>11. UpTo(q, n) /\ UpTo(r, n)
    <3>1. ASSUME NEW i \in 1 .. l + 1 PROVE q[i].id <= n
      <4>1. CASE i = l + 1
        <5>1. q[i].id = n
          BY <2>3, <2>7, <4>1
        <5> QED
          BY <2>1, <5>1
      <4>2. CASE i # l + 1
        <5>1. i \in 1 .. l
          BY <2>9, <4>2
        <5>2. q[i] = a[i] /\ a[i].id \in Nat /\ a[i].id <= next_id
          BY <2>7, <2>8, <5>1
        <5> QED
          BY <1>11, <2>1, <5>2
      <4> QED
        BY <4>1, <4>2
    <3>2. ASSUME NEW i \in 1 .. Len(r) PROVE r[i].id <= n
      <4>1. r[i].id \in Nat /\ r[i].id <= next_id
        BY <1>11, UpToIs
      <4> QED
        BY <1>11, <2>1, <4>1
    <3> QED
      BY <2>7, <3>1, <3>2 DEF UpTo
  <2>12. Apart(q, r)
    <3>1. ASSUME NEW i \in 1 .. l + 1, NEW j \in 1 .. Len(r) PROVE q[i].id # r[j].id
      <4>1. r[j].id \in Nat /\ r[j].id <= next_id
        BY <1>11, UpToIs
      <4>2. CASE i = l + 1
        BY <1>11, <2>1, <2>3, <2>7, <4>1, <4>2
      <4>3. CASE i # l + 1
        BY <1>11, <2>6, <2>7, <2>9, <4>3 DEF Apart
      <4> QED
        BY <4>2, <4>3
    <3> QED
      BY <2>7, <3>1 DEF Apart
  <2>13. Numbered(active', recent', next_id')
    BY <1>7, <1>11, <2>5, <2>7, <2>10, <2>11, <2>12 DEF Numbered
  <2>14. \A j \in 1 .. Len(active') : (Sent(active[j].key, failed))'
    BY <1>8, <1>9, <2>3, <2>5, <2>6, <2>7, <2>9
  <2> QED
    BY <1>10, <2>13, <2>14 DEF UploadsInv
<1> QED
  BY <1>12, <1>13

\* A range that is written leaves the active ones for the history, as completed.
LEMMA CompletedStep ==
    ASSUME UploadsInv, NEW s \in Streams, Uploads!Completed(s)
    PROVE  UploadsInv'
<1>1. PICK a, r : a = Uploads!PrunedActive /\ r = Uploads!PrunedRecent
  OBVIOUS
<1>2. /\ Numbered(a, r, next_id)
      /\ \A i \in 1 .. Len(a) : \E j \in 1 .. Len(active) : a[i] = active[j]
  BY <1>1, Pruned DEF UploadsInv
<1>3. PICK p \in Peers, b \in Ranges : stream[s] = Uploads!Writing(p, b)
  BY StreamIs DEF UploadsInv, Uploads!Completed, Uploads!IsWriting, Readers, Writers
<1>4. stream[s].peer = p /\ stream[s].range = b /\ Uploads!IsWriting(s)
  BY <1>3, StreamIs DEF Uploads!IsWriting
<1>5. PICK key : key = <<p, b>>
  OBVIOUS
<1>6. PICK found : found = Uploads!PositionsOf(a, key)
  OBVIOUS
<1>7. /\ stream' = [stream EXCEPT ![s] = Uploads!Reading(p)]
      /\ IF found = {} THEN active' = a /\ recent' = r
         ELSE /\ active' = SubSeq(a, 1, Uploads!First(found) - 1)
                           \o SubSeq(a, Uploads!First(found) + 1, Len(a))
              /\ recent' = Uploads!Capped(Append(r, Uploads!Ended(a[Uploads!First(found)], "completed")))
      /\ next_id' = next_id /\ failed' = failed
  BY <1>1, <1>4, <1>5, <1>6 DEF Uploads!Completed
<1>8. \A k : k # key => ~ Uploads!Is(s, k)
  BY <1>4, <1>5 DEF Uploads!Is
<1>9. \A k : Sent(k, failed) /\ k # key => (Sent(k, failed))'
  BY <1>7, <1>8, SentStop DEF UploadsInv
<1>10. ASSUME NEW i \in 1 .. Len(a), a[i].key # key PROVE (Sent(a[i].key, failed))'
  <2>1. Sent(a[i].key, failed)
    BY <1>2 DEF UploadsInv
  <2> QED
    BY <1>9, <1>10, <2>1
<1>11. stream' \in [Streams -> {Uploads!Closed} \cup Readers \cup Writers]
  BY <1>7 DEF UploadsInv, Readers
<1>12. /\ a \in Seq(Sessions) /\ r \in Seq(Sessions) /\ next_id \in Nat
       /\ OwnIds(a) /\ OwnIds(r) /\ Apart(a, r) /\ OwnKeys(a)
       /\ UpTo(a, next_id) /\ UpTo(r, next_id)
  BY <1>2 DEF Numbered
<1>13. found = {i \in 1 .. Len(a) : a[i].key = key}
  BY <1>6, <1>12 DEF Uploads!PositionsOf, Uploads!SameSession
<1>14. CASE found = {}
  <2>1. active' = a /\ recent' = r /\ next_id' = next_id
    BY <1>7, <1>14
  <2>2. \A i \in 1 .. Len(a) : a[i].key # key
    BY <1>13, <1>14
  <2>3. \A i \in 1 .. Len(active') : (Sent(active[i].key, failed))'
    BY <1>10, <2>1, <2>2
  <2>4. Numbered(active', recent', next_id')
    BY <1>2, <2>1
  <2> QED
    BY <1>11, <2>3, <2>4 DEF UploadsInv
<1>15. CASE found # {}
  <2>1. PICK i \in 1 .. Len(a) : i = Uploads!First(found) /\ a[i].key = key
    <3>1. found \in SUBSET Nat
      BY <1>13
    <3>2. \E m \in found : \A n \in found : m <= n
      BY <1>15, <3>1, LeastNatural
    <3>3. Uploads!First(found) \in found
      BY <3>2 DEF Uploads!First
    <3> QED
      BY <1>13, <3>3
  <2>2. PICK q \in Seq(Sessions) :
          q = SubSeq(a, 1, i - 1) \o SubSeq(a, i + 1, Len(a)) /\ Without(a, i, q)
    BY <1>12, Removed
  <2>3. PICK x : x = Uploads!Ended(a[i], "completed")
    OBVIOUS
  <2>4. x \in Sessions /\ x.id = a[i].id
    <3>1. a[i] \in Sessions /\ "completed" \in {"expired", "completed"}
      BY <1>12
    <3> QED
      BY <2>3, <3>1, EndedIs
  <2>5. PICK all : all = Append(r, x)
    OBVIOUS
  <2>6. PICK kept : kept = Uploads!Capped(all)
    OBVIOUS
  <2>7. active' = q /\ recent' = kept /\ next_id' = next_id
    BY <1>7, <1>15, <2>1, <2>2, <2>3, <2>5, <2>6
  <2>8. PICK K : K = (1 .. Len(a)) \ {i}
    OBVIOUS
  <2>9. Drawn(q, a, K) /\ \A j \in 1 .. Len(q) : \E k \in K : q[j] = a[k]
    <3>1. PICK l \in Nat : l = Len(a) /\ i \in 1 .. l
      BY <1>12
    <3>2. Len(q) = l - 1 /\ \A j \in 1 .. l - 1 : q[j] = a[IF j < i THEN j ELSE j + 1]
      BY <2>2, <3>1 DEF Without
    <3>3. PICK at : at = [j \in 1 .. l - 1 |-> IF j < i THEN j ELSE j + 1]
      OBVIOUS
    <3>4. ASSUME NEW j \in 1 .. l - 1
          PROVE  (IF j < i THEN j ELSE j + 1) \in 1 .. l /\ (IF j < i THEN j ELSE j + 1) # i
      BY <3>1
    <3>5. at \in [1 .. Len(q) -> K]
      BY <2>8, <3>1, <3>2, <3>3, <3>4
    <3>6. ASSUME NEW j \in 1 .. l - 1, NEW k \in 1 .. l - 1,
                 (IF j < i THEN j ELSE j + 1) = (IF k < i THEN k ELSE k + 1)
          PROVE  j = k
      BY <3>1, <3>6
    <3>7. \A j, k \in 1 .. Len(q) : at[j] = at[k] => j = k
      BY <3>2, <3>3, <3>6
    <3>8. \A j \in 1 .. Len(q) : at[j] \in K /\ q[j] = a[at[j]]
      BY <3>2, <3>3, <3>5
    <3>9. Drawn(q, a, K)
      BY <3>5, <3>7, <3>8 DEF Drawn
    <3>10. \A j \in 1 .. Len(q) : \E k \in K : q[j] = a[k]
      BY <3>8
    <3> QED
      BY <3>9, <3>10
  <2>10. K \in SUBSET (1 .. Len(a))
    BY <2>8
  <2>11. OwnIds(q) /\ OwnKeys(q) /\ UpTo(q, next_id) /\ Apart(q, r)
    BY <1>12, <2>9, <2>10, DrawnOwnIds, DrawnOwnKeys, DrawnUpTo, DrawnApart
  <2>12. PICK l \in Nat : l = Len(r)
    BY <1>12
  <2>13. all \in Seq(Sessions) /\ Len(all) = l + 1 /\ all[l + 1] = x
         /\ \A j \in 1 .. l : all[j] = r[j]
    BY <1>12, <2>4, <2>5, <2>12
  <2>14. ASSUME NEW j \in 1 .. l + 1 PROVE j \in 1 .. l \/ j = l + 1
    OBVIOUS
  <2>15. \A j \in 1 .. l : r[j].id # x.id
    BY <1>12, <2>1, <2>4, <2>12 DEF Apart
  <2>16. OwnIds(all)
    <3>1. ASSUME NEW j \in 1 .. l + 1, NEW k \in 1 .. l + 1, all[j].id = all[k].id PROVE j = k
      <4>1. CASE j \in 1 .. l /\ k \in 1 .. l
        BY <1>12, <2>12, <2>13, <3>1, <4>1 DEF OwnIds
      <4>2. CASE j \in 1 .. l /\ k = l + 1
        BY <2>13, <2>15, <3>1, <4>2
      <4>3. CASE j = l + 1 /\ k \in 1 .. l
        BY <2>13, <2>15, <3>1, <4>3
      <4>4. CASE j = l + 1 /\ k = l + 1
        BY <4>4
      <4> QED
        BY <2>14, <4>1, <4>2, <4>3, <4>4
    <3> QED
      BY <2>13, <3>1 DEF OwnIds
  <2>17. UpTo(all, next_id)
    <3>1. x.id <= next_id
      BY <1>12, <2>1, <2>4 DEF UpTo
    <3>2. \A j \in 1 .. l + 1 : all[j].id <= next_id
      BY <1>12, <2>12, <2>13, <2>14, <3>1 DEF UpTo
    <3> QED
      BY <2>13, <3>2 DEF UpTo
  <2>18. Apart(all, q)
    <3>1. ASSUME NEW j \in 1 .. l + 1, NEW k \in 1 .. Len(q) PROVE all[j].id # q[k].id
      <4>1. PICK m \in 1 .. Len(a) : m # i /\ q[k] = a[m]
        BY <2>8, <2>9
      <4>2. a[m].id # a[i].id
        BY <1>12, <2>1, <4>1 DEF OwnIds
      <4>3. CASE j \in 1 .. l
        BY <1>12, <2>12, <2>13, <4>1, <4>3 DEF Apart
      <4>4. CASE j = l + 1
        BY <2>4, <2>13, <4>1, <4>2, <4>4
      <4> QED
        BY <2>14, <4>3, <4>4
    <3> QED
      BY <2>13, <3>1 DEF Apart
  <2>19. kept \in Seq(Sessions) /\ Drawn(kept, all, 1 .. Len(all))
    BY <2>6, <2>13, CappedIs
  <2>20. OwnIds(kept) /\ UpTo(kept, next_id) /\ Apart(kept, q)
    BY <2>16, <2>17, <2>18, <2>19, DrawnOwnIds, DrawnUpTo, DrawnApart
  <2>21. Numbered(active', recent', next_id')
    BY <1>12, <2>2, <2>7, <2>11, <2>19, <2>20, ApartBack DEF Numbered
  <2>22. ASSUME NEW j \in 1 .. Len(q) PROVE (Sent(q[j].key, failed))'
    <3>1. PICK m \in 1 .. Len(a) : m # i /\ q[j] = a[m]
      BY <2>8, <2>9
    <3>2. a[m].key # key
      BY <1>12, <2>1, <3>1 DEF OwnKeys
    <3> QED
      BY <1>10, <3>1, <3>2
  <2>23. \A j \in 1 .. Len(active') : (Sent(active[j].key, failed))'
    BY <2>7, <2>22
  <2> QED
    BY <1>11, <2>21, <2>23 DEF UploadsInv
<1> QED
  BY <1>14, <1>15

LEMMA UploadsStep == UploadsInv /\ Uploads!Next => UploadsInv'
<1> SUFFICES ASSUME UploadsInv, Uploads!Next PROVE UploadsInv'
  OBVIOUS
<1>1. ASSUME NEW s \in Streams, NEW p \in Peers, Uploads!Open(s, p) PROVE UploadsInv'
  <2>1. /\ stream' = [stream EXCEPT ![s] = Uploads!Reading(p)] /\ stream[s] = Uploads!Closed
        /\ active' = active /\ recent' = recent /\ next_id' = next_id /\ failed' = failed
    BY <1>1 DEF Uploads!Open
  <2>2. \A k : ~ Uploads!Is(s, k)
    BY <2>1, StreamIs DEF Uploads!Is, Uploads!IsWriting
  <2>3. \A k : Sent(k, failed) => (Sent(k, failed))'
    BY <2>1, <2>2, SentStop DEF UploadsInv
  <2>4. stream' \in [Streams -> {Uploads!Closed} \cup Readers \cup Writers]
    BY <2>1 DEF UploadsInv, Readers
  <2>5. \A i \in 1 .. Len(active') : (Sent(active[i].key, failed))'
    BY <2>1, <2>3 DEF UploadsInv
  <2> QED
    BY <2>1, <2>4, <2>5 DEF UploadsInv
<1>2. ASSUME NEW s \in Streams, Uploads!Close(s) PROVE UploadsInv'
  <2>1. /\ stream' = [stream EXCEPT ![s] = Uploads!Closed]
        /\ active' = active /\ recent' = recent /\ next_id' = next_id
        /\ failed' = IF Uploads!IsWriting(s) THEN failed \cup {<<stream[s].peer, stream[s].range>>}
                     ELSE failed
    BY <1>2 DEF Uploads!Close
  <2>2. \A k : Uploads!Is(s, k) => k \in failed'
    BY <2>1 DEF Uploads!Is
  <2>3. \A k : Sent(k, failed) => (Sent(k, failed))'
    <3>1. \A k : k \in failed' => (Sent(k, failed))'
      BY DEF Sent
    <3> QED
      BY <2>1, <2>2, <3>1, SentStop DEF UploadsInv
  <2>4. stream' \in [Streams -> {Uploads!Closed} \cup Readers \cup Writers]
    BY <2>1 DEF UploadsInv
  <2>5. \A i \in 1 .. Len(active') : (Sent(active[i].key, failed))'
    BY <2>1, <2>3 DEF UploadsInv
  <2> QED
    BY <2>1, <2>4, <2>5 DEF UploadsInv
<1>3. \A k : stream' = stream /\ failed' = failed /\ Sent(k, failed) => (Sent(k, failed))'
  BY DEF Sent, Uploads!Is, Uploads!IsWriting
<1>4. CASE Uploads!Snapshot
  <2>1. /\ active' = Uploads!PrunedActive /\ recent' = Uploads!PrunedRecent
        /\ stream' = stream /\ next_id' = next_id /\ failed' = failed
    BY <1>4 DEF Uploads!Snapshot
  <2>2. PICK a, r : a = Uploads!PrunedActive /\ r = Uploads!PrunedRecent
    OBVIOUS
  <2>3. /\ Numbered(a, r, next_id)
        /\ \A i \in 1 .. Len(a) : \E j \in 1 .. Len(active) : a[i] = active[j]
    BY <2>2, Pruned DEF UploadsInv
  <2>4. ASSUME NEW i \in 1 .. Len(a) PROVE (Sent(a[i].key, failed))'
    <3>1. Sent(a[i].key, failed)
      BY <2>3 DEF UploadsInv
    <3> QED
      BY <1>3, <2>1, <3>1
  <2>5. \A i \in 1 .. Len(active') : (Sent(active[i].key, failed))'
    BY <2>1, <2>2, <2>4
  <2> QED
    BY <2>1, <2>2, <2>3, <2>5 DEF UploadsInv
<1>5. CASE Uploads!Tick
  <2>1. /\ active' = [i \in DOMAIN active |-> Uploads!Aged(active[i])]
        /\ recent' = [i \in DOMAIN recent |-> Uploads!Aged(recent[i])]
        /\ stream' = stream /\ next_id' = next_id /\ failed' = failed
    BY <1>5 DEF Uploads!Tick
  <2>2. ASSUME NEW l \in Seq(Sessions), NEW q, q = [i \in DOMAIN l |-> Uploads!Aged(l[i])]
        PROVE  /\ q \in Seq(Sessions) /\ Drawn(q, l, 1 .. Len(l)) /\ Len(q) = Len(l)
               /\ \A i \in 1 .. Len(l) : q[i].key = l[i].key
    <3>1. PICK n \in Nat : n = Len(l) /\ DOMAIN l = 1 .. n
      OBVIOUS
    <3>2. \A i \in 1 .. n : l[i] \in Sessions
      BY <3>1
    <3>3. \A x \in Sessions : LET e == Uploads!Aged(x)
                              IN  e \in Sessions /\ e.id = x.id /\ e.key = x.key
      BY AgedIs
    <3>4. q \in Seq(Sessions) /\ Len(q) = n /\ \A i \in 1 .. n : q[i] = Uploads!Aged(l[i])
      BY <2>2, <3>1, <3>2, <3>3
    <3>5. \A i \in 1 .. n : q[i].id = l[i].id /\ q[i].key = l[i].key
      BY <3>2, <3>3, <3>4
    <3> QED
      BY <3>1, <3>4, <3>5, ChangedIs
  <2>3. PICK a, r : a = active' /\ r = recent'
    OBVIOUS
  <2>4. /\ active \in Seq(Sessions) /\ recent \in Seq(Sessions) /\ next_id \in Nat
        /\ OwnIds(active) /\ OwnIds(recent) /\ Apart(active, recent) /\ OwnKeys(active)
        /\ UpTo(active, next_id) /\ UpTo(recent, next_id)
    BY DEF UploadsInv, Numbered
  <2>5. /\ a \in Seq(Sessions) /\ Drawn(a, active, 1 .. Len(active)) /\ Len(a) = Len(active)
        /\ \A i \in 1 .. Len(active) : a[i].key = active[i].key
    BY <2>1, <2>2, <2>3, <2>4
  <2>6. r \in Seq(Sessions) /\ Drawn(r, recent, 1 .. Len(recent))
    BY <2>1, <2>2, <2>3, <2>4
  <2>7. OwnIds(a) /\ OwnKeys(a) /\ UpTo(a, next_id) /\ Apart(a, recent)
    BY <2>4, <2>5, DrawnOwnIds, DrawnOwnKeys, DrawnUpTo, DrawnApart
  <2>8. OwnIds(r) /\ UpTo(r, next_id) /\ Apart(r, a)
    BY <2>4, <2>6, <2>7, ApartBack, DrawnOwnIds, DrawnUpTo, DrawnApart
  <2>9. Numbered(a, r, next_id)
    BY <2>4, <2>5, <2>6, <2>7, <2>8, ApartBack DEF Numbered
  <2>10. \A i \in 1 .. Len(active') : (Sent(active[i].key, failed))'
    <3>1. ASSUME NEW i \in 1 .. Len(active) PROVE (Sent(active[i].key, failed))'
      <4>1. Sent(active[i].key, failed) /\ active'[i].key = active[i].key
        BY <2>3, <2>5 DEF UploadsInv
      <4> QED
        BY <1>3, <2>1, <4>1
    <3> QED
      BY <2>3, <2>5, <3>1
  <2> QED
    BY <2>1, <2>3, <2>9, <2>10 DEF UploadsInv
<1> QED
  BY <1>1, <1>2, <1>4, <1>5, NoteStep, CompletedStep DEF Uploads!Next

LEMMA UploadsInit == Init => UploadsInv
<1> SUFFICES ASSUME Init PROVE UploadsInv
  OBVIOUS
<1>1. /\ stream = [s \in Streams |-> Uploads!Closed]
      /\ active = <<>> /\ recent = <<>> /\ next_id = 0 /\ failed = {}
  BY DEF Init, Uploads!Init
<1>2. <<>> \in Seq(Sessions) /\ Len(<<>>) = 0
  OBVIOUS
<1>3. Numbered(<<>>, <<>>, 0)
  BY <1>2 DEF Numbered, OwnIds, OwnKeys, Apart, UpTo
<1> QED
  BY <1>1, <1>2, <1>3 DEF UploadsInv

\* A range shown as being sent is written by a stream or was given up by one, a peer's
\* range is one session, and a session ends once.
THEOREM ActiveIsReal == Spec => []ActiveIsSent
<1>1. UploadsInv /\ [Next]_vars => UploadsInv'
  <2>1. UploadsInv /\ UNCHANGED uploads => UploadsInv'
    <3> SUFFICES ASSUME UploadsInv, UNCHANGED uploads PROVE UploadsInv'
      OBVIOUS
    <3>1. /\ stream' = stream /\ active' = active /\ recent' = recent
          /\ next_id' = next_id /\ failed' = failed
      BY DEF uploads
    <3> QED
      BY <3>1 DEF UploadsInv, Sent, Uploads!Is, Uploads!IsWriting
  <2> QED
    BY <2>1, UploadsStep DEF Next, vars
<1>2. UploadsInv => ActiveIsSent
  <2> SUFFICES ASSUME UploadsInv PROVE ActiveIsSent
    OBVIOUS
  <2>1. /\ active \in Seq(Sessions) /\ recent \in Seq(Sessions)
        /\ OwnIds(active) /\ OwnIds(recent) /\ Apart(active, recent) /\ OwnKeys(active)
        /\ \A i \in 1 .. Len(active) : Sent(active[i].key, failed)
    BY DEF UploadsInv, Numbered
  <2>2. PICK all : all = active \o recent
    OBVIOUS
  <2>3. OwnIds(all) /\ all \in Seq(Sessions)
    BY <2>1, <2>2, JoinedOwnIds
  <2>4. \A i, j \in DOMAIN all : all[i].id = all[j].id => i = j
    BY <2>3 DEF OwnIds
  <2>5. \A i, j \in DOMAIN active : active[i].key = active[j].key => i = j
    BY <2>1 DEF OwnKeys
  <2>6. \A i \in DOMAIN active :
           (\E s \in Streams : Uploads!Is(s, active[i].key)) \/ active[i].key \in failed
    BY <2>1 DEF Sent
  <2> QED
    BY <2>2, <2>4, <2>5, <2>6 DEF ActiveIsSent, Uploads!ActiveIsSent
<1> QED
  BY <1>1, <1>2, UploadsInit, PTL DEF Spec

-----------------------------------------------------------------------------
(* Ranges: lists *)

Span == {r \in [start : Nat, end : Nat] : r.start <= r.end}

Interval(r) == r.start .. r.end

\* The bytes of a set of ranges.
Covered(E) == UNION {Interval(r) : r \in E}

Gapped   == {p \in Span \X Span : p[1].end + 1 < p[2].start}
Disjoint == {p \in Span \X Span : Interval(p[1]) \cap Interval(p[2]) = {}}

\* Sequences one after the other.
LEMMA Flattened ==
    ASSUME NEW S, NEW ss \in Seq(Seq(S)), NEW R,
           \A i \in 1 .. Len(ss) : Related(ss[i], R),
           \A i, j \in 1 .. Len(ss) :
              i < j => \A x \in Elements(ss[i]), y \in Elements(ss[j]) : <<x, y>> \in R
    PROVE  /\ Lists!FlattenSeq(ss) \in Seq(S) /\ Related(Lists!FlattenSeq(ss), R)
           /\ Elements(Lists!FlattenSeq(ss)) = UNION {Elements(ss[i]) : i \in 1 .. Len(ss)}
<1>0. Len(ss) \in Nat /\ \A i \in 1 .. Len(ss) : ss[i] \in Seq(S)
  OBVIOUS
<1>1. CASE Len(ss) = 0
  <2>1. Lists!FlattenSeq(ss) = ss
    BY <1>1 DEF Lists!FlattenSeq
  <2>2. ss = <<>> /\ ss \in Seq(S) /\ 1 .. Len(ss) = {}
    BY <1>1
  <2> QED
    BY <2>1, <2>2 DEF Related, Elements
<1>2. CASE Len(ss) # 0
  <2>1. PICK m \in Nat : Len(ss) = m + 1
    <3>1. Len(ss) - 1 \in Nat /\ Len(ss) = (Len(ss) - 1) + 1
      BY <1>0, <1>2
    <3> QED
      BY <3>1
  <2> DEFINE Fits(f) == f = [i \in 1 .. Len(ss) |-> IF i = 1 THEN ss[i] ELSE f[i - 1] \o ss[i]]
  <2>2. \E f : Fits(f)
    <3>1. PICK g \in [Seq(S) \X (1 .. m) -> Seq(S)] :
             g = [x \in Seq(S) \X (1 .. m) |-> x[1] \o ss[x[2] + 1]]
      <4>1. ASSUME NEW x \in Seq(S) \X (1 .. m) PROVE x[1] \o ss[x[2] + 1] \in Seq(S)
        <5>1. PICK a \in Seq(S), k \in 1 .. m : x = <<a, k>>
          OBVIOUS
        <5>2. ss[k + 1] \in Seq(S)
          BY <1>0, <2>1
        <5> QED
          BY <5>1, <5>2
      <4> QED
        BY <4>1
    <3>2. ss[1] \in Seq(S)
      BY <1>0, <2>1
    <3>3. PICK h \in [0 .. m -> Seq(S)] :
             h[0] = ss[1] /\ \A k \in 1 .. m : h[k] = g[<<h[k - 1], k>>]
      <4>1. PICK Q : Q = Seq(S)
        OBVIOUS
      <4>2. PICK base : base = ss[1]
        OBVIOUS
      <4>3. base \in Q /\ g \in Turns(Q, m)
        BY <3>2, <4>1, <4>2 DEF Turns
      <4>4. \E h : Run(h, Q, base, g, m)
        BY <4>3, Iterated
      <4> QED
        BY <4>1, <4>2, <4>4 DEF Run
    <3>4. PICK f : f = [i \in 1 .. m + 1 |-> h[i - 1]]
      OBVIOUS
    <3>5. ASSUME NEW i \in 1 .. m + 1 PROVE f[i] = IF i = 1 THEN ss[i] ELSE f[i - 1] \o ss[i]
      <4>1. CASE i = 1
        <5>1. f[1] = h[0] /\ h[0] = ss[1]
          <6>1. 1 \in 1 .. m + 1 /\ 1 - 1 = 0
            OBVIOUS
          <6> QED
            BY <3>3, <3>4, <6>1
        <5> QED
          BY <4>1, <5>1
      <4>2. CASE i # 1
        <5>1. PICK k \in 1 .. m : i = k + 1
          <6>1. i - 1 \in 1 .. m /\ i = (i - 1) + 1
            BY <4>2
          <6> QED
            BY <6>1
        <5>2. k \in 0 .. m /\ k # 0 /\ k - 1 \in 0 .. m /\ k \in 1 .. m + 1 /\ i - 1 = k
          BY <5>1
        <5>3. f[i] = h[k] /\ f[k] = h[k - 1]
          BY <3>4, <5>1, <5>2
        <5>4. h[k] = g[<<h[k - 1], k>>] /\ h[k - 1] \in Seq(S)
          BY <3>3, <5>2
        <5>5. <<h[k - 1], k>> \in Seq(S) \X (1 .. m)
          BY <5>4
        <5>6. g[<<h[k - 1], k>>] = h[k - 1] \o ss[k + 1]
          BY <3>1, <5>5
        <5> QED
          BY <4>2, <5>1, <5>2, <5>3, <5>4, <5>6
      <4> QED
        BY <4>1, <4>2
    <3>6. Fits(f)
      <4>1. f = [i \in 1 .. m + 1 |-> IF i = 1 THEN ss[i] ELSE f[i - 1] \o ss[i]]
        <5>1. f = [i \in 1 .. m + 1 |-> f[i]]
          BY <3>4
        <5> QED
          BY <3>5, <5>1
      <4> QED
        BY <2>1, <4>1
    <3> QED
      BY <3>6
  <2>3. PICK f : f = CHOOSE e : Fits(e)
    OBVIOUS
  <2>4. Fits(f)
    BY <2>2, <2>3
  <2>5. Lists!FlattenSeq(ss) = f[m + 1]
    BY <1>2, <2>1, <2>3 DEF Lists!FlattenSeq
  <2>6. f[1] = ss[1] /\ \A k \in 1 .. m : f[k + 1] = f[k] \o ss[k + 1]
    <3>1. \A i \in 1 .. m + 1 : f[i] = IF i = 1 THEN ss[i] ELSE f[i - 1] \o ss[i]
      BY <2>1, <2>4
    <3>2. f[1] = ss[1]
      BY <3>1
    <3>3. ASSUME NEW k \in 1 .. m PROVE f[k + 1] = f[k] \o ss[k + 1]
      <4>1. k + 1 \in 1 .. m + 1 /\ k + 1 # 1 /\ (k + 1) - 1 = k
        OBVIOUS
      <4> QED
        BY <3>1, <4>1
    <3> QED
      BY <3>2, <3>3
  <2> HIDE DEF Fits
  <2> DEFINE Upto(k) == UNION {Elements(ss[i]) : i \in 1 .. k}
             T == {k \in 0 .. m : /\ f[k + 1] \in Seq(S) /\ Related(f[k + 1], R)
                                  /\ Elements(f[k + 1]) = Upto(k + 1)}
  <2>7. 0 \in T
    <3>1. 1 .. 1 = {1} /\ 1 \in 1 .. Len(ss)
      BY <2>1
    <3>2. Upto(1) = Elements(ss[1])
      BY <3>1
    <3>3. f[1] \in Seq(S) /\ Related(f[1], R) /\ Elements(f[1]) = Upto(1)
      BY <1>0, <2>6, <3>1, <3>2
    <3> QED
      BY <3>3
  <2>8. ASSUME NEW k \in 1 .. m, k - 1 \in T PROVE k \in T
    <3>1. k \in 0 .. m /\ (k - 1) + 1 = k /\ k + 1 \in 1 .. Len(ss)
      BY <2>1
    <3>2. f[k] \in Seq(S) /\ Related(f[k], R) /\ Elements(f[k]) = Upto(k)
      BY <2>8, <3>1
    <3>3. ss[k + 1] \in Seq(S) /\ Related(ss[k + 1], R)
      BY <1>0, <3>1
    <3>4. ASSUME NEW i \in 1 .. Len(f[k]), NEW j \in 1 .. Len(ss[k + 1])
          PROVE  <<f[k][i], ss[k + 1][j]>> \in R
      <4>1. f[k][i] \in Upto(k) /\ ss[k + 1][j] \in Elements(ss[k + 1])
        BY <3>2 DEF Elements
      <4>2. PICK l \in 1 .. k : f[k][i] \in Elements(ss[l])
        BY <4>1
      <4>3. l \in 1 .. Len(ss) /\ l < k + 1
        BY <2>1
      <4> QED
        BY <3>1, <4>1, <4>2, <4>3
    <3>5. PICK a \in Seq(S) : a = f[k]
      BY <3>2
    <3>6. PICK b \in Seq(S) : b = ss[k + 1]
      BY <3>3
    <3>7. a \o b \in Seq(S) /\ Related(a \o b, R) /\ Elements(a \o b) = Elements(a) \cup Elements(b)
      <4>1. Related(a, R) /\ Related(b, R)
            /\ \A i \in 1 .. Len(a), j \in 1 .. Len(b) : <<a[i], b[j]>> \in R
        BY <3>2, <3>3, <3>4, <3>5, <3>6
      <4> QED
        BY <4>1, JoinedRelated, JoinedElements, Joined
    <3>8. Upto(k + 1) = Upto(k) \cup Elements(ss[k + 1])
      <4>1. 1 .. k + 1 = (1 .. k) \cup {k + 1}
        OBVIOUS
      <4> QED
        BY <4>1
    <3>9. f[k + 1] = a \o b
      BY <2>6, <3>5, <3>6
    <3>10. /\ f[k + 1] \in Seq(S) /\ Related(f[k + 1], R)
           /\ Elements(f[k + 1]) = Upto(k + 1)
      BY <3>2, <3>5, <3>6, <3>7, <3>8, <3>9
    <3> QED
      BY <3>1, <3>10
  <2>9. m \in T
    <3> HIDE DEF T
    <3> QED
      BY <2>7, <2>8, Turned
  <2> QED
    BY <2>1, <2>5, <2>9
<1> QED
  BY <1>1, <1>2

-----------------------------------------------------------------------------
(* Ranges: the helpers *)

LEMMA ElementsAre ==
    ASSUME NEW S, NEW s \in Seq(S)
    PROVE  /\ Lists!ToSet(s) = Elements(s) /\ Lists!BytesOf(s) = Covered(Elements(s))
           /\ {r.start .. r.end : r \in Lists!ToSet(s)} = {Interval(r) : r \in Elements(s)}
           /\ Elements(s) \subseteq S
<1>1. DOMAIN s = 1 .. Len(s)
  OBVIOUS
<1>2. Lists!ToSet(s) = Elements(s)
  BY <1>1 DEF Lists!ToSet, Elements
<1>3. {r.start .. r.end : r \in Lists!ToSet(s)} = {Interval(r) : r \in Elements(s)}
  BY <1>2 DEF Interval
<1>4. Lists!BytesOf(s) = Covered(Elements(s))
  BY <1>2 DEF Lists!BytesOf, Covered, Interval
<1>5. Elements(s) \subseteq S
  BY DEF Elements
<1> QED
  BY <1>2, <1>3, <1>4, <1>5

LEMMA SpanIs ==
    ASSUME NEW r \in Span
    PROVE  /\ r.start \in Nat /\ r.end \in Nat /\ r.start <= r.end
           /\ Interval(r) \in SUBSET Nat /\ r.start \in Interval(r) /\ r.end \in Interval(r)
BY DEF Span, Interval

LEMMA RangeIsSpan ==
    ASSUME NEW a \in Nat, NEW b \in Nat, a <= b
    PROVE  /\ Lists!ByteRange(a, b) \in Span
           /\ Lists!ByteRange(a, b).start = a /\ Lists!ByteRange(a, b).end = b
           /\ Interval(Lists!ByteRange(a, b)) = a .. b
BY DEF Lists!ByteRange, Span, Interval

\* What is left of one range.
LEMMA CutIs ==
    ASSUME NEW r \in Span, NEW a \in Nat, NEW b \in Nat, a <= b
    PROVE  /\ Lists!Cut(r, a, b) \in Seq(Span) /\ Related(Lists!Cut(r, a, b), Gapped)
           /\ Covered(Elements(Lists!Cut(r, a, b))) = Interval(r) \ (a .. b)
           /\ \A x \in Elements(Lists!Cut(r, a, b)) : r.start <= x.start /\ x.end <= r.end
<1>0. r.start \in Nat /\ r.end \in Nat /\ r.start <= r.end
  BY SpanIs
<1>1. CASE b < r.start \/ a > r.end
  <2>1. Lists!Cut(r, a, b) = <<r>>
    BY <1>1 DEF Lists!Cut
  <2>2. Interval(r) \ (a .. b) = Interval(r)
    BY <1>0, <1>1 DEF Interval
  <2>3. Elements(<<r>>) = {r} /\ <<r>> \in Seq(Span) /\ Related(<<r>>, Gapped)
    BY FewElements
  <2>4. Covered({r}) = Interval(r)
    BY DEF Covered
  <2> QED
    BY <1>0, <2>1, <2>2, <2>3, <2>4
<1>2. CASE ~ (b < r.start \/ a > r.end)
  <2>0. b >= r.start /\ a <= r.end
    BY <1>0, <1>2
  <2>1. Lists!Cut(r, a, b) = (IF a > r.start THEN <<Lists!ByteRange(r.start, a - 1)>> ELSE <<>>)
                             \o (IF b < r.end THEN <<Lists!ByteRange(b + 1, r.end)>> ELSE <<>>)
    BY <1>2 DEF Lists!Cut
  <2>2. PICK x : x = Lists!ByteRange(r.start, a - 1)
    OBVIOUS
  <2>3. PICK y : y = Lists!ByteRange(b + 1, r.end)
    OBVIOUS
  <2>4. a > r.start => x \in Span /\ x.start = r.start /\ x.end = a - 1
                       /\ Interval(x) = r.start .. (a - 1)
    <3>1. a > r.start => a - 1 \in Nat /\ r.start <= a - 1
      BY <1>0
    <3> QED
      BY <1>0, <2>2, <3>1, RangeIsSpan
  <2>5. b < r.end => y \in Span /\ y.start = b + 1 /\ y.end = r.end
                     /\ Interval(y) = (b + 1) .. r.end
    <3>1. b < r.end => b + 1 \in Nat /\ b + 1 <= r.end
      BY <1>0
    <3> QED
      BY <1>0, <2>3, <3>1, RangeIsSpan
  <2>6. CASE a > r.start /\ b < r.end
    <3>1. Lists!Cut(r, a, b) = <<x, y>>
      BY <2>1, <2>2, <2>3, <2>6, JoinedFew
    <3>2. <<x, y>> \in Gapped
      <4>1. x.end + 1 < y.start
        BY <1>0, <2>4, <2>5, <2>6
      <4> QED
        BY <2>4, <2>5, <2>6, <4>1 DEF Gapped
    <3>3. Covered({x, y}) = Interval(r) \ (a .. b)
      <4>1. Covered({x, y}) = (r.start .. (a - 1)) \cup ((b + 1) .. r.end)
        BY <2>4, <2>5, <2>6 DEF Covered
      <4>2. (r.start .. (a - 1)) \cup ((b + 1) .. r.end) = (r.start .. r.end) \ (a .. b)
        BY <1>0, <2>0, <2>6
      <4> QED
        BY <4>1, <4>2 DEF Interval
    <3>4. Elements(<<x, y>>) = {x, y} /\ <<x, y>> \in Seq(Span) /\ Related(<<x, y>>, Gapped)
      BY <2>4, <2>5, <2>6, <3>2, FewElements
    <3>5. \A z \in {x, y} : r.start <= z.start /\ z.end <= r.end
      BY <1>0, <2>0, <2>4, <2>5, <2>6
    <3> QED
      BY <3>1, <3>3, <3>4, <3>5
  <2>7. CASE a > r.start /\ ~ (b < r.end)
    <3>1. Lists!Cut(r, a, b) = <<x>>
      BY <2>1, <2>2, <2>7
    <3>3. Covered({x}) = Interval(r) \ (a .. b)
      <4>1. Covered({x}) = r.start .. (a - 1)
        BY <2>4, <2>7 DEF Covered
      <4>2. r.start .. (a - 1) = (r.start .. r.end) \ (a .. b)
        BY <1>0, <2>0, <2>7
      <4> QED
        BY <4>1, <4>2 DEF Interval
    <3>4. Elements(<<x>>) = {x} /\ <<x>> \in Seq(Span) /\ Related(<<x>>, Gapped)
      BY <2>4, <2>7, FewElements
    <3>5. \A z \in {x} : r.start <= z.start /\ z.end <= r.end
      BY <1>0, <2>0, <2>4, <2>7
    <3> QED
      BY <3>1, <3>3, <3>4, <3>5
  <2>8. CASE ~ (a > r.start) /\ b < r.end
    <3>1. Lists!Cut(r, a, b) = <<y>>
      BY <2>1, <2>3, <2>8, JoinedFew
    <3>3. Covered({y}) = Interval(r) \ (a .. b)
      <4>1. Covered({y}) = (b + 1) .. r.end
        BY <2>5, <2>8 DEF Covered
      <4>2. (b + 1) .. r.end = (r.start .. r.end) \ (a .. b)
        BY <1>0, <2>0, <2>8
      <4> QED
        BY <4>1, <4>2 DEF Interval
    <3>4. Elements(<<y>>) = {y} /\ <<y>> \in Seq(Span) /\ Related(<<y>>, Gapped)
      BY <2>5, <2>8, FewElements
    <3>5. \A z \in {y} : r.start <= z.start /\ z.end <= r.end
      BY <1>0, <2>0, <2>5, <2>8
    <3> QED
      BY <3>1, <3>3, <3>4, <3>5
  <2>9. CASE ~ (a > r.start) /\ ~ (b < r.end)
    <3>1. Lists!Cut(r, a, b) = <<>>
      BY <2>1, <2>9
    <3>2. (r.start .. r.end) \ (a .. b) = {}
      BY <1>0, <2>0, <2>9
    <3> QED
      BY <3>1, <3>2, FewElements DEF Covered, Interval
  <2> QED
    BY <2>6, <2>7, <2>8, <2>9
<1> QED
  BY <1>1, <1>2

Intervals(E) == {Interval(r) : r \in E}

\* subtract_range takes out the bytes it is given and keeps the gaps.
LEMMA SubtractIs ==
    ASSUME NEW s \in Seq(Span), Related(s, Gapped), NEW a \in Nat, NEW b \in Nat, a <= b
    PROVE  /\ Lists!SubtractRange(s, a, b) \in Seq(Span)
           /\ Related(Lists!SubtractRange(s, a, b), Gapped)
           /\ Covered(Elements(Lists!SubtractRange(s, a, b))) = Covered(Elements(s)) \ (a .. b)
<1>1. DOMAIN s = 1 .. Len(s) /\ Len(s) \in Nat /\ \A i \in 1 .. Len(s) : s[i] \in Span
  OBVIOUS
<1>2. PICK ss : ss = [i \in 1 .. Len(s) |-> Lists!Cut(s[i], a, b)]
  OBVIOUS
<1>3. Lists!SubtractRange(s, a, b) = Lists!FlattenSeq(ss)
  BY <1>1, <1>2 DEF Lists!SubtractRange
<1>4. ASSUME NEW i \in 1 .. Len(s)
      PROVE  /\ ss[i] \in Seq(Span) /\ Related(ss[i], Gapped)
             /\ Covered(Elements(ss[i])) = Interval(s[i]) \ (a .. b)
             /\ \A x \in Elements(ss[i]) : s[i].start <= x.start /\ x.end <= s[i].end
             /\ Elements(ss[i]) \subseteq Span
  <2>1. PICK r \in Span : r = s[i]
    BY <1>1
  <2>2. ss[i] = Lists!Cut(r, a, b)
    BY <1>1, <1>2, <2>1
  <2>3. PICK c : c = Lists!Cut(r, a, b)
    OBVIOUS
  <2>4. /\ c \in Seq(Span) /\ Related(c, Gapped)
        /\ Covered(Elements(c)) = Interval(r) \ (a .. b)
        /\ \A x \in Elements(c) : r.start <= x.start /\ x.end <= r.end
    BY <2>3, CutIs
  <2>5. Elements(c) \subseteq Span
    BY <2>4, ElementsAre
  <2> QED
    BY <2>1, <2>2, <2>3, <2>4, <2>5
<1>5. ss \in Seq(Seq(Span)) /\ Len(ss) = Len(s)
  BY <1>1, <1>2, <1>4
<1>6. ASSUME NEW i \in 1 .. Len(s), NEW j \in 1 .. Len(s), i < j,
             NEW x \in Elements(ss[i]), NEW y \in Elements(ss[j])
      PROVE  <<x, y>> \in Gapped
  <2>1. <<s[i], s[j]>> \in Gapped
    BY <1>6 DEF Related
  <2>2. s[i].end + 1 < s[j].start
    BY <2>1 DEF Gapped
  <2>3. x \in Span /\ y \in Span /\ x.end <= s[i].end /\ s[j].start <= y.start
    BY <1>4
  <2>4. x.end \in Nat /\ y.start \in Nat /\ s[i].end \in Nat /\ s[j].start \in Nat
    BY <1>1, <2>3, SpanIs
  <2>5. x.end + 1 < y.start
    BY <2>2, <2>3, <2>4
  <2> QED
    BY <2>3, <2>5 DEF Gapped
<1>7. PICK flat : flat = Lists!FlattenSeq(ss)
  OBVIOUS
<1>8. flat \in Seq(Span) /\ Related(flat, Gapped)
      /\ Elements(flat) = UNION {Elements(ss[i]) : i \in 1 .. Len(s)}
  <2>1. /\ \A i \in 1 .. Len(ss) : Related(ss[i], Gapped)
        /\ \A i, j \in 1 .. Len(ss) :
              i < j => \A x \in Elements(ss[i]), y \in Elements(ss[j]) : <<x, y>> \in Gapped
    BY <1>4, <1>5, <1>6
  <2> QED
    BY <1>5, <1>7, <2>1, Flattened
<1>9. Covered(Elements(flat)) = UNION {Covered(Elements(ss[i])) : i \in 1 .. Len(s)}
  BY <1>8 DEF Covered
<1>10. Covered(Elements(s)) = UNION {Interval(s[i]) : i \in 1 .. Len(s)}
  BY DEF Covered, Elements
<1>11. Covered(Elements(flat)) = Covered(Elements(s)) \ (a .. b)
  BY <1>4, <1>9, <1>10
<1> QED
  BY <1>3, <1>7, <1>8, <1>11

\* Ranges in the order of the list that have no byte in common are different.
LEMMA Different ==
    ASSUME NEW s \in Seq(Span), Related(s, Disjoint),
           NEW i \in 1 .. Len(s), NEW j \in 1 .. Len(s), Interval(s[i]) = Interval(s[j])
    PROVE  i = j
<1>1. \A k \in 1 .. Len(s) : s[k] \in Span /\ Interval(s[k]) # {}
  BY SpanIs
<1>2. ASSUME NEW k \in 1 .. Len(s), NEW l \in 1 .. Len(s), k < l
      PROVE  Interval(s[k]) # Interval(s[l])
  <2>1. <<s[k], s[l]>> \in Disjoint
    BY <1>2 DEF Related
  <2> QED
    BY <1>1, <2>1 DEF Disjoint
<1> QED
  BY <1>2

LEMMA RemovedRange ==
    ASSUME NEW s \in Seq(Span), Related(s, Disjoint), NEW i \in 1 .. Len(s)
    PROVE  /\ Lists!RemoveInflight(s, s[i]) \in Seq(Span)
           /\ Related(Lists!RemoveInflight(s, s[i]), Disjoint)
           /\ Intervals(Elements(Lists!RemoveInflight(s, s[i])))
                 = Intervals(Elements(s)) \ {Interval(s[i])}
<1>0. Len(s) \in Nat
  OBVIOUS
<1>1. PICK I : I = {k \in 1 .. Len(s) : s[k] = s[i]}
  OBVIOUS
<1>2. I = {i}
  <2>1. \A k \in 1 .. Len(s) : s[k] = s[i] => k = i
    BY Different
  <2> QED
    BY <1>1, <2>1
<1>3. Lists!SelectInSeq(s, LAMBDA v : v = s[i]) = i
  <2>1. Lists!Min(I) = i
    BY <1>2 DEF Lists!Min
  <2> QED
    BY <1>1, <1>2, <2>1 DEF Lists!SelectInSeq
<1>4. Lists!RemoveInflight(s, s[i]) = SubSeq(s, 1, i - 1) \o SubSeq(s, i + 1, Len(s))
  BY <1>3 DEF Lists!RemoveInflight, Lists!RemoveFirst, Lists!RemoveAt
<1>5. PICK t \in Seq(Span) :
         t = SubSeq(s, 1, i - 1) \o SubSeq(s, i + 1, Len(s)) /\ Without(s, i, t)
  BY Removed
<1>6. PICK f : f = [k \in 1 .. Len(t) |-> IF k < i THEN k ELSE k + 1]
  OBVIOUS
<1>7. Len(t) \in Nat /\ Len(t) = Len(s) - 1 /\ \A k \in 1 .. Len(t) : t[k] = s[f[k]]
  <2>1. Len(t) \in Nat /\ Len(t) = Len(s) - 1
    BY <1>0, <1>5 DEF Without
  <2>2. \A k \in 1 .. Len(t) : t[k] = s[IF k < i THEN k ELSE k + 1]
    BY <1>5 DEF Without
  <2>3. \A k \in 1 .. Len(t) : f[k] = IF k < i THEN k ELSE k + 1
    BY <1>6
  <2> QED
    BY <2>1, <2>2, <2>3
<1>8. f \in [1 .. Len(t) -> 1 .. Len(s)] /\ \A k, l \in 1 .. Len(t) : k < l => f[k] < f[l]
  BY <1>0, <1>6, <1>7
<1>9. Related(t, Disjoint)
  BY <1>7, <1>8, SomeRelated
<1>10. Intervals(Elements(t)) = Intervals(Elements(s)) \ {Interval(s[i])}
  <2>1. ASSUME NEW k \in 1 .. Len(t)
        PROVE  Interval(t[k]) \in Intervals(Elements(s)) \ {Interval(s[i])}
    <3>1. f[k] \in 1 .. Len(s) /\ f[k] # i /\ t[k] = s[f[k]]
      BY <1>0, <1>6, <1>7, <1>8
    <3>2. Interval(s[f[k]]) # Interval(s[i])
      BY <3>1, Different
    <3> QED
      BY <3>1, <3>2 DEF Intervals, Elements
  <2>2. ASSUME NEW k \in 1 .. Len(s), k # i
        PROVE  Interval(s[k]) \in Intervals(Elements(t))
    <3>1. PICK l \in 1 .. Len(t) : f[l] = k
      <4>1. CASE k < i
        <5>1. k \in 1 .. Len(t)
          BY <1>0, <1>7, <4>1
        <5> QED
          BY <1>6, <4>1, <5>1
      <4>2. CASE ~ (k < i)
        <5>1. k - 1 \in 1 .. Len(t) /\ ~ (k - 1 < i) /\ (k - 1) + 1 = k
          BY <1>0, <1>7, <2>2, <4>2
        <5> QED
          BY <1>6, <5>1
      <4> QED
        BY <4>1, <4>2
    <3>2. t[l] = s[k]
      BY <1>7, <3>1
    <3> QED
      BY <3>2 DEF Intervals, Elements
  <2> QED
    BY <2>1, <2>2 DEF Intervals, Elements
<1> QED
  BY <1>4, <1>5, <1>9, <1>10

\* total_missing counts every byte once.
LEMMA TotalIs ==
    ASSUME NEW s \in Seq(Span), Related(s, Gapped)
    PROVE  /\ IsFiniteSet(Covered(Elements(s)))
           /\ Lists!TotalMissing(s) = Cardinality(Covered(Elements(s)))
<1> DEFINE m == Len(s)
           Fits(e) == e = [k \in 0 .. Len(s) |-> IF k = 0 THEN 0
                                        ELSE e[k - 1] + (s[k].end - s[k].start) + 1]
           Upto(k) == UNION {Interval(s[i]) : i \in 1 .. k}
<1>0. m \in Nat /\ \A k \in 1 .. m : s[k] \in Span /\ s[k].start \in Nat /\ s[k].end \in Nat
                                     /\ s[k].start <= s[k].end
  BY SpanIs
<1>1. \E f : Fits(f)
  <2>1. PICK g \in Turns(Nat, m) :
           g = [x \in Nat \X (1 .. m) |-> x[1] + (s[x[2]].end - s[x[2]].start) + 1]
    <3>1. ASSUME NEW x \in Nat \X (1 .. m)
          PROVE  x[1] + (s[x[2]].end - s[x[2]].start) + 1 \in Nat
      <4>1. PICK a \in Nat, k \in 1 .. m : x = <<a, k>>
        OBVIOUS
      <4>2. s[k].start \in Nat /\ s[k].end \in Nat /\ s[k].start <= s[k].end
        BY <1>0
      <4>3. x[1] = a /\ x[2] = k
        BY <4>1
      <4> QED
        BY <4>2, <4>3
    <3> QED
      BY <3>1 DEF Turns
  <2>2. PICK h \in [0 .. m -> Nat] :
           h[0] = 0 /\ \A k \in 1 .. m : h[k] = g[<<h[k - 1], k>>]
    <3>1. PICK N : N = Nat
      OBVIOUS
    <3>2. PICK base : base = 0
      OBVIOUS
    <3>3. base \in N /\ g \in Turns(N, m) /\ m \in Nat
      BY <1>0, <3>1, <3>2
    <3> HIDE DEF m
    <3>4. \E h : Run(h, N, base, g, m)
      BY <3>3, Iterated
    <3> QED
      BY <3>1, <3>2, <3>4 DEF Run
  <2>3. ASSUME NEW k \in 1 .. m PROVE h[k] = h[k - 1] + (s[k].end - s[k].start) + 1
    <3>1. k - 1 \in 0 .. m
      BY <1>0
    <3>2. h[k - 1] \in Nat
      BY <3>1
    <3>3. g[<<h[k - 1], k>>] = h[k - 1] + (s[k].end - s[k].start) + 1
      BY <2>1, <3>2
    <3> QED
      BY <2>2, <3>3
  <2>4. h = [k \in 0 .. m |-> IF k = 0 THEN 0 ELSE h[k - 1] + (s[k].end - s[k].start) + 1]
    <3>1. h = [k \in 0 .. m |-> h[k]]
      OBVIOUS
    <3>2. \A k \in 0 .. m : k = 0 \/ k \in 1 .. m
      BY <1>0
    <3> QED
      BY <2>2, <2>3, <3>1, <3>2
  <2> QED
    BY <2>4
<1>2. PICK f : f = CHOOSE e : Fits(e)
  OBVIOUS
<1>3. Fits(f)
  BY <1>1, <1>2
<1>4. Lists!TotalMissing(s) = f[m]
  BY <1>2 DEF Lists!TotalMissing
<1>5. f[0] = 0 /\ \A k \in 1 .. m : f[k] = f[k - 1] + (s[k].end - s[k].start) + 1
  <2>1. \A k \in 0 .. m : f[k] = IF k = 0 THEN 0 ELSE f[k - 1] + (s[k].end - s[k].start) + 1
    BY <1>3
  <2>2. 0 \in 0 .. m /\ \A k \in 1 .. m : k \in 0 .. m /\ k # 0
    BY <1>0
  <2> QED
    BY <2>1, <2>2
<1> HIDE DEF Fits
<1> DEFINE T == {k \in 0 .. m : f[k] \in Nat /\ IsFiniteSet(Upto(k)) /\ Cardinality(Upto(k)) = f[k]}
<1>6. 0 \in T
  <2>1. Upto(0) = {} /\ 0 \in 0 .. m
    BY <1>0
  <2>2. IsFiniteSet({}) /\ Cardinality({}) = 0
    BY FS_EmptySet
  <2> HIDE DEF Upto
  <2>3. f[0] \in Nat /\ IsFiniteSet(Upto(0)) /\ Cardinality(Upto(0)) = f[0]
    <3>1. f[0] = 0
      BY <1>5
    <3>2. IsFiniteSet(Upto(0)) /\ Cardinality(Upto(0)) = 0
      BY <2>1, <2>2
    <3> QED
      BY <3>1, <3>2
  <2> QED
    BY <2>1, <2>3
<1>7. ASSUME NEW k \in 1 .. m, k - 1 \in T PROVE k \in T
  <2>1. f[k - 1] \in Nat /\ IsFiniteSet(Upto(k - 1)) /\ Cardinality(Upto(k - 1)) = f[k - 1]
    BY <1>7
  <2>2. PICK a, b \in Nat : a = s[k].start /\ b = s[k].end /\ a <= b
    BY <1>0
  <2>3. Upto(k) = Upto(k - 1) \cup (a .. b)
    <3>1. 1 .. k = (1 .. k - 1) \cup {k}
      BY <1>0
    <3> QED
      BY <2>2, <3>1 DEF Interval
  <2>4. Upto(k - 1) \cap (a .. b) = {}
    <3>1. ASSUME NEW i \in 1 .. k - 1 PROVE Interval(s[i]) \cap (a .. b) = {}
      <4>1. i \in 1 .. m /\ i < k
        BY <1>0
      <4>2. <<s[i], s[k]>> \in Gapped
        BY <4>1 DEF Related
      <4>3. s[i].end + 1 < a /\ s[i].end \in Nat
        BY <1>0, <2>2, <4>1, <4>2 DEF Gapped
      <4> QED
        BY <2>2, <4>3 DEF Interval
    <3> QED
      BY <3>1
  <2>5. IsFiniteSet(a .. b) /\ Cardinality(a .. b) = (b - a) + 1
    <3>1. a \in Int /\ b \in Int
      BY <2>2
    <3> QED
      BY <2>2, <3>1, FS_Interval
  <2>6. IsFiniteSet(Upto(k)) /\ Cardinality(Upto(k)) = f[k - 1] + ((b - a) + 1)
    <3> HIDE DEF Upto
    <3>1. /\ IsFiniteSet(Upto(k - 1) \cup (a .. b))
          /\ Cardinality(Upto(k - 1) \cup (a .. b)) = Cardinality(Upto(k - 1)) + Cardinality(a .. b)
                                                      - Cardinality(Upto(k - 1) \cap (a .. b))
      BY <2>1, <2>5, FS_Union
    <3>2. Cardinality(Upto(k - 1) \cap (a .. b)) = 0
      BY <2>4, FS_EmptySet
    <3> QED
      BY <2>1, <2>2, <2>3, <2>5, <3>1, <3>2
  <2>7. f[k] = f[k - 1] + ((b - a) + 1)
    BY <1>5, <2>1, <2>2
  <2>8. f[k] \in Nat
    BY <2>1, <2>2, <2>7
  <2> HIDE DEF Upto
  <2>9. k \in 0 .. m
    BY <1>0
  <2> QED
    BY <2>6, <2>7, <2>8, <2>9
<1>8. m \in T
  <2> HIDE DEF T, m
  <2> QED
    BY <1>0, <1>6, <1>7, Turned
<1>9. Upto(m) = Covered(Elements(s))
  BY DEF Covered, Elements
<1> HIDE DEF Upto, m
<1> QED
  BY <1>4, <1>8, <1>9

\* The first element of a set of naturals.
LEMMA FirstIs ==
    ASSUME NEW S \in SUBSET Nat, NEW x \in S
    PROVE  /\ Lists!Min(S) \in S /\ \A y \in S : Lists!Min(S) <= y
           /\ Lists!Pool!Least(S) \in S /\ \A y \in S : Lists!Pool!Least(S) <= y
<1>1. PICK m \in S : \A y \in S : m <= y
  BY LeastNatural
<1>2. Lists!Min(S) = CHOOSE z \in S : \A y \in S : z <= y
  BY DEF Lists!Min
<1>3. Lists!Pool!Least(S) = CHOOSE z \in S : \A y \in S : z <= y
  BY DEF Lists!Pool!Least
<1> QED
  BY <1>1, <1>2, <1>3

ByStart == {p \in Span \X Span : p[1].start <= p[2].start}

\* One more range among sorted ones.
LEMMA InsertedIs ==
    ASSUME NEW s \in Seq(Span), Related(s, ByStart), NEW r \in Span
    PROVE  /\ Lists!Inserted(s, r) \in Seq(Span) /\ Related(Lists!Inserted(s, r), ByStart)
           /\ Elements(Lists!Inserted(s, r)) = Elements(s) \cup {r}
           /\ Len(Lists!Inserted(s, r)) = Len(s) + 1
<1>0. /\ Len(s) \in Nat /\ DOMAIN s = 1 .. Len(s) /\ \A i \in 1 .. Len(s) : s[i] \in Span
      /\ r.start \in Nat /\ r.end \in Nat
  BY SpanIs
<1>1. PICK P : P = {i \in 1 .. Len(s) : ~ Lists!RangeOrder(s[i], r)} \cup {Len(s) + 1}
  OBVIOUS
<1>2. PICK n : n = Lists!Min(P)
  OBVIOUS
<1>3. n \in P /\ \A i \in P : n <= i
  <2>1. P \in SUBSET Nat /\ Len(s) + 1 \in P
    BY <1>0, <1>1
  <2> QED
    BY <1>2, <2>1, FirstIs
<1>4. n \in 1 .. Len(s) + 1
  BY <1>0, <1>1, <1>3
<1>5. PICK front : front = SubSeq(s, 1, n - 1)
  OBVIOUS
<1>6. PICK back : back = SubSeq(s, n, Len(s))
  OBVIOUS
<1>7. Lists!Inserted(s, r) = front \o <<r>> \o back
  BY <1>0, <1>1, <1>2, <1>5, <1>6 DEF Lists!Inserted, Lists!InsertAt
<1>8. front \in Seq(Span) /\ Len(front) = n - 1 /\ \A i \in 1 .. n - 1 : front[i] = s[i]
  BY <1>0, <1>4, <1>5
<1>9. /\ back \in Seq(Span) /\ Len(back) = Len(s) - n + 1
      /\ \A i \in 1 .. Len(s) - n + 1 : back[i] = s[n - 1 + i]
  BY <1>0, <1>4, <1>6
<1>10. Related(front, ByStart)
  <2>1. \A i \in 1 .. n - 1 : i \in 1 .. Len(s)
    BY <1>0, <1>4
  <2> QED
    BY <1>8, <2>1 DEF Related
<1>11. Related(back, ByStart)
  <2>1. \A i \in 1 .. Len(back) : n - 1 + i \in 1 .. Len(s) /\ back[i] = s[n - 1 + i]
    BY <1>0, <1>4, <1>9
  <2>2. \A i, j \in 1 .. Len(back) : i < j => n - 1 + i < n - 1 + j
    BY <1>0, <1>4, <1>9
  <2> QED
    BY <2>1, <2>2 DEF Related
<1>12. ASSUME NEW i \in 1 .. Len(front) PROVE front[i] \in Span /\ front[i].start <= r.start
  <2>1. i \in 1 .. Len(s) /\ i < n /\ front[i] = s[i]
    BY <1>0, <1>4, <1>8
  <2>2. Lists!RangeOrder(s[i], r)
    BY <1>1, <1>3, <2>1, <1>4
  <2>3. s[i].start \in Nat
    BY <1>0, <2>1, SpanIs
  <2> QED
    BY <1>0, <2>1, <2>2, <2>3 DEF Lists!RangeOrder
<1>13. ASSUME NEW i \in 1 .. Len(back) PROVE back[i] \in Span /\ r.start <= back[i].start
  <2>1. PICK k \in 1 .. Len(s) : k = n - 1 + i /\ back[i] = s[k] /\ n <= k /\ n \in 1 .. Len(s)
    BY <1>0, <1>4, <1>9
  <2>2. ~ Lists!RangeOrder(s[n], r)
    BY <1>0, <1>1, <1>3, <2>1
  <2>3. s[n].start \in Nat /\ s[k].start \in Nat /\ s[n].end \in Nat
    BY <1>0, <2>1, SpanIs
  <2>4. r.start <= s[n].start
    BY <1>0, <2>2, <2>3 DEF Lists!RangeOrder
  <2>5. s[n].start <= s[k].start
    <3>1. CASE n = k
      BY <2>3, <3>1
    <3>2. CASE n < k
      <4>1. <<s[n], s[k]>> \in ByStart
        BY <2>1, <3>2 DEF Related
      <4> QED
        BY <4>1 DEF ByStart
    <3>3. n = k \/ n < k
      BY <2>1
    <3> QED
      BY <3>1, <3>2, <3>3
  <2> QED
    BY <1>0, <2>1, <2>3, <2>4, <2>5
<1>14. PICK mid \in Seq(Span) : mid = <<r>> /\ Related(mid, ByStart) /\ Elements(mid) = {r}
                                /\ Len(mid) = 1 /\ mid[1] = r
  <2>1. <<r>> \in Seq(Span) /\ Len(<<r>>) = 1 /\ <<r>>[1] = r
    OBVIOUS
  <2>2. Related(<<r>>, ByStart) /\ Elements(<<r>>) = {r}
    BY FewElements
  <2> QED
    BY <2>1, <2>2
<1>15. PICK head \in Seq(Span) : /\ head = front \o mid /\ Related(head, ByStart)
                                 /\ Elements(head) = Elements(front) \cup {r}
                                 /\ Len(head) = Len(front) + 1
  <2>1. ASSUME NEW i \in 1 .. Len(front), NEW j \in 1 .. Len(mid) PROVE <<front[i], mid[j]>> \in ByStart
    <3>1. mid[j] = r
      BY <1>14
    <3> QED
      BY <1>12, <3>1 DEF ByStart
  <2>2. Related(front \o mid, ByStart) /\ Elements(front \o mid) = Elements(front) \cup Elements(mid)
    BY <1>8, <1>10, <1>14, <2>1, JoinedRelated, JoinedElements
  <2>3. front \o mid \in Seq(Span) /\ Len(front \o mid) = Len(front) + Len(mid)
    BY <1>8, <1>14, Joined
  <2> QED
    BY <1>14, <2>2, <2>3
<1>16. PICK all \in Seq(Span) : /\ all = head \o back /\ Related(all, ByStart)
                                /\ Elements(all) = (Elements(front) \cup {r}) \cup Elements(back)
                                /\ Len(all) = Len(front) + 1 + Len(back)
  <2>1. ASSUME NEW i \in 1 .. Len(head), NEW j \in 1 .. Len(back) PROVE <<head[i], back[j]>> \in ByStart
    <3>1. head[i] \in Elements(front) \cup {r}
      BY <1>15 DEF Elements
    <3>2. head[i] \in Span /\ head[i].start <= r.start /\ head[i].start \in Nat
      <4>1. ASSUME NEW k \in 1 .. Len(front), head[i] = front[k]
            PROVE  head[i] \in Span /\ head[i].start <= r.start /\ head[i].start \in Nat
        BY <1>12, <4>1, SpanIs
      <4>2. CASE head[i] = r
        BY <1>0, <4>2
      <4> QED
        BY <3>1, <4>1, <4>2 DEF Elements
    <3>3. back[j] \in Span /\ r.start <= back[j].start /\ back[j].start \in Nat
      BY <1>13, SpanIs
    <3>4. head[i].start <= back[j].start
      BY <1>0, <3>2, <3>3
    <3> QED
      BY <3>2, <3>3, <3>4 DEF ByStart
  <2>2. Related(head \o back, ByStart) /\ Elements(head \o back) = Elements(head) \cup Elements(back)
    BY <1>9, <1>11, <1>15, <2>1, JoinedRelated, JoinedElements
  <2>3. head \o back \in Seq(Span) /\ Len(head \o back) = Len(head) + Len(back)
    BY <1>9, <1>15, Joined
  <2> QED
    BY <1>15, <2>2, <2>3
<1>17. Elements(s) = Elements(front) \cup Elements(back)
  <2>1. ASSUME NEW i \in 1 .. Len(s) PROVE s[i] \in Elements(front) \cup Elements(back)
    <3>1. CASE i < n
      <4>1. i \in 1 .. Len(front) /\ front[i] = s[i]
        BY <1>0, <1>4, <1>8, <3>1
      <4> QED
        BY <4>1 DEF Elements
    <3>2. CASE ~ (i < n)
      <4>1. PICK k \in 1 .. Len(back) : i = n - 1 + k
        <5>1. i - n + 1 \in 1 .. Len(back) /\ i = n - 1 + (i - n + 1)
          BY <1>0, <1>4, <1>9, <3>2
        <5> QED
          BY <5>1
      <4>2. back[k] = s[i]
        BY <1>9, <4>1
      <4> QED
        BY <4>2 DEF Elements
    <3> QED
      BY <3>1, <3>2
  <2>2. ASSUME NEW i \in 1 .. Len(front) PROVE front[i] \in Elements(s)
    <3>1. i \in 1 .. Len(s) /\ front[i] = s[i]
      BY <1>0, <1>4, <1>8
    <3> QED
      BY <3>1 DEF Elements
  <2>3. ASSUME NEW i \in 1 .. Len(back) PROVE back[i] \in Elements(s)
    <3>1. n - 1 + i \in 1 .. Len(s) /\ back[i] = s[n - 1 + i]
      BY <1>0, <1>4, <1>9
    <3> QED
      BY <3>1 DEF Elements
  <2> QED
    BY <2>1, <2>2, <2>3 DEF Elements
<1>18. Lists!Inserted(s, r) = all
  BY <1>7, <1>14, <1>15, <1>16
<1>19. Len(all) = Len(s) + 1
  BY <1>0, <1>4, <1>8, <1>9, <1>16
<1> QED
  BY <1>16, <1>17, <1>18, <1>19

\* merge_ranges sorts first.
LEMMA SortedIs ==
    ASSUME NEW s \in Seq(Span)
    PROVE  /\ Lists!Sorted(s) \in Seq(Span) /\ Related(Lists!Sorted(s), ByStart)
           /\ Elements(Lists!Sorted(s)) = Elements(s) /\ Len(Lists!Sorted(s)) = Len(s)
<1> DEFINE m == Len(s)
           Q == {t \in Seq(Span) : Related(t, ByStart)}
           Fits(e) == e = [k \in 0 .. Len(s) |-> IF k = 0 THEN <<>>
                                                 ELSE Lists!Inserted(e[k - 1], s[k])]
           Upto(k) == {s[i] : i \in 1 .. k}
<1>0. m \in Nat /\ \A k \in 1 .. m : s[k] \in Span
  OBVIOUS
<1>1. <<>> \in Q /\ \A t \in Q, r \in Span : Lists!Inserted(t, r) \in Q
  BY FewElements, InsertedIs
<1>2. \E f : Fits(f)
  <2>1. PICK g \in Turns(Q, m) : g = [x \in Q \X (1 .. m) |-> Lists!Inserted(x[1], s[x[2]])]
    <3>1. ASSUME NEW x \in Q \X (1 .. m) PROVE Lists!Inserted(x[1], s[x[2]]) \in Q
      <4> HIDE DEF Q
      <4>1. x[1] \in Q /\ x[2] \in 1 .. m
        OBVIOUS
      <4> QED
        BY <1>0, <1>1, <4>1
    <3> HIDE DEF Q
    <3> QED
      BY <3>1 DEF Turns
  <2> HIDE DEF Q
  <2>2. PICK h \in [0 .. m -> Q] :
           h[0] = <<>> /\ \A k \in 1 .. m : h[k] = g[<<h[k - 1], k>>]
    <3>1. PICK base : base = <<>>
      OBVIOUS
    <3>2. base \in Q
      BY <1>1, <3>1
    <3> HIDE DEF m
    <3>3. \E h : Run(h, Q, base, g, m)
      BY <1>0, <3>2, Iterated
    <3> QED
      BY <3>1, <3>3 DEF Run
  <2>3. ASSUME NEW k \in 1 .. m PROVE h[k] = Lists!Inserted(h[k - 1], s[k])
    <3>1. k - 1 \in 0 .. m
      BY <1>0
    <3>2. <<h[k - 1], k>> \in Q \X (1 .. m)
      BY <3>1
    <3>3. g[<<h[k - 1], k>>] = Lists!Inserted(h[k - 1], s[k])
      BY <2>1, <3>2
    <3> QED
      BY <2>2, <3>3
  <2>4. h = [k \in 0 .. m |-> IF k = 0 THEN <<>> ELSE Lists!Inserted(h[k - 1], s[k])]
    <3>1. h = [k \in 0 .. m |-> h[k]]
      OBVIOUS
    <3>2. \A k \in 0 .. m : k = 0 \/ k \in 1 .. m
      BY <1>0
    <3> QED
      BY <2>2, <2>3, <3>1, <3>2
  <2> QED
    BY <2>4
<1>3. PICK f : f = CHOOSE e : Fits(e)
  OBVIOUS
<1>4. Fits(f)
  BY <1>2, <1>3
<1>5. Lists!Sorted(s) = f[m]
  BY <1>3 DEF Lists!Sorted
<1>6. f[0] = <<>> /\ \A k \in 1 .. m : f[k] = Lists!Inserted(f[k - 1], s[k])
  <2>1. \A k \in 0 .. m : f[k] = IF k = 0 THEN <<>> ELSE Lists!Inserted(f[k - 1], s[k])
    BY <1>4
  <2>2. 0 \in 0 .. m /\ \A k \in 1 .. m : k \in 0 .. m /\ k # 0
    BY <1>0
  <2> QED
    BY <2>1, <2>2
<1> HIDE DEF Fits
<1> DEFINE T == {k \in 0 .. m : f[k] \in Q /\ Elements(f[k]) = Upto(k) /\ Len(f[k]) = k}
<1>7. 0 \in T
  <2>1. Upto(0) = {} /\ 0 \in 0 .. m /\ Len(<<>>) = 0
    BY <1>0
  <2>2. Elements(<<>>) = {}
    BY FewElements
  <2> HIDE DEF Q, Upto
  <2>3. f[0] \in Q /\ Elements(f[0]) = Upto(0) /\ Len(f[0]) = 0
    BY <1>1, <1>6, <2>1, <2>2
  <2> QED
    BY <2>1, <2>3
<1>8. ASSUME NEW k \in 1 .. m, k - 1 \in T PROVE k \in T
  <2>1. f[k - 1] \in Q /\ Elements(f[k - 1]) = Upto(k - 1) /\ Len(f[k - 1]) = k - 1
    BY <1>8
  <2>2. PICK t \in Seq(Span) : t = f[k - 1] /\ Related(t, ByStart)
    BY <2>1
  <2>3. PICK r \in Span : r = s[k]
    BY <1>0
  <2>4. f[k] = Lists!Inserted(t, r)
    BY <1>6, <2>2, <2>3
  <2>5. /\ f[k] \in Seq(Span) /\ Related(f[k], ByStart)
        /\ Elements(f[k]) = Elements(t) \cup {r} /\ Len(f[k]) = Len(t) + 1
    BY <2>2, <2>4, InsertedIs
  <2>6. Upto(k) = Upto(k - 1) \cup {r}
    <3>1. 1 .. k = (1 .. k - 1) \cup {k}
      BY <1>0
    <3> QED
      BY <2>3, <3>1
  <2> HIDE DEF Upto
  <2>7. Len(f[k]) = k /\ k \in 0 .. m
    BY <1>0, <2>1, <2>2, <2>5
  <2> QED
    BY <2>1, <2>2, <2>5, <2>6, <2>7
<1>9. m \in T
  <2> HIDE DEF T, m
  <2> QED
    BY <1>0, <1>7, <1>8, Turned
<1>10. Upto(m) = Elements(s)
  BY DEF Elements
<1> HIDE DEF Upto, m
<1>11. f[m] \in Seq(Span) /\ Related(f[m], ByStart) /\ Elements(f[m]) = Upto(m) /\ Len(f[m]) = m
  BY <1>9
<1> QED
  BY <1>5, <1>10, <1>11 DEF m

\* Ranges that a later one, by its start, can be joined to at their end only.
Joinable(t, low) ==
    /\ t \in Seq(Span) /\ Related(t, Gapped)
    /\ \A i \in 1 .. Len(t) : t[i].start <= low

LEMMA JoinIs ==
    ASSUME NEW t, NEW r \in Span, Joinable(t, r.start)
    PROVE  /\ Joinable(Lists!Join(t, r), r.start)
           /\ Covered(Elements(Lists!Join(t, r))) = Covered(Elements(t)) \cup Interval(r)
<1>0. t \in Seq(Span) /\ Related(t, Gapped) /\ \A i \in 1 .. Len(t) : t[i].start <= r.start
  BY DEF Joinable
<1>1. /\ Len(t) \in Nat /\ r.start \in Nat /\ r.end \in Nat /\ r.start <= r.end
      /\ \A i \in 1 .. Len(t) : /\ t[i] \in Span /\ t[i].start \in Nat /\ t[i].end \in Nat
                                /\ t[i].start <= t[i].end
  BY <1>0, SpanIs
<1>2. CASE t # <<>> /\ r.start <= Lists!Last(t).end + 1
  <2>1. PICK n \in Nat : Len(t) = n + 1
    <3>1. Len(t) - 1 \in Nat /\ Len(t) = (Len(t) - 1) + 1
      BY <1>0, <1>2
    <3> QED
      BY <3>1
  <2>2. PICK last \in Span : last = t[n + 1] /\ last = Lists!Last(t)
    <3>1. n + 1 \in 1 .. Len(t)
      BY <2>1
    <3> QED
      BY <1>1, <2>1, <3>1 DEF Lists!Last
  <2>3. /\ last.start \in Nat /\ last.end \in Nat /\ last.start <= last.end
        /\ last.start <= r.start /\ r.start <= last.end + 1
    <3>1. n + 1 \in 1 .. Len(t)
      BY <2>1
    <3> QED
      BY <1>0, <1>1, <1>2, <2>2, <3>1
  <2>4. PICK e \in Nat : e = Lists!Max({last.end, r.end}) /\ e \in {last.end, r.end}
                         /\ e >= last.end /\ e >= r.end
    <3>1. PICK x \in {last.end, r.end} : \A y \in {last.end, r.end} : x >= y
      BY <1>1, <2>3
    <3>2. Lists!Max({last.end, r.end}) \in {last.end, r.end}
          /\ \A y \in {last.end, r.end} : Lists!Max({last.end, r.end}) >= y
      BY <3>1 DEF Lists!Max
    <3> QED
      BY <1>1, <2>3, <3>2
  <2>5. PICK b : b = Lists!ByteRange(last.start, e)
    OBVIOUS
  <2>6. b \in Span /\ b.start = last.start /\ b.end = e /\ Interval(b) = last.start .. e
    BY <2>3, <2>4, <2>5, RangeIsSpan
  <2>7. PICK front : front = SubSeq(t, 1, n)
    OBVIOUS
  <2>8. front \in Seq(Span) /\ Len(front) = n /\ \A i \in 1 .. n : front[i] = t[i]
    BY <1>0, <2>1, <2>7
  <2>9. Lists!Join(t, r) = Append(front, b)
    <3>1. Lists!Front(t) = front
      BY <2>1, <2>7 DEF Lists!Front
    <3>2. Lists!Max({Lists!Last(t).end, r.end}) = e
      BY <2>2, <2>4
    <3> QED
      BY <1>2, <2>2, <2>5, <3>1, <3>2 DEF Lists!Join
  <2>10. PICK u : u = Append(front, b)
    OBVIOUS
  <2>11. u \in Seq(Span) /\ Len(u) = n + 1 /\ u[n + 1] = b /\ \A i \in 1 .. n : u[i] = t[i]
    BY <2>6, <2>8, <2>10
  <2>12. ASSUME NEW i \in 1 .. n PROVE t[i] \in Span /\ t[i].end + 1 < last.start
    <3>1. i \in 1 .. Len(t) /\ n + 1 \in 1 .. Len(t) /\ i < n + 1
      BY <2>1
    <3>2. <<t[i], t[n + 1]>> \in Gapped
      BY <1>0, <3>1 DEF Related
    <3> QED
      BY <2>2, <3>2 DEF Gapped
  <2>13. Related(u, Gapped)
    <3> SUFFICES ASSUME NEW i \in 1 .. n + 1, NEW j \in 1 .. n + 1, i < j
                 PROVE  <<u[i], u[j]>> \in Gapped
      BY <2>11 DEF Related
    <3>1. i \in 1 .. n
      OBVIOUS
    <3>2. CASE j \in 1 .. n
      <4>1. <<t[i], t[j]>> \in Gapped
        <5>1. i \in 1 .. Len(t) /\ j \in 1 .. Len(t)
          BY <2>1, <3>1, <3>2
        <5> QED
          BY <1>0, <5>1 DEF Related
      <4> QED
        BY <2>11, <3>1, <3>2, <4>1
    <3>3. CASE j = n + 1
      <4>1. u[i] = t[i] /\ u[j] = b
        BY <2>11, <3>1, <3>3
      <4>2. t[i] \in Span /\ t[i].end + 1 < b.start
        BY <2>6, <2>12, <3>1
      <4> QED
        BY <2>6, <4>1, <4>2 DEF Gapped
    <3> QED
      BY <3>2, <3>3
  <2>14. \A i \in 1 .. Len(u) : u[i].start <= r.start
    <3>1. ASSUME NEW i \in 1 .. n + 1 PROVE u[i].start <= r.start
      <4>1. CASE i \in 1 .. n
        <5>1. i \in 1 .. Len(t)
          BY <2>1, <4>1
        <5> QED
          BY <1>0, <2>11, <4>1, <5>1
      <4>2. CASE i = n + 1
        BY <2>3, <2>6, <2>11, <4>2
      <4> QED
        BY <4>1, <4>2
    <3> QED
      BY <2>11, <3>1
  <2>15. Covered(Elements(u)) = Covered(Elements(t)) \cup Interval(r)
    <3>1. Elements(u) = {t[i] : i \in 1 .. n} \cup {b}
      <4>1. 1 .. n + 1 = (1 .. n) \cup {n + 1}
        OBVIOUS
      <4> QED
        BY <2>11, <4>1 DEF Elements
    <3>2. Elements(t) = {t[i] : i \in 1 .. n} \cup {last}
      <4>1. 1 .. n + 1 = (1 .. n) \cup {n + 1}
        OBVIOUS
      <4> QED
        BY <2>1, <2>2, <4>1 DEF Elements
    <3>3. Interval(b) = Interval(last) \cup Interval(r)
      <4>1. last.start .. e = (last.start .. last.end) \cup (r.start .. r.end)
        BY <1>1, <2>3, <2>4
      <4> QED
        BY <2>6, <4>1 DEF Interval
    <3> QED
      BY <3>1, <3>2, <3>3 DEF Covered
  <2> QED
    BY <2>9, <2>10, <2>11, <2>13, <2>14, <2>15 DEF Joinable
<1>3. CASE ~ (t # <<>> /\ r.start <= Lists!Last(t).end + 1)
  <2>1. Lists!Join(t, r) = Append(t, r)
    BY <1>3 DEF Lists!Join
  <2>2. PICK n \in Nat : n = Len(t)
    BY <1>1
  <2>3. PICK u : u = Append(t, r)
    OBVIOUS
  <2>4. u \in Seq(Span) /\ Len(u) = n + 1 /\ u[n + 1] = r /\ \A i \in 1 .. n : u[i] = t[i]
    BY <1>0, <2>2, <2>3
  <2>5. ASSUME NEW i \in 1 .. n PROVE t[i] \in Span /\ t[i].end + 1 < r.start
    <3>1. t # <<>> /\ n \in 1 .. n /\ Lists!Last(t) = t[n] /\ t[n] \in Span
      BY <1>0, <1>1, <2>2 DEF Lists!Last
    <3>2. t[n].end + 1 < r.start /\ t[n].end \in Nat /\ t[n].start \in Nat /\ t[n].start <= t[n].end
      BY <1>1, <1>3, <2>2, <3>1
    <3>3. CASE i = n
      BY <3>1, <3>2, <3>3
    <3>4. CASE i < n
      <4>1. <<t[i], t[n]>> \in Gapped
        BY <1>0, <2>2, <3>1, <3>4 DEF Related
      <4>2. t[i].end + 1 < t[n].start /\ t[i] \in Span /\ t[i].end \in Nat
        BY <1>1, <2>2, <4>1 DEF Gapped
      <4>3. PICK a, b, c, d \in Nat :
               a = t[i].end /\ b = t[n].start /\ c = t[n].end /\ d = r.start
        BY <1>1, <3>2, <4>2
      <4>4. a + 1 < d
        BY <3>2, <4>2, <4>3
      <4> QED
        BY <4>2, <4>3, <4>4
    <3> QED
      BY <3>3, <3>4
  <2>6. Related(u, Gapped)
    <3> SUFFICES ASSUME NEW i \in 1 .. n + 1, NEW j \in 1 .. n + 1, i < j
                 PROVE  <<u[i], u[j]>> \in Gapped
      BY <2>4 DEF Related
    <3>1. i \in 1 .. n
      OBVIOUS
    <3>2. CASE j \in 1 .. n
      BY <1>0, <2>2, <2>4, <3>1, <3>2 DEF Related
    <3>3. CASE j = n + 1
      <4>1. u[i] = t[i] /\ u[j] = r
        BY <2>4, <3>1, <3>3
      <4> QED
        BY <2>5, <3>1, <4>1 DEF Gapped
    <3> QED
      BY <3>2, <3>3
  <2>7. \A i \in 1 .. Len(u) : u[i].start <= r.start
    <3>1. ASSUME NEW i \in 1 .. n + 1 PROVE u[i].start <= r.start
      <4>1. CASE i \in 1 .. n
        BY <1>0, <2>2, <2>4, <4>1
      <4>2. CASE i = n + 1
        BY <1>1, <2>4, <4>2
      <4> QED
        BY <4>1, <4>2
    <3> QED
      BY <2>4, <3>1
  <2>8. Covered(Elements(u)) = Covered(Elements(t)) \cup Interval(r)
    <3>1. Elements(u) = Elements(t) \cup {r}
      <4>1. 1 .. n + 1 = (1 .. n) \cup {n + 1}
        OBVIOUS
      <4> QED
        BY <2>2, <2>4, <4>1 DEF Elements
    <3> QED
      BY <3>1 DEF Covered
  <2> QED
    BY <2>1, <2>3, <2>4, <2>6, <2>7, <2>8 DEF Joinable
<1> QED
  BY <1>2, <1>3

LEMMA JoinTyped ==
    ASSUME NEW t \in Seq(Span), NEW r \in Span
    PROVE  Lists!Join(t, r) \in Seq(Span)
<1>0. /\ Len(t) \in Nat /\ r.start \in Nat /\ r.end \in Nat
      /\ \A i \in 1 .. Len(t) : t[i] \in Span
  BY SpanIs
<1>1. CASE t # <<>> /\ r.start <= Lists!Last(t).end + 1
  <2>1. Len(t) \in 1 .. Len(t)
    BY <1>0, <1>1
  <2>2. PICK last \in Span : last = Lists!Last(t)
    BY <1>0, <2>1 DEF Lists!Last
  <2>3. last.start \in Nat /\ last.end \in Nat /\ last.start <= last.end
    BY SpanIs
  <2>4. PICK e \in Nat : e = Lists!Max({last.end, r.end}) /\ e >= last.end
    <3>1. PICK x \in {last.end, r.end} : \A y \in {last.end, r.end} : x >= y
      BY <1>0, <2>3
    <3>2. Lists!Max({last.end, r.end}) \in {last.end, r.end}
          /\ \A y \in {last.end, r.end} : Lists!Max({last.end, r.end}) >= y
      BY <3>1 DEF Lists!Max
    <3> QED
      BY <1>0, <2>3, <3>2
  <2>5. PICK b \in Span : b = Lists!ByteRange(last.start, e)
    BY <2>3, <2>4, RangeIsSpan
  <2>6. PICK front \in Seq(Span) : front = Lists!Front(t)
    <3>1. PICK n \in Nat : Len(t) = n + 1
      <4>1. Len(t) - 1 \in Nat /\ Len(t) = (Len(t) - 1) + 1
        BY <1>0, <2>1
      <4> QED
        BY <4>1
    <3>2. SubSeq(t, 1, n) \in Seq(Span) /\ Len(t) - 1 = n
      BY <3>1
    <3> QED
      BY <3>2 DEF Lists!Front
  <2>7. Lists!Join(t, r) = Append(front, b)
    BY <1>1, <2>2, <2>4, <2>5, <2>6 DEF Lists!Join
  <2> QED
    BY <2>5, <2>6, <2>7
<1>2. CASE ~ (t # <<>> /\ r.start <= Lists!Last(t).end + 1)
  <2>1. Lists!Join(t, r) = Append(t, r)
    BY <1>2 DEF Lists!Join
  <2> QED
    BY <2>1
<1> QED
  BY <1>1, <1>2

\* merge_ranges keeps the bytes and leaves a gap between any two ranges.
LEMMA MergeIs ==
    ASSUME NEW s \in Seq(Span)
    PROVE  /\ Lists!MergeRanges(s) \in Seq(Span) /\ Related(Lists!MergeRanges(s), Gapped)
           /\ Covered(Elements(Lists!MergeRanges(s))) = Covered(Elements(s))
<1>1. PICK t \in Seq(Span) : /\ t = Lists!Sorted(s) /\ Related(t, ByStart)
                             /\ Elements(t) = Elements(s) /\ Len(t) = Len(s)
  BY SortedIs
<1> DEFINE m == Len(s)
           Fits(e) == e = [k \in 0 .. Len(s) |-> IF k = 0 THEN <<>>
                                                 ELSE Lists!Join(e[k - 1], t[k])]
           Upto(k) == UNION {Interval(t[i]) : i \in 1 .. k}
<1>0. m \in Nat /\ \A k \in 1 .. m : t[k] \in Span
  BY <1>1
<1>2. \E f : Fits(f)
  <2>1. PICK Q : Q = Seq(Span)
    OBVIOUS
  <2>2. PICK g \in Turns(Q, m) : g = [x \in Q \X (1 .. m) |-> Lists!Join(x[1], t[x[2]])]
    <3>1. ASSUME NEW x \in Q \X (1 .. m) PROVE Lists!Join(x[1], t[x[2]]) \in Q
      <4>1. x[1] \in Q /\ x[2] \in 1 .. m
        OBVIOUS
      <4> QED
        BY <1>0, <2>1, <4>1, JoinTyped
    <3> QED
      BY <3>1 DEF Turns
  <2>3. PICK h \in [0 .. m -> Q] :
           h[0] = <<>> /\ \A k \in 1 .. m : h[k] = g[<<h[k - 1], k>>]
    <3>1. PICK base : base = <<>>
      OBVIOUS
    <3>2. base \in Q
      BY <2>1, <3>1, FewElements
    <3>3. m \in Nat /\ g \in Turns(Q, m)
      BY <1>0
    <3> HIDE DEF m
    <3>4. \E h : Run(h, Q, base, g, m)
      BY <3>2, <3>3, Iterated
    <3> QED
      BY <3>1, <3>4 DEF Run
  <2>4. ASSUME NEW k \in 1 .. m PROVE h[k] = Lists!Join(h[k - 1], t[k])
    <3>1. k - 1 \in 0 .. m
      BY <1>0
    <3>2. <<h[k - 1], k>> \in Q \X (1 .. m)
      BY <3>1
    <3>3. g[<<h[k - 1], k>>] = Lists!Join(h[k - 1], t[k])
      BY <2>2, <3>2
    <3> QED
      BY <2>3, <3>3
  <2>5. h = [k \in 0 .. m |-> IF k = 0 THEN <<>> ELSE Lists!Join(h[k - 1], t[k])]
    <3>1. h = [k \in 0 .. m |-> h[k]]
      OBVIOUS
    <3>2. \A k \in 0 .. m : k = 0 \/ k \in 1 .. m
      BY <1>0
    <3> QED
      BY <2>3, <2>4, <3>1, <3>2
  <2> QED
    BY <2>5
<1>3. PICK f : f = CHOOSE e : Fits(e)
  OBVIOUS
<1>4. Fits(f)
  BY <1>2, <1>3
<1>5. Lists!MergeRanges(s) = f[m]
  BY <1>1, <1>3 DEF Lists!MergeRanges
<1>6. f[0] = <<>> /\ \A k \in 1 .. m : f[k] = Lists!Join(f[k - 1], t[k])
  <2>1. \A k \in 0 .. m : f[k] = IF k = 0 THEN <<>> ELSE Lists!Join(f[k - 1], t[k])
    BY <1>4
  <2>2. 0 \in 0 .. m /\ \A k \in 1 .. m : k \in 0 .. m /\ k # 0
    BY <1>0
  <2> QED
    BY <2>1, <2>2
<1> HIDE DEF Fits
<1> DEFINE T == {k \in 0 .. m : /\ f[k] \in Seq(Span) /\ Related(f[k], Gapped)
                                /\ k # 0 => Joinable(f[k], t[k].start)
                                /\ Covered(Elements(f[k])) = Upto(k)}
<1>7. 0 \in T
  <2>1. Upto(0) = {} /\ 0 \in 0 .. m
    BY <1>0
  <2>2. /\ Covered(Elements(<<>>)) = {} /\ <<>> \in Seq(Span) /\ Related(<<>>, Gapped)
    BY FewElements DEF Covered
  <2> HIDE DEF Upto
  <2>3. f[0] \in Seq(Span) /\ Related(f[0], Gapped) /\ Covered(Elements(f[0])) = Upto(0)
    BY <1>6, <2>1, <2>2
  <2> QED
    BY <2>1, <2>3
<1>8. ASSUME NEW k \in 1 .. m, k - 1 \in T PROVE k \in T
  <2>1. /\ f[k - 1] \in Seq(Span) /\ Related(f[k - 1], Gapped)
        /\ k - 1 # 0 => Joinable(f[k - 1], t[k - 1].start)
        /\ Covered(Elements(f[k - 1])) = Upto(k - 1)
    BY <1>8
  <2>2. PICK u \in Seq(Span) : u = f[k - 1]
    BY <2>1
  <2>3. PICK r \in Span : r = t[k]
    BY <1>0
  <2>4. Joinable(u, r.start)
    <3>1. CASE k = 1
      <4>1. Len(u) = 0
        BY <1>6, <2>2, <3>1
      <4> QED
        BY <2>1, <2>2, <4>1 DEF Joinable
    <3>2. CASE k # 1
      <4>1. k - 1 # 0 /\ k - 1 \in 1 .. m /\ k \in 1 .. m /\ k - 1 < k
        BY <1>0, <3>2
      <4>2. <<t[k - 1], t[k]>> \in ByStart
        BY <1>1, <4>1 DEF Related
      <4>3. t[k - 1].start <= r.start
        BY <2>3, <4>2 DEF ByStart
      <4>4. PICK a, b \in Nat : a = t[k - 1].start /\ b = r.start
        <5>1. t[k - 1] \in Span
          BY <1>0, <4>1
        <5> QED
          BY <5>1, SpanIs
      <4>5. ASSUME NEW i \in 1 .. Len(u) PROVE u[i].start <= b
        <5>1. u[i].start <= a /\ u[i].start \in Nat
          BY <2>1, <2>2, <4>1, <4>4, SpanIs DEF Joinable
        <5> QED
          BY <4>3, <4>4, <5>1
      <4> QED
        BY <2>1, <2>2, <4>4, <4>5 DEF Joinable
    <3> QED
      BY <3>1, <3>2
  <2>5. f[k] = Lists!Join(u, r)
    BY <1>6, <2>2, <2>3
  <2>6. /\ Joinable(f[k], r.start)
        /\ Covered(Elements(f[k])) = Covered(Elements(u)) \cup Interval(r)
    BY <2>4, <2>5, JoinIs
  <2>7. Upto(k) = Upto(k - 1) \cup Interval(r)
    <3>1. 1 .. k = (1 .. k - 1) \cup {k}
      BY <1>0
    <3> QED
      BY <2>3, <3>1
  <2> HIDE DEF Upto
  <2>8. k \in 0 .. m
    BY <1>0
  <2>9. f[k] \in Seq(Span) /\ Related(f[k], Gapped)
    BY <2>6 DEF Joinable
  <2>10. Covered(Elements(f[k])) = Upto(k)
    BY <2>1, <2>2, <2>6, <2>7
  <2> QED
    BY <2>3, <2>6, <2>8, <2>9, <2>10
<1>9. m \in T
  <2> HIDE DEF T, m
  <2> QED
    BY <1>0, <1>7, <1>8, Turned
<1>10. Upto(m) = Covered(Elements(s))
  <2>1. Upto(m) = Covered(Elements(t))
    BY <1>1 DEF Covered, Elements
  <2> QED
    BY <1>1, <2>1
<1> HIDE DEF Upto, m
<1>11. f[m] \in Seq(Span) /\ Related(f[m], Gapped) /\ Covered(Elements(f[m])) = Upto(m)
  BY <1>9
<1> QED
  BY <1>5, <1>10, <1>11

-----------------------------------------------------------------------------
(* Ranges: the first block of the missing bytes, and the others *)

LEMMA DivIs ==
    ASSUME NEW y \in Nat, NEW z \in Nat \ {0}
    PROVE  /\ y < z => y \div z = 0
           /\ y >= z => y \div z = ((y - z) \div z) + 1 /\ (y - z) \div z \in Nat
OBVIOUS

LEMMA RunStartIs ==
    ASSUME NEW M \in SUBSET Nat, NEW b \in M
    PROVE  /\ Lists!Pool!RunStart(M, b) \in M
           /\ Lists!Pool!RunStart(M, b) <= b
           /\ Lists!Pool!RunStart(M, b) .. b \subseteq M
           /\ Lists!Pool!RunStart(M, b) - 1 \notin M
           /\ \A s \in M : s <= b /\ s .. b \subseteq M /\ s - 1 \notin M
                 => Lists!Pool!RunStart(M, b) = s
<1>1. PICK R : R = {a \in M : a <= b /\ a .. b \subseteq M}
  OBVIOUS
<1>2. b \in R /\ R \in SUBSET Nat
  <2>1. b .. b = {b} /\ b \in Nat /\ b <= b
    OBVIOUS
  <2>2. b .. b \subseteq M
    BY <2>1
  <2>3. b \in R
    BY <1>1, <2>1, <2>2
  <2>4. R \in SUBSET Nat
    BY <1>1
  <2> QED
    BY <2>3, <2>4
<1>3. PICK a : a = Lists!Pool!RunStart(M, b)
  OBVIOUS
<1>4. a \in R /\ \A y \in R : a <= y
  BY <1>1, <1>2, <1>3, FirstIs DEF Lists!Pool!RunStart
<1>5. a \in Nat /\ b \in Nat /\ a <= b /\ a \in M /\ a .. b \subseteq M
  BY <1>1, <1>4
<1>6. a - 1 \notin M
  <2> SUFFICES ASSUME a - 1 \in M PROVE FALSE
    OBVIOUS
  <2>1. a - 1 \in Nat /\ a - 1 <= b
    BY <1>5
  <2>2. (a - 1) .. b = {a - 1} \cup (a .. b)
    BY <1>5, <2>1
  <2>3. a - 1 \in R
    BY <1>1, <1>5, <2>1, <2>2
  <2>4. a <= a - 1
    BY <1>4, <2>3
  <2> QED
    BY <1>5, <2>4
<1>7. ASSUME NEW s \in M, s <= b, s .. b \subseteq M, s - 1 \notin M PROVE a = s
  <2>1. s \in Nat /\ s \in R
    BY <1>1, <1>7
  <2>2. a <= s
    BY <1>4, <2>1
  <2>3. CASE a < s
    <3>1. s - 1 \in a .. b
      BY <1>5, <1>7, <2>1, <2>3
    <3> QED
      BY <1>5, <1>7, <3>1
  <2> QED
    BY <1>5, <2>1, <2>2, <2>3
<1> QED
  BY <1>3, <1>5, <1>6, <1>7

ClassOf(M, size, b) == {c \in M : Lists!Pool!BlockKey(M, size, c) = Lists!Pool!BlockKey(M, size, b)}

\* The first run of the bytes M goes from s to e.
FirstRun(M, s, e) ==
    s <= e /\ s .. e \subseteq M /\ \A x \in M : x \in s .. e \/ x > e + 1

\* The length of the block taken off a run.
IsBlockLength(n, s, e, size) == n = IF (e - s) + 1 <= size THEN (e - s) + 1 ELSE size

\* The first block of bytes of which s .. e is the first run.
LEMMA CarveHead ==
    ASSUME NEW M \in SUBSET Nat, NEW size \in Nat \ {0}, NEW s \in Nat, NEW e \in Nat,
           FirstRun(M, s, e), NEW n \in Nat, IsBlockLength(n, s, e, size)
    PROVE  Lists!Pool!Carve(M, size)
              = {s .. (s + n - 1)} \cup Lists!Pool!Carve(M \ (s .. (s + n - 1)), size)
<1>0. /\ s <= e /\ s .. e \subseteq M /\ \A x \in M : x \in s .. e \/ x > e + 1
      /\ n = IF (e - s) + 1 <= size THEN (e - s) + 1 ELSE size
  BY DEF FirstRun, IsBlockLength
<1>1. PICK B \in SUBSET Nat : B = s .. (s + n - 1)
  OBVIOUS
<1>2. PICK N \in SUBSET Nat : N = M \ B
  OBVIOUS
<1>3. n > 0 /\ n <= size /\ s + n - 1 <= e /\ B \subseteq s .. e /\ B \subseteq M /\ s \in B
  <2>1. n > 0 /\ n <= size /\ s + n - 1 <= e
    BY <1>0
  <2>2. B \subseteq s .. e /\ s \in B
    BY <1>1, <2>1
  <2> QED
    BY <1>0, <2>1, <2>2
<1>4. ASSUME NEW c \in s .. e
      PROVE  Lists!Pool!RunStart(M, c) = s
  <2>1. s - 1 \notin M
    BY <1>0
  <2>2. s \in M /\ c \in M /\ s <= c /\ s .. c \subseteq M
    BY <1>0
  <2> QED
    BY <2>1, <2>2, RunStartIs
<1>5. ASSUME NEW c \in M, c > e
      PROVE  /\ Lists!Pool!RunStart(M, c) = Lists!Pool!RunStart(N, c)
             /\ Lists!Pool!RunStart(M, c) > e /\ Lists!Pool!RunStart(M, c) \in Nat
  <2>1. PICK a : a = Lists!Pool!RunStart(M, c)
    BY <1>0
  <2>2. a \in M /\ a <= c /\ a .. c \subseteq M /\ a - 1 \notin M /\ a \in Nat /\ c \in Nat
    BY <2>1, RunStartIs
  <2>3. e + 1 \notin M
    BY <1>0
  <2>4. a > e
    <3> SUFFICES ASSUME a <= e PROVE FALSE
      BY <2>2
    <3>1. e + 1 \in a .. c
      BY <1>0, <1>5, <2>2
    <3> QED
      BY <2>2, <2>3, <3>1
  <2>5. \A x \in a .. c : x \notin B
    BY <1>3, <2>2, <2>4
  <2>6. a \in N /\ c \in N /\ a .. c \subseteq N /\ a - 1 \notin N
    BY <1>2, <2>2, <2>5
  <2>7. Lists!Pool!RunStart(N, c) = a
    BY <2>2, <2>6, RunStartIs
  <2> QED
    BY <2>1, <2>2, <2>4, <2>7
<1>6. ASSUME NEW c \in (s .. e) \ B
      PROVE  Lists!Pool!RunStart(N, c) = s + size /\ n = size /\ c >= s + size
  <2>1. n = size /\ c >= s + size /\ c \in Nat /\ c <= e
    BY <1>0, <1>1, <1>3
  <2>2. s + size \in N /\ c \in N /\ (s + size) .. c \subseteq N
    BY <1>0, <1>1, <1>2, <1>3, <2>1
  <2>3. (s + size) - 1 \notin N
    BY <1>1, <1>2, <1>3, <2>1
  <2>4. PICK t \in N : t = s + size
    BY <2>2
  <2>5. t <= c /\ t .. c \subseteq N /\ t - 1 \notin N
    BY <2>1, <2>2, <2>3, <2>4
  <2>6. Lists!Pool!RunStart(N, c) = t
    BY <2>2, <2>5, RunStartIs
  <2> QED
    BY <2>1, <2>4, <2>6
<1> DEFINE low(c) == (c - (s + size)) \div size
           run(c) == Lists!Pool!RunStart(M, c)
           off(c) == (c - Lists!Pool!RunStart(M, c)) \div size
<1>7. ASSUME NEW c \in B PROVE Lists!Pool!BlockKey(M, size, c) = <<s, 0>>
  <2>1. Lists!Pool!RunStart(M, c) = s
    BY <1>3, <1>4
  <2>2. c - s \in Nat /\ c - s < size
    BY <1>0, <1>1, <1>3
  <2>3. (c - s) \div size = 0
    BY <2>2, DivIs
  <2> QED
    BY <2>1, <2>3 DEF Lists!Pool!BlockKey
<1>8. ASSUME NEW c \in (s .. e) \ B
      PROVE  /\ Lists!Pool!BlockKey(M, size, c) = <<s, low(c) + 1>>
             /\ Lists!Pool!BlockKey(N, size, c) = <<s + size, low(c)>>
             /\ low(c) \in Nat
  <2>1. Lists!Pool!RunStart(M, c) = s /\ Lists!Pool!RunStart(N, c) = s + size
    BY <1>4, <1>6
  <2>2. c - s \in Nat /\ c - s >= size /\ (c - s) - size = c - (s + size)
    BY <1>0, <1>6
  <2>3. (c - s) \div size = low(c) + 1 /\ low(c) \in Nat
    BY <2>2, DivIs
  <2> QED
    BY <2>1, <2>3 DEF Lists!Pool!BlockKey
<1>9. ASSUME NEW c \in M, c > e
      PROVE  /\ Lists!Pool!BlockKey(M, size, c) = <<run(c), off(c)>>
             /\ Lists!Pool!BlockKey(N, size, c) = <<run(c), off(c)>>
             /\ run(c) \in Nat /\ run(c) > e
  BY <1>5, <1>9 DEF Lists!Pool!BlockKey
<1>10. \A c \in N : c \in (s .. e) \ B \/ (c \in M /\ c > e)
  <2>1. \A x \in M : x \in s .. e \/ x > e
    BY <1>0
  <2> QED
    BY <1>2, <2>1
<1> HIDE DEF low, run, off
<1>11. ASSUME NEW b \in N, NEW c \in N
       PROVE  Lists!Pool!BlockKey(M, size, c) = Lists!Pool!BlockKey(M, size, b)
                 <=> Lists!Pool!BlockKey(N, size, c) = Lists!Pool!BlockKey(N, size, b)
  <2>1. CASE b \in (s .. e) \ B /\ c \in (s .. e) \ B
    BY <1>8, <2>1
  <2>2. CASE b \in (s .. e) \ B /\ c \in M /\ c > e
    <3>1. run(c) # s /\ run(c) # s + size
      BY <1>6, <1>9, <2>2
    <3> QED
      BY <1>8, <1>9, <2>2, <3>1
  <2>3. CASE b \in M /\ b > e /\ c \in (s .. e) \ B
    <3>1. run(b) # s /\ run(b) # s + size
      BY <1>6, <1>9, <2>3
    <3> QED
      BY <1>8, <1>9, <2>3, <3>1
  <2>4. CASE b \in M /\ b > e /\ c \in M /\ c > e
    BY <1>9, <2>4
  <2> QED
    BY <1>10, <2>1, <2>2, <2>3, <2>4
<1>12. ASSUME NEW b \in B, NEW c \in N
       PROVE  Lists!Pool!BlockKey(M, size, c) # Lists!Pool!BlockKey(M, size, b)
  <2>1. CASE c \in (s .. e) \ B
    <3>1. low(c) + 1 # 0
      BY <1>8, <2>1
    <3> QED
      BY <1>7, <1>8, <2>1, <3>1
  <2>2. CASE c \in M /\ c > e
    <3>1. run(c) # s
      BY <1>0, <1>9, <2>2
    <3> QED
      BY <1>7, <1>9, <2>2, <3>1
  <2> QED
    BY <1>10, <2>1, <2>2
<1>13. \A b \in B : ClassOf(M, size, b) = B
  BY <1>2, <1>3, <1>7, <1>12 DEF ClassOf
<1>14. \A b \in N : ClassOf(M, size, b) = ClassOf(N, size, b)
  <2>1. N \subseteq M
    BY <1>2
  <2>2. ASSUME NEW b \in N, NEW c \in M
        PROVE  c \in ClassOf(M, size, b) <=> c \in ClassOf(N, size, b)
    <3>1. CASE c \in N
      BY <1>11, <2>1, <3>1 DEF ClassOf
    <3>2. CASE c \in B
      <4>1. c \notin N
        BY <1>2, <3>2
      <4> QED
        BY <1>12, <3>2, <4>1 DEF ClassOf
    <3> QED
      BY <1>2, <3>1, <3>2
  <2> QED
    BY <2>1, <2>2 DEF ClassOf
<1>15. Lists!Pool!Carve(M, size) = {ClassOf(M, size, b) : b \in M}
       /\ Lists!Pool!Carve(N, size) = {ClassOf(N, size, b) : b \in N}
  BY DEF Lists!Pool!Carve, ClassOf
<1>16. M = B \cup N
  BY <1>2, <1>3
<1>17. Lists!Pool!Carve(M, size) = {B} \cup Lists!Pool!Carve(N, size)
  BY <1>3, <1>13, <1>14, <1>15, <1>16
<1> QED
  BY <1>1, <1>2, <1>17

-----------------------------------------------------------------------------
(* Ranges: the blocks reserve_blocks grants *)

\* After k blocks: M is left of the bytes M0, G is granted.
Carving(M0, size, k, M, G) ==
    /\ UNION G \subseteq M0 /\ M = M0 \ UNION G
    /\ Lists!Pool!Carve(M0, size) = G \cup Lists!Pool!Carve(M, size)
    /\ {} \notin G
    /\ \A x \in UNION G, y \in M : x < y
    /\ IsFiniteSet(G) /\ Cardinality(G) <= k /\ (Cardinality(G) = k \/ M = {})

LEMMA CarvedAre ==
    ASSUME NEW M, NEW size
    PROVE  /\ Lists!Pool!Carve(M, size) \subseteq SUBSET M
           /\ {} \notin Lists!Pool!Carve(M, size)
           /\ M = {} => Lists!Pool!Carve(M, size) = {}
BY DEF Lists!Pool!Carve

LEMMA CarvingStarts ==
    ASSUME NEW M, NEW size
    PROVE  Carving(M, size, 0, M, {})
<1>1. IsFiniteSet({}) /\ Cardinality({}) = 0
  BY FS_EmptySet
<1> QED
  BY <1>1 DEF Carving

\* The next block goes off the first run.
LEMMA CarvingGoesOn ==
    ASSUME NEW M0 \in SUBSET Nat, NEW size \in Nat \ {0}, NEW k \in Nat, NEW M, NEW G,
           Carving(M0, size, k, M, G),
           NEW s \in Nat, NEW e \in Nat, FirstRun(M, s, e),
           NEW n \in Nat, IsBlockLength(n, s, e, size)
    PROVE  Carving(M0, size, k + 1, M \ (s .. (s + n - 1)), G \cup {s .. (s + n - 1)})
<1>1. PICK B : B = s .. (s + n - 1)
  OBVIOUS
<1>2. M \in SUBSET Nat /\ M = M0 \ UNION G /\ UNION G \subseteq M0
  BY DEF Carving
<1>3. n > 0 /\ s + n - 1 <= e /\ s .. e \subseteq M /\ \A x \in M : x \in s .. e \/ x > e + 1
  BY DEF FirstRun, IsBlockLength
<1>4. B \subseteq s .. e /\ s \in B
  BY <1>1, <1>3
<1>5. B \subseteq M /\ B # {}
  BY <1>3, <1>4
<1>6. B \notin G
  BY <1>2, <1>4, <1>5
<1>7. Lists!Pool!Carve(M, size) = {B} \cup Lists!Pool!Carve(M \ B, size)
  <2>1. Lists!Pool!Carve(M, size)
          = {s .. (s + n - 1)} \cup Lists!Pool!Carve(M \ (s .. (s + n - 1)), size)
    BY <1>2, CarveHead
  <2> QED
    BY <1>1, <2>1
<1>8. UNION (G \cup {B}) = (UNION G) \cup B
  OBVIOUS
<1>9. UNION (G \cup {B}) \subseteq M0 /\ M \ B = M0 \ UNION (G \cup {B})
  BY <1>2, <1>5, <1>8
<1>10. Lists!Pool!Carve(M0, size) = (G \cup {B}) \cup Lists!Pool!Carve(M \ B, size)
  BY <1>7 DEF Carving
<1>11. {} \notin G \cup {B}
  BY <1>5 DEF Carving
<1>12. ASSUME NEW x \in UNION (G \cup {B}), NEW y \in M \ B PROVE x < y
  <2>1. CASE x \in UNION G
    BY <1>12, <2>1 DEF Carving
  <2>2. CASE x \in B
    <3>1. x \in Nat /\ x <= s + n - 1
      BY <1>1, <2>2
    <3>2. y \in Nat /\ (y \in s .. e \/ y > e + 1) /\ y \notin s .. (s + n - 1)
      BY <1>1, <1>2, <1>3, <1>12
    <3>3. y > s + n - 1
      BY <1>3, <3>2
    <3> QED
      BY <3>1, <3>2, <3>3
  <2> QED
    BY <1>8, <1>12, <2>1, <2>2
<1>13. /\ IsFiniteSet(G \cup {B}) /\ Cardinality(G \cup {B}) = k + 1
       /\ Cardinality(G \cup {B}) <= k + 1
  <2>1. Cardinality(G) = k /\ IsFiniteSet(G)
    BY <1>5 DEF Carving
  <2>2. IsFiniteSet(G \cup {B}) /\ Cardinality(G \cup {B}) = Cardinality(G) + 1
    BY <1>6, <2>1, FS_AddElement
  <2> QED
    BY <2>1, <2>2
<1>14. Carving(M0, size, k + 1, M \ B, G \cup {B})
  BY <1>9, <1>10, <1>11, <1>12, <1>13 DEF Carving
<1> QED
  BY <1>1, <1>14

\* Nothing is left to carve: the turns that follow change nothing.
LEMMA CarvingRests ==
    ASSUME NEW M0, NEW size, NEW k \in Nat, NEW G, Carving(M0, size, k, {}, G)
    PROVE  Carving(M0, size, k + 1, {}, G)
<1>1. IsFiniteSet(G) /\ Cardinality(G) \in Nat /\ Cardinality(G) <= k
  BY FS_CardinalityType DEF Carving
<1> QED
  BY <1>1 DEF Carving

\* What is granted after n turns are the first n blocks.
LEMMA CarvingEnds ==
    ASSUME NEW M0 \in SUBSET Nat, IsFiniteSet(M0), NEW size, NEW n \in Nat, NEW M, NEW G,
           Carving(M0, size, n, M, G)
    PROVE  G = Lists!Pool!FirstBlocks(M0, size, n)
<1> DEFINE Blocks == Lists!Pool!Carve(M0, size)
           Earlier(B) == {C \in Blocks : Lists!Pool!Least(C) < Lists!Pool!Least(B)}
<1>1. /\ M = M0 \ UNION G /\ Blocks = G \cup Lists!Pool!Carve(M, size)
      /\ \A x \in UNION G, y \in M : x < y
      /\ IsFiniteSet(G) /\ Cardinality(G) <= n /\ (Cardinality(G) = n \/ M = {})
  BY DEF Carving
<1>2. Blocks \subseteq SUBSET M0 /\ {} \notin Blocks
  BY CarvedAre
<1>3. IsFiniteSet(Blocks)
  BY <1>2, FS_SUBSET, FS_Subset
<1>4. \A C \in Lists!Pool!Carve(M, size) : C \subseteq M /\ C # {}
  <2>1. Lists!Pool!Carve(M, size) \subseteq SUBSET M /\ {} \notin Lists!Pool!Carve(M, size)
    BY CarvedAre
  <2> QED
    BY <2>1
<1>5. Lists!Pool!FirstBlocks(M0, size, n) = {B \in Blocks : Cardinality(Earlier(B)) < n}
  BY DEF Lists!Pool!FirstBlocks, Lists!Pool!Cardinality, Cardinality
<1> HIDE DEF Blocks
<1>6. ASSUME NEW B \in Blocks PROVE Lists!Pool!Least(B) \in B /\ Lists!Pool!Least(B) \in Nat
  <2>1. B \in SUBSET Nat
    BY <1>2
  <2>2. PICK x \in B : TRUE
    BY <1>2
  <2> QED
    BY <2>1, <2>2, FirstIs
<1>7. ASSUME NEW B \in G, NEW C \in Lists!Pool!Carve(M, size)
      PROVE  Lists!Pool!Least(B) < Lists!Pool!Least(C)
  <2>1. B \in Blocks /\ C \in Blocks
    BY <1>1
  <2>2. Lists!Pool!Least(B) \in UNION G /\ Lists!Pool!Least(C) \in M
    BY <1>4, <1>6, <2>1
  <2> QED
    BY <1>1, <2>2
<1>8. ASSUME NEW B \in G PROVE Cardinality(Earlier(B)) < n
  <2>1. Lists!Pool!Least(B) \in Nat /\ B \in Blocks
    BY <1>1, <1>6
  <2>2. ASSUME NEW C \in Earlier(B) PROVE C \in G \ {B}
    <3>1. C \in Blocks /\ Lists!Pool!Least(C) < Lists!Pool!Least(B) /\ Lists!Pool!Least(C) \in Nat
      BY <1>6
    <3>2. C # B
      BY <2>1, <3>1
    <3>3. C \notin Lists!Pool!Carve(M, size)
      BY <1>7, <2>1, <3>1
    <3> QED
      BY <1>1, <3>1, <3>2, <3>3
  <2>3. /\ IsFiniteSet(G \ {B}) /\ Cardinality(G \ {B}) = Cardinality(G) - 1
        /\ Cardinality(G) \in Nat
    BY <1>1, FS_RemoveElement, FS_CardinalityType
  <2>4. Earlier(B) \in SUBSET (G \ {B})
    BY <2>2
  <2>5. /\ Cardinality(Earlier(B)) <= Cardinality(G \ {B}) /\ IsFiniteSet(Earlier(B))
    BY <2>3, <2>4, FS_Subset
  <2>6. Cardinality(Earlier(B)) \in Nat
    BY <2>5, FS_CardinalityType
  <2> QED
    BY <1>1, <2>3, <2>5, <2>6
<1>9. ASSUME NEW B \in Blocks, B \notin G PROVE ~ (Cardinality(Earlier(B)) < n)
  <2>1. B \in Lists!Pool!Carve(M, size)
    BY <1>1, <1>9
  <2>2. Cardinality(G) = n
    BY <1>1, <1>4, <2>1
  <2>3. G \in SUBSET Earlier(B)
    BY <1>1, <1>7, <2>1
  <2>4. IsFiniteSet(Earlier(B))
    BY <1>3, FS_Subset
  <2>5. Cardinality(G) <= Cardinality(Earlier(B)) /\ Cardinality(Earlier(B)) \in Nat
    BY <2>3, <2>4, FS_Subset, FS_CardinalityType
  <2> QED
    BY <2>2, <2>5
<1>10. G \subseteq Blocks
  BY <1>1
<1> HIDE DEF Earlier
<1> QED
  BY <1>5, <1>8, <1>9, <1>10

LEMMA HeadIs ==
    ASSUME NEW s \in Seq(Span), s # <<>>, Related(s, Gapped)
    PROVE  Head(s) \in Span /\ FirstRun(Covered(Elements(s)), Head(s).start, Head(s).end)
<1>1. Len(s) \in Nat /\ Len(s) >= 1 /\ Head(s) = s[1] /\ \A i \in 1 .. Len(s) : s[i] \in Span
  OBVIOUS
<1>2. PICK r \in Span : r = Head(s)
  BY <1>1
<1>3. r.start \in Nat /\ r.end \in Nat /\ r.start <= r.end
  BY SpanIs
<1>4. r \in Elements(s)
  BY <1>1, <1>2 DEF Elements
<1>5. r.start .. r.end \subseteq Covered(Elements(s))
  BY <1>4 DEF Covered, Interval
<1>6. ASSUME NEW x \in Covered(Elements(s)) PROVE x \in r.start .. r.end \/ x > r.end + 1
  <2>1. PICK i \in 1 .. Len(s) : x \in Interval(s[i])
    BY DEF Covered, Elements
  <2>2. CASE i = 1
    BY <1>1, <1>2, <2>1, <2>2 DEF Interval
  <2>3. CASE i # 1
    <3>1. 1 \in 1 .. Len(s) /\ 1 < i
      BY <1>1, <2>3
    <3>2. <<s[1], s[i]>> \in Gapped
      BY <3>1 DEF Related
    <3>3. r.end + 1 < s[i].start
      BY <1>1, <1>2, <3>2 DEF Gapped
    <3>4. s[i].start \in Nat /\ s[i].end \in Nat /\ x \in s[i].start .. s[i].end
      BY <1>1, <2>1, SpanIs DEF Interval
    <3> QED
      BY <1>3, <3>3, <3>4
  <2> QED
    BY <2>2, <2>3
<1> QED
  BY <1>2, <1>3, <1>5, <1>6 DEF FirstRun

\* What a turn of the loop goes over.
GrantTurns == {turn \in [missing : Seq(Span), granted : Seq(Span)] : Related(turn.missing, Gapped)}

LEMMA BlockIs ==
    ASSUME NEW size \in Nat \ {0}, NEW turn \in GrantTurns, turn.missing # <<>>
    PROVE  \E n \in Nat, b \in Span :
              /\ IsBlockLength(n, Head(turn.missing).start, Head(turn.missing).end, size)
              /\ b.start = Head(turn.missing).start
              /\ Interval(b) = Head(turn.missing).start .. (Head(turn.missing).start + n - 1)
              /\ Lists!GrantOne(turn, size)
                   = [missing |-> Lists!SubtractRange(turn.missing, b.start, b.end),
                      granted |-> Append(turn.granted, b)]
<1>1. turn.missing \in Seq(Span) /\ turn.granted \in Seq(Span) /\ Related(turn.missing, Gapped)
  BY DEF GrantTurns
<1>2. PICK first : first = Head(turn.missing)
  OBVIOUS
<1>3. PICK s \in Nat, e \in Nat : s = first.start /\ e = first.end /\ s <= e
  BY <1>1, <1>2, HeadIs, SpanIs
<1>4. PICK l \in Nat : l = (e - s) + 1
  BY <1>3
<1>5. PICK n : n = Lists!Min({l, size})
  OBVIOUS
<1>6. n \in {l, size} /\ n <= l /\ n <= size
  <2>1. l \in {l, size} /\ {l, size} \in SUBSET Nat
    OBVIOUS
  <2>2. n \in {l, size} /\ \A y \in {l, size} : n <= y
    BY <1>5, <2>1, FirstIs
  <2> QED
    BY <2>2
<1>7. n \in Nat /\ n > 0 /\ IsBlockLength(n, s, e, size)
  BY <1>3, <1>4, <1>6 DEF IsBlockLength
<1>8. s + n - 1 \in Nat /\ s <= s + n - 1
  BY <1>7
<1>9. PICK b \in Span : /\ b = Lists!ByteRange(s, s + n - 1)
                        /\ b.start = s /\ b.end = s + n - 1 /\ Interval(b) = s .. (s + n - 1)
  BY <1>8, RangeIsSpan
<1>10. Lists!GrantOne(turn, size)
         = [missing |-> Lists!SubtractRange(turn.missing, b.start, b.end),
            granted |-> Append(turn.granted, b)]
  BY <1>2, <1>3, <1>4, <1>5, <1>9 DEF Lists!GrantOne
<1> QED
  BY <1>2, <1>3, <1>7, <1>9, <1>10

LEMMA GrantOneTyped ==
    ASSUME NEW size \in Nat \ {0}, NEW turn \in GrantTurns
    PROVE  Lists!GrantOne(turn, size) \in GrantTurns
<1>1. CASE turn.missing = <<>>
  BY <1>1 DEF Lists!GrantOne
<1>2. CASE turn.missing # <<>>
  <2>1. PICK b \in Span :
           Lists!GrantOne(turn, size)
             = [missing |-> Lists!SubtractRange(turn.missing, b.start, b.end),
                granted |-> Append(turn.granted, b)]
    BY <1>2, BlockIs
  <2>2. turn.missing \in Seq(Span) /\ turn.granted \in Seq(Span) /\ Related(turn.missing, Gapped)
    BY DEF GrantTurns
  <2>3. PICK t : t = Lists!SubtractRange(turn.missing, b.start, b.end)
    OBVIOUS
  <2>4. t \in Seq(Span) /\ Related(t, Gapped)
    BY <2>2, <2>3, SubtractIs, SpanIs
  <2>5. Append(turn.granted, b) \in Seq(Span)
    BY <2>2
  <2> QED
    BY <2>1, <2>3, <2>4, <2>5 DEF GrantTurns
<1> QED
  BY <1>1, <1>2

\* The lists after k turns, and the bytes they stand for.
Granting(M0, size, k, turn) ==
    /\ turn \in GrantTurns /\ Related(turn.granted, Disjoint)
    /\ Carving(M0, size, k, Covered(Elements(turn.missing)), Intervals(Elements(turn.granted)))

LEMMA AppendedIs ==
    ASSUME NEW g \in Seq(Span), Related(g, Disjoint), NEW b \in Span,
           \A r \in Elements(g) : Interval(r) \cap Interval(b) = {}
    PROVE  /\ Append(g, b) \in Seq(Span) /\ Related(Append(g, b), Disjoint)
           /\ Intervals(Elements(Append(g, b))) = Intervals(Elements(g)) \cup {Interval(b)}
<1>1. PICK u : u = Append(g, b)
  OBVIOUS
<1>2. /\ u \in Seq(Span) /\ Len(u) = Len(g) + 1 /\ u[Len(g) + 1] = b /\ Len(g) \in Nat
      /\ \A i \in 1 .. Len(g) : u[i] = g[i]
  BY <1>1
<1>3. Related(u, Disjoint)
  <2> SUFFICES ASSUME NEW i \in 1 .. Len(g) + 1, NEW j \in 1 .. Len(g) + 1, i < j
               PROVE  <<u[i], u[j]>> \in Disjoint
    BY <1>2 DEF Related
  <2>1. i \in 1 .. Len(g) /\ u[i] = g[i]
    BY <1>2
  <2>2. CASE j \in 1 .. Len(g)
    BY <1>2, <2>1, <2>2 DEF Related
  <2>3. CASE j = Len(g) + 1
    <3>1. g[i] \in Elements(g) /\ g[i] \in Span
      BY <2>1 DEF Elements
    <3> QED
      BY <1>2, <2>1, <2>3, <3>1 DEF Disjoint
  <2> QED
    BY <1>2, <2>2, <2>3
<1>4. Elements(u) = Elements(g) \cup {b}
  <2>1. \A i \in 1 .. Len(u) : i \in 1 .. Len(g) \/ i = Len(g) + 1
    BY <1>2
  <2>2. \A i \in 1 .. Len(g) : i \in 1 .. Len(u)
    BY <1>2
  <2>3. Len(g) + 1 \in 1 .. Len(u)
    BY <1>2
  <2> QED
    BY <1>2, <2>1, <2>2, <2>3 DEF Elements
<1> QED
  BY <1>1, <1>2, <1>3, <1>4 DEF Intervals

LEMMA GrantOneIs ==
    ASSUME NEW M0 \in SUBSET Nat, NEW size \in Nat \ {0}, NEW k \in Nat, NEW turn,
           Granting(M0, size, k, turn)
    PROVE  Granting(M0, size, k + 1, Lists!GrantOne(turn, size))
<1>1. /\ turn \in GrantTurns /\ Related(turn.granted, Disjoint)
      /\ turn.missing \in Seq(Span) /\ turn.granted \in Seq(Span) /\ Related(turn.missing, Gapped)
  BY DEF Granting, GrantTurns
<1>2. PICK M, G : /\ M = Covered(Elements(turn.missing)) /\ G = Intervals(Elements(turn.granted))
                  /\ Carving(M0, size, k, M, G)
  BY DEF Granting
<1>3. CASE turn.missing = <<>>
  <2>1. M = {}
    BY <1>2, <1>3, FewElements DEF Covered
  <2>2. Carving(M0, size, k + 1, M, G)
    BY <1>2, <2>1, CarvingRests
  <2> QED
    BY <1>1, <1>2, <1>3, <2>2 DEF Granting, Lists!GrantOne
<1>4. CASE turn.missing # <<>>
  <2>1. PICK s \in Nat, e \in Nat : s = Head(turn.missing).start /\ e = Head(turn.missing).end
    BY <1>1, <1>4, HeadIs, SpanIs
  <2>2. PICK n \in Nat, b \in Span :
           /\ IsBlockLength(n, s, e, size) /\ b.start = s /\ Interval(b) = s .. (s + n - 1)
           /\ Lists!GrantOne(turn, size)
                = [missing |-> Lists!SubtractRange(turn.missing, b.start, b.end),
                   granted |-> Append(turn.granted, b)]
    BY <1>1, <1>4, <2>1, BlockIs
  <2>3. FirstRun(M, s, e)
    BY <1>1, <1>2, <1>4, <2>1, HeadIs
  <2>4. Carving(M0, size, k + 1, M \ (s .. (s + n - 1)), G \cup {s .. (s + n - 1)})
    BY <1>2, <2>2, <2>3, CarvingGoesOn
  <2>5. PICK t : t = Lists!SubtractRange(turn.missing, b.start, b.end)
    OBVIOUS
  <2>6. /\ t \in Seq(Span) /\ Related(t, Gapped)
        /\ Covered(Elements(t)) = M \ (s .. (s + n - 1))
    <3>1. b.start \in Nat /\ b.end \in Nat /\ b.start <= b.end
      BY SpanIs
    <3>2. PICK m \in Seq(Span), a \in Nat, z \in Nat :
             m = turn.missing /\ a = b.start /\ z = b.end /\ a <= z
      BY <1>1, <3>1
    <3>3. Related(m, Gapped) /\ t = Lists!SubtractRange(m, a, z) /\ Covered(Elements(m)) = M
      BY <1>1, <1>2, <2>5, <3>2
    <3>4. /\ t \in Seq(Span) /\ Related(t, Gapped)
          /\ Covered(Elements(t)) = M \ (a .. z)
      BY <3>2, <3>3, SubtractIs
    <3> QED
      BY <2>2, <3>2, <3>4 DEF Interval
  <2>7. \A r \in Elements(turn.granted) : Interval(r) \cap Interval(b) = {}
    <3>1. Interval(b) \subseteq M
      <4>1. Interval(b) \subseteq s .. e
        BY <2>2, <2>3 DEF IsBlockLength, FirstRun
      <4> QED
        BY <2>3, <4>1 DEF FirstRun
    <3>2. \A r \in Elements(turn.granted) : Interval(r) \in G
      BY <1>2 DEF Intervals
    <3>3. M \cap UNION G = {}
      BY <1>2 DEF Carving
    <3> QED
      BY <3>1, <3>2, <3>3
  <2>8. PICK u : u = Append(turn.granted, b)
    OBVIOUS
  <2>9. /\ u \in Seq(Span) /\ Related(u, Disjoint)
        /\ Intervals(Elements(u)) = G \cup {s .. (s + n - 1)}
    <3>1. Intervals(Elements(u)) = Intervals(Elements(turn.granted)) \cup {Interval(b)}
      BY <1>1, <2>7, <2>8, AppendedIs
    <3> QED
      BY <1>1, <1>2, <2>2, <2>7, <2>8, <3>1, AppendedIs
  <2>10. PICK v : v = [missing |-> t, granted |-> u]
    OBVIOUS
  <2>11. v = Lists!GrantOne(turn, size) /\ v.missing = t /\ v.granted = u /\ v \in GrantTurns
    BY <2>2, <2>5, <2>6, <2>8, <2>9, <2>10 DEF GrantTurns
  <2>12. Granting(M0, size, k + 1, v)
    BY <2>4, <2>6, <2>9, <2>11 DEF Granting
  <2> QED
    BY <2>11, <2>12
<1> QED
  BY <1>3, <1>4

\* All the turns of the loop.
LEMMA GrantIs ==
    ASSUME missing \in Seq(Span), Related(missing, Gapped), NEW size \in Nat \ {0}, NEW n \in Nat
    PROVE  Granting(Covered(Elements(missing)), size, n, Lists!Grant(size, n))
<1>1. PICK M0 : M0 = Covered(Elements(missing))
  OBVIOUS
<1>2. M0 \in SUBSET Nat
  <2>1. \A r \in Elements(missing) : Interval(r) \in SUBSET Nat
    BY ElementsAre, SpanIs
  <2> QED
    BY <1>1, <2>1 DEF Covered
<1>3. PICK base : base = [missing |-> missing, granted |-> <<>>]
  OBVIOUS
<1>4. base.missing = missing /\ base.granted = <<>> /\ base \in GrantTurns
  <2>1. <<>> \in Seq(Span)
    OBVIOUS
  <2> QED
    BY <1>3, <2>1 DEF GrantTurns
<1> DEFINE Fits(e) == e = [k \in 0 .. n |-> IF k = 0 THEN [missing |-> missing, granted |-> <<>>]
                                            ELSE Lists!GrantOne(e[k - 1], size)]
<1>5. \E f : Fits(f)
  <2>1. PICK Q : Q = GrantTurns
    OBVIOUS
  <2>2. PICK g \in Turns(Q, n) : g = [x \in Q \X (1 .. n) |-> Lists!GrantOne(x[1], size)]
    <3>1. ASSUME NEW x \in Q \X (1 .. n) PROVE Lists!GrantOne(x[1], size) \in Q
      <4>1. x[1] \in Q
        OBVIOUS
      <4> QED
        BY <2>1, <4>1, GrantOneTyped
    <3> QED
      BY <3>1 DEF Turns
  <2>3. PICK h \in [0 .. n -> Q] :
           h[0] = base /\ \A k \in 1 .. n : h[k] = g[<<h[k - 1], k>>]
    <3>1. base \in Q /\ n \in Nat /\ g \in Turns(Q, n)
      BY <1>4, <2>1
    <3>2. \E h : Run(h, Q, base, g, n)
      BY <3>1, Iterated
    <3> QED
      BY <3>2 DEF Run
  <2>4. ASSUME NEW k \in 1 .. n PROVE h[k] = Lists!GrantOne(h[k - 1], size)
    <3>1. k - 1 \in 0 .. n
      OBVIOUS
    <3>2. <<h[k - 1], k>> \in Q \X (1 .. n)
      BY <3>1
    <3>3. g[<<h[k - 1], k>>] = Lists!GrantOne(h[k - 1], size)
      BY <2>2, <3>2
    <3> QED
      BY <2>3, <3>3
  <2>5. h = [k \in 0 .. n |-> IF k = 0 THEN base ELSE Lists!GrantOne(h[k - 1], size)]
    <3>1. h = [k \in 0 .. n |-> h[k]]
      OBVIOUS
    <3>2. \A k \in 0 .. n : k = 0 \/ k \in 1 .. n
      OBVIOUS
    <3> QED
      BY <2>3, <2>4, <3>1, <3>2
  <2> QED
    BY <1>3, <2>5
<1>6. PICK f : f = CHOOSE e : Fits(e)
  OBVIOUS
<1>7. Fits(f)
  BY <1>5, <1>6
<1>8. Lists!Grant(size, n) = f[n]
  BY <1>6 DEF Lists!Grant
<1>9. f[0] = base /\ \A k \in 1 .. n : f[k] = Lists!GrantOne(f[k - 1], size)
  <2>1. \A k \in 0 .. n : f[k] = IF k = 0 THEN base ELSE Lists!GrantOne(f[k - 1], size)
    BY <1>3, <1>7
  <2>2. 0 \in 0 .. n /\ \A k \in 1 .. n : k \in 0 .. n /\ k # 0
    OBVIOUS
  <2> QED
    BY <2>1, <2>2
<1> HIDE DEF Fits
<1> DEFINE T == {k \in 0 .. n : Granting(M0, size, k, f[k])}
<1>10. 0 \in T
  <2>1. Related(<<>>, Disjoint) /\ Elements(<<>>) = {}
    BY FewElements
  <2>2. Intervals({}) = {}
    BY DEF Intervals
  <2>3. Carving(M0, size, 0, M0, {})
    BY CarvingStarts
  <2>4. Granting(M0, size, 0, base)
    BY <1>1, <1>4, <2>1, <2>2, <2>3 DEF Granting
  <2> QED
    BY <1>9, <2>4
<1>11. ASSUME NEW k \in 1 .. n, k - 1 \in T PROVE k \in T
  <2>1. PICK j \in Nat : j = k - 1
    OBVIOUS
  <2>2. Granting(M0, size, j, f[j])
    BY <1>11, <2>1
  <2>3. Granting(M0, size, j + 1, Lists!GrantOne(f[j], size))
    BY <1>2, <2>2, GrantOneIs
  <2>4. j + 1 = k /\ f[k] = Lists!GrantOne(f[j], size)
    BY <1>9, <2>1
  <2> QED
    BY <2>3, <2>4
<1>12. n \in T
  <2> HIDE DEF T
  <2> QED
    BY <1>10, <1>11, Turned
<1>13. Granting(M0, size, n, f[n])
  BY <1>12
<1> QED
  BY <1>1, <1>8, <1>13

\* Some of the ranges of a list, in its order.
LEMMA ChosenIs ==
    ASSUME NEW s \in Seq(Span), Related(s, Disjoint), NEW L, NEW ss,
           ss = [i \in 1 .. Len(s) |-> IF i \in L THEN <<s[i]>> ELSE <<>>]
    PROVE  /\ Lists!FlattenSeq(ss) \in Seq(Span) /\ Related(Lists!FlattenSeq(ss), Disjoint)
           /\ Elements(Lists!FlattenSeq(ss)) = {s[i] : i \in (1 .. Len(s)) \cap L}
<1>1. Len(s) \in Nat /\ \A i \in 1 .. Len(s) : s[i] \in Span
  OBVIOUS
<1>2. ASSUME NEW i \in 1 .. Len(s)
      PROVE  /\ ss[i] \in Seq(Span) /\ Related(ss[i], Disjoint)
             /\ Elements(ss[i]) = IF i \in L THEN {s[i]} ELSE {}
  <2>1. CASE i \in L
    <3>1. ss[i] = <<s[i]>>
      BY <2>1
    <3> QED
      BY <1>1, <2>1, <3>1, FewElements
  <2>2. CASE i \notin L
    <3>1. ss[i] = <<>>
      BY <2>2
    <3> QED
      BY <2>2, <3>1, FewElements
  <2> QED
    BY <2>1, <2>2
<1>3. ss \in Seq(Seq(Span)) /\ Len(ss) = Len(s)
  <2>1. ss \in [1 .. Len(s) -> Seq(Span)]
    BY <1>2
  <2> QED
    BY <1>1, <2>1
<1>4. ASSUME NEW i \in 1 .. Len(s), NEW j \in 1 .. Len(s), i < j,
             NEW x \in Elements(ss[i]), NEW y \in Elements(ss[j])
      PROVE  <<x, y>> \in Disjoint
  <2>1. x = s[i] /\ y = s[j]
    BY <1>2
  <2> QED
    BY <1>4, <2>1 DEF Related
<1>5. /\ Lists!FlattenSeq(ss) \in Seq(Span) /\ Related(Lists!FlattenSeq(ss), Disjoint)
      /\ Elements(Lists!FlattenSeq(ss)) = UNION {Elements(ss[i]) : i \in 1 .. Len(ss)}
  <2>1. \A i \in 1 .. Len(ss) : Related(ss[i], Disjoint)
    BY <1>2, <1>3
  <2>2. \A i, j \in 1 .. Len(ss) :
           i < j => \A x \in Elements(ss[i]), y \in Elements(ss[j]) : <<x, y>> \in Disjoint
    BY <1>3, <1>4
  <2> QED
    BY <1>3, <2>1, <2>2, Flattened
<1>6. UNION {Elements(ss[i]) : i \in 1 .. Len(ss)} = {s[i] : i \in (1 .. Len(s)) \cap L}
  <2>1. \A i \in 1 .. Len(s) : Elements(ss[i]) = IF i \in L THEN {s[i]} ELSE {}
    BY <1>2
  <2>2. \A i \in 1 .. Len(s) : \A x : x \in Elements(ss[i]) <=> (i \in L /\ x = s[i])
    BY <2>1
  <2>3. \A x : x \in UNION {Elements(ss[i]) : i \in 1 .. Len(ss)}
                 <=> \E i \in 1 .. Len(s) : x \in Elements(ss[i])
    BY <1>3
  <2>4. \A x : x \in {s[i] : i \in (1 .. Len(s)) \cap L}
                 <=> \E i \in 1 .. Len(s) : i \in L /\ x = s[i]
    OBVIOUS
  <2>5. PICK A, B : /\ A = UNION {Elements(ss[i]) : i \in 1 .. Len(ss)}
                    /\ B = {s[i] : i \in (1 .. Len(s)) \cap L}
    OBVIOUS
  <2>6. ASSUME NEW x \in A PROVE x \in B
    <3>1. PICK i \in 1 .. Len(s) : x \in Elements(ss[i])
      BY <2>3, <2>5
    <3>2. i \in L /\ x = s[i]
      BY <2>2, <3>1
    <3> QED
      BY <2>4, <2>5, <3>2
  <2>7. ASSUME NEW x \in B PROVE x \in A
    <3>1. PICK i \in 1 .. Len(s) : i \in L /\ x = s[i]
      BY <2>4, <2>5
    <3>2. x \in Elements(ss[i])
      BY <2>2, <3>1
    <3> QED
      BY <2>3, <2>5, <3>2
  <2>8. A = B
    BY <2>6, <2>7
  <2> QED
    BY <2>5, <2>8
<1> QED
  BY <1>5, <1>6

-----------------------------------------------------------------------------
(* Ranges: the lists and the sets of bytes *)

\* missing_ranges is sorted with a gap between neighbours, no two leases share a
\* byte, and no byte of a lease is missing.
RangesInv ==
    /\ missing \in Seq(Span) /\ inflight \in Seq(Span)
    /\ Related(missing, Gapped) /\ Related(inflight, Disjoint)
    /\ \A r \in Elements(inflight) : Interval(r) \cap Covered(Elements(missing)) = {}

\* What the pool sees of a list.
LEMMA PoolSees ==
    ASSUME NEW s \in Seq(Span)
    PROVE  /\ Lists!BytesOf(s) = Covered(Elements(s))
           /\ {r.start .. r.end : r \in Lists!ToSet(s)} = Intervals(Elements(s))
BY ElementsAre DEF Intervals

LEMMA RangesInit == Init => RangesInv /\ Lists!Pool!Init
<1> SUFFICES ASSUME Init PROVE RangesInv /\ Lists!Pool!Init
  OBVIOUS
<1>1. missing = <<Lists!ByteRange(0, FileSize - 1)>> /\ inflight = <<>> /\ downloaded = 0
  BY DEF Init, Lists!Init
<1>2. FileSize - 1 \in Nat
  BY InstancesAssumption DEF Lists!RangeAssumption
<1>3. PICK r \in Span : r = Lists!ByteRange(0, FileSize - 1) /\ Interval(r) = 0 .. (FileSize - 1)
  BY <1>2, RangeIsSpan
<1>4. /\ missing \in Seq(Span) /\ Related(missing, Gapped) /\ Elements(missing) = {r}
      /\ inflight \in Seq(Span) /\ Related(inflight, Disjoint) /\ Elements(inflight) = {}
  BY <1>1, <1>3, FewElements
<1>5. RangesInv
  BY <1>4 DEF RangesInv
<1>6. Lists!BytesOf(missing) = 0 .. (FileSize - 1)
  <2>1. Lists!BytesOf(missing) = Covered(Elements(missing))
    BY <1>4, PoolSees
  <2>2. Covered({r}) = Interval(r)
    BY DEF Covered
  <2> QED
    BY <1>3, <1>4, <2>1, <2>2
<1>7. {x.start .. x.end : x \in Lists!ToSet(inflight)} = {}
  BY <1>4, PoolSees DEF Intervals
<1> QED
  BY <1>1, <1>5, <1>6, <1>7 DEF Lists!Pool!Init, Lists!Pool!Bytes

LEMMA ReserveIs ==
    ASSUME RangesInv, NEW max \in 1 .. MaxBlocks, NEW size \in BlockSizes,
           Lists!ReserveBlocks(max, size)
    PROVE  RangesInv' /\ Lists!Pool!Reserve(max, size)
<1>1. max \in Nat /\ size \in Nat \ {0}
  BY InstancesAssumption DEF Lists!RangeAssumption
<1>2. PICK turn : turn = Lists!Grant(size, max)
  OBVIOUS
<1>3. missing' = turn.missing /\ inflight' = inflight \o turn.granted /\ downloaded' = downloaded
  BY <1>2 DEF Lists!ReserveBlocks
<1>4. PICK M0, M, G : /\ M0 = Covered(Elements(missing)) /\ M = Covered(Elements(turn.missing))
                      /\ G = Intervals(Elements(turn.granted))
  OBVIOUS
<1>5. /\ turn.missing \in Seq(Span) /\ Related(turn.missing, Gapped)
      /\ turn.granted \in Seq(Span) /\ Related(turn.granted, Disjoint)
      /\ Carving(M0, size, max, M, G)
  BY <1>1, <1>2, <1>4, GrantIs DEF RangesInv, Granting, GrantTurns
<1>6. UNION G \subseteq M0 /\ M = M0 \ UNION G
  BY <1>5 DEF Carving
<1>7. IsFiniteSet(M0) /\ M0 \in SUBSET Nat
  <2>1. \A r \in Elements(missing) : Interval(r) \in SUBSET Nat
    BY ElementsAre, SpanIs DEF RangesInv
  <2>2. M0 \in SUBSET Nat
    BY <1>4, <2>1 DEF Covered
  <2>3. IsFiniteSet(M0)
    BY <1>4, TotalIs DEF RangesInv
  <2> QED
    BY <2>2, <2>3
<1>8. G = Lists!Pool!FirstBlocks(M0, size, max)
  BY <1>1, <1>5, <1>7, CarvingEnds
<1>9. \A r \in Elements(turn.granted) : Interval(r) \subseteq UNION G
  BY <1>4 DEF Intervals
<1>10. \A r \in Elements(inflight) : Interval(r) \cap M0 = {}
  BY <1>4 DEF RangesInv
<1>11. inflight' \in Seq(Span) /\ Related(inflight', Disjoint)
       /\ Elements(inflight') = Elements(inflight) \cup Elements(turn.granted)
  <2>1. inflight \in Seq(Span) /\ Related(inflight, Disjoint)
    BY DEF RangesInv
  <2>2. ASSUME NEW i \in 1 .. Len(inflight), NEW j \in 1 .. Len(turn.granted)
        PROVE  <<inflight[i], turn.granted[j]>> \in Disjoint
    <3>1. PICK r, q : r = inflight[i] /\ q = turn.granted[j]
      OBVIOUS
    <3>2. r \in Elements(inflight) /\ q \in Elements(turn.granted) /\ r \in Span /\ q \in Span
      BY <1>5, <2>1, <3>1 DEF Elements
    <3>3. Interval(r) \cap Interval(q) = {}
      BY <1>6, <1>9, <1>10, <3>2
    <3> QED
      BY <3>1, <3>2, <3>3 DEF Disjoint
  <2>3. PICK s \in Seq(Span), t \in Seq(Span) : s = inflight /\ t = turn.granted
    BY <1>5, <2>1
  <2>4. /\ Related(s, Disjoint) /\ Related(t, Disjoint)
        /\ \A i \in 1 .. Len(s), j \in 1 .. Len(t) : <<s[i], t[j]>> \in Disjoint
    BY <1>5, <2>1, <2>2, <2>3
  <2>5. s \o t \in Seq(Span) /\ Elements(s \o t) = Elements(s) \cup Elements(t)
    BY Joined, JoinedElements
  <2>6. Related(s \o t, Disjoint)
    BY <2>4, JoinedRelated
  <2> QED
    BY <1>3, <2>3, <2>5, <2>6
<1>12. RangesInv'
  <2>1. missing' \in Seq(Span) /\ Related(missing', Gapped) /\ Covered(Elements(missing')) = M
    BY <1>3, <1>4, <1>5
  <2>2. \A r \in Elements(inflight') : Interval(r) \cap M = {}
    BY <1>6, <1>9, <1>10, <1>11
  <2> QED
    BY <1>11, <2>1, <2>2 DEF RangesInv
<1>13. /\ Lists!BytesOf(missing) = M0 /\ Lists!BytesOf(missing') = M
       /\ {r.start .. r.end : r \in Lists!ToSet(inflight)} = Intervals(Elements(inflight))
       /\ {r.start .. r.end : r \in Lists!ToSet(inflight')} = Intervals(Elements(inflight'))
  BY <1>3, <1>4, <1>5, <1>11, PoolSees DEF RangesInv
<1>14. Intervals(Elements(inflight')) = Intervals(Elements(inflight)) \cup G
  BY <1>4, <1>11 DEF Intervals
<1>15. Lists!Pool!Reserve(max, size)
  BY <1>3, <1>6, <1>8, <1>13, <1>14 DEF Lists!Pool!Reserve
<1> QED
  BY <1>12, <1>15

\* The progress the actor stores is that of the bytes.
LEMMA CountedIs ==
    ASSUME missing' \in Seq(Span), Related(missing', Gapped), Lists!Counted
    PROVE  Lists!Pool!Counted
<1>1. PICK s \in Seq(Span) : s = missing'
  OBVIOUS
<1>2. Lists!TotalMissing(s) = Cardinality(Covered(Elements(s)))
  BY <1>1, TotalIs
<1>3. Lists!BytesOf(s) = Covered(Elements(s))
  BY PoolSees
<1>4. Lists!TotalMissing(missing') = Lists!Pool!Cardinality(Lists!BytesOf(missing'))
  BY <1>1, <1>2, <1>3 DEF Cardinality, Lists!Pool!Cardinality
<1> QED
  BY <1>4 DEF Lists!Counted, Lists!Pool!Counted

\* Every interval but that of one lease.
LEMMA OtherIntervals ==
    ASSUME NEW s \in Seq(Span), Related(s, Disjoint), NEW i \in 1 .. Len(s), NEW j \in 1 .. Len(s),
           i # j
    PROVE  Interval(s[i]) \cap Interval(s[j]) = {}
<1>1. i \in Nat /\ j \in Nat /\ (i < j \/ j < i)
  OBVIOUS
<1> QED
  BY <1>1 DEF Related, Disjoint

LEMMA ReceivedIs ==
    ASSUME RangesInv, NEW i \in 1 .. Len(inflight), Lists!MarkBlockReceived(i)
    PROVE  RangesInv' /\ \E block \in {r.start .. r.end : r \in Lists!ToSet(inflight)} :
                            Lists!Pool!Receive(block)
<1>1. /\ missing' = missing /\ inflight' = Lists!RemoveInflight(inflight, inflight[i])
      /\ Lists!Counted
  BY DEF Lists!MarkBlockReceived
<1>2. PICK block : block = Interval(inflight[i])
  OBVIOUS
<1>3. /\ inflight \in Seq(Span) /\ missing \in Seq(Span) /\ Related(missing, Gapped)
      /\ Related(inflight, Disjoint)
      /\ \A r \in Elements(inflight) : Interval(r) \cap Covered(Elements(missing)) = {}
  BY DEF RangesInv
<1>4. /\ inflight' \in Seq(Span) /\ Related(inflight', Disjoint)
      /\ Intervals(Elements(inflight')) = Intervals(Elements(inflight)) \ {block}
  BY <1>1, <1>2, <1>3, RemovedRange
<1>5. \A r \in Elements(inflight') : Interval(r) \cap Covered(Elements(missing)) = {}
  <2>1. \A r \in Elements(inflight') : Interval(r) \in Intervals(Elements(inflight))
    BY <1>4 DEF Intervals
  <2> QED
    BY <1>3, <2>1 DEF Intervals
<1>6. RangesInv'
  BY <1>1, <1>3, <1>4, <1>5 DEF RangesInv
<1>7. Lists!Pool!Counted
  BY <1>1, <1>3, CountedIs
<1>8. /\ Lists!BytesOf(missing') = Lists!BytesOf(missing)
      /\ {r.start .. r.end : r \in Lists!ToSet(inflight)} = Intervals(Elements(inflight))
      /\ {r.start .. r.end : r \in Lists!ToSet(inflight')} = Intervals(Elements(inflight'))
  BY <1>1, <1>3, <1>4, PoolSees
<1>9. block \in Intervals(Elements(inflight))
  BY <1>2 DEF Intervals, Elements
<1>10. Lists!Pool!Receive(block)
  BY <1>4, <1>7, <1>8 DEF Lists!Pool!Receive
<1> QED
  BY <1>6, <1>8, <1>9, <1>10

\* Ranges given back: the missing list is merged with their list.
LEMMA MergedBack ==
    ASSUME RangesInv, NEW back \in Seq(Span), NEW s \in Seq(Span),
           Elements(s) = Elements(missing) \cup Elements(back),
           missing' = Lists!MergeRanges(s)
    PROVE  /\ missing' \in Seq(Span) /\ Related(missing', Gapped)
           /\ Covered(Elements(missing'))
                = Covered(Elements(missing)) \cup UNION Intervals(Elements(back))
           /\ Lists!BytesOf(missing')
                = Lists!BytesOf(missing) \cup UNION Intervals(Elements(back))
<1>1. PICK t \in Seq(Span) : t = missing'
  BY MergeIs
<1>2. Related(t, Gapped) /\ Covered(Elements(t)) = Covered(Elements(s))
  BY <1>1, MergeIs
<1>3. Covered(Elements(s)) = Covered(Elements(missing)) \cup UNION Intervals(Elements(back))
  BY DEF Covered, Intervals
<1>4. /\ Lists!BytesOf(t) = Covered(Elements(t))
      /\ Lists!BytesOf(missing) = Covered(Elements(missing))
  BY PoolSees DEF RangesInv
<1> QED
  BY <1>1, <1>2, <1>3, <1>4

LEMMA FailedIs ==
    ASSUME RangesInv, NEW i \in 1 .. Len(inflight), Lists!MarkBlockFailed(i)
    PROVE  RangesInv' /\ \E blocks \in SUBSET {r.start .. r.end : r \in Lists!ToSet(inflight)} :
                            Lists!Pool!GiveBack(blocks)
<1>1. /\ missing' = Lists!MergeRanges(Append(missing, inflight[i]))
      /\ inflight' = Lists!RemoveInflight(inflight, inflight[i])
      /\ Lists!Counted
  BY DEF Lists!MarkBlockFailed
<1>2. /\ inflight \in Seq(Span) /\ missing \in Seq(Span) /\ Related(missing, Gapped)
      /\ Related(inflight, Disjoint)
      /\ \A r \in Elements(inflight) : Interval(r) \cap Covered(Elements(missing)) = {}
  BY DEF RangesInv
<1>3. PICK x \in Span : x = inflight[i]
  BY <1>2
<1>4. PICK block : block = Interval(x)
  OBVIOUS
<1>5. <<x>> \in Seq(Span) /\ Elements(<<x>>) = {x} /\ Intervals({x}) = {block}
  BY <1>4, FewElements DEF Intervals
<1>6. Append(missing, x) \in Seq(Span) /\ Elements(Append(missing, x)) = Elements(missing) \cup {x}
  BY <1>2, AppendedElements
<1>7. /\ missing' \in Seq(Span) /\ Related(missing', Gapped)
      /\ Covered(Elements(missing')) = Covered(Elements(missing)) \cup block
      /\ Lists!BytesOf(missing') = Lists!BytesOf(missing) \cup block
  <2>1. PICK s \in Seq(Span), back \in Seq(Span) : s = Append(missing, x) /\ back = <<x>>
    BY <1>5, <1>6
  <2>2. Elements(s) = Elements(missing) \cup Elements(back) /\ missing' = Lists!MergeRanges(s)
    BY <1>1, <1>3, <1>5, <1>6, <2>1
  <2>3. UNION Intervals(Elements(back)) = block
    BY <1>5, <2>1
  <2> QED
    BY <2>2, <2>3, MergedBack
<1>8. /\ inflight' \in Seq(Span) /\ Related(inflight', Disjoint)
      /\ Intervals(Elements(inflight')) = Intervals(Elements(inflight)) \ {block}
  BY <1>1, <1>2, <1>3, <1>4, RemovedRange
<1>9. \A r \in Elements(inflight') : Interval(r) \cap Covered(Elements(missing')) = {}
  <2> SUFFICES ASSUME NEW r \in Elements(inflight')
               PROVE  Interval(r) \cap Covered(Elements(missing')) = {}
    OBVIOUS
  <2>1. Interval(r) \in Intervals(Elements(inflight)) /\ Interval(r) # block
    BY <1>8 DEF Intervals
  <2>2. PICK j \in 1 .. Len(inflight) : Interval(r) = Interval(inflight[j])
    BY <2>1 DEF Intervals, Elements
  <2>3. Interval(r) \cap block = {}
    BY <1>2, <1>3, <1>4, <2>1, <2>2, OtherIntervals
  <2>4. Interval(r) \cap Covered(Elements(missing)) = {}
    BY <1>2, <2>2 DEF Elements
  <2> QED
    BY <1>7, <2>3, <2>4
<1>10. RangesInv'
  BY <1>7, <1>8, <1>9 DEF RangesInv
<1>11. Lists!Pool!Counted
  BY <1>1, <1>7, CountedIs
<1>12. /\ {r.start .. r.end : r \in Lists!ToSet(inflight)} = Intervals(Elements(inflight))
       /\ {r.start .. r.end : r \in Lists!ToSet(inflight')} = Intervals(Elements(inflight'))
  BY <1>2, <1>8, PoolSees
<1>13. {block} \in SUBSET Intervals(Elements(inflight))
  BY <1>3, <1>4 DEF Intervals, Elements
<1>14. Lists!Pool!GiveBack({block})
  BY <1>7, <1>8, <1>11, <1>12 DEF Lists!Pool!GiveBack
<1> QED
  BY <1>10, <1>12, <1>13, <1>14

LEMMA ReclaimedIs ==
    ASSUME RangesInv, NEW lost_leases \in SUBSET (1 .. Len(inflight)),
           Lists!ReclaimLeases(lost_leases)
    PROVE  RangesInv' /\ \E blocks \in SUBSET {r.start .. r.end : r \in Lists!ToSet(inflight)} :
                            Lists!Pool!GiveBack(blocks)
<1>1. PICK taken, kept :
         /\ taken = [i \in 1 .. Len(inflight) |-> IF i \in lost_leases THEN <<inflight[i]>> ELSE <<>>]
         /\ kept = [i \in 1 .. Len(inflight) |-> IF i \in lost_leases THEN <<>> ELSE <<inflight[i]>>]
  OBVIOUS
<1>2. /\ inflight' = Lists!FlattenSeq(kept)
      /\ missing' = Lists!MergeRanges(missing \o Lists!FlattenSeq(taken))
      /\ Lists!Counted
  BY <1>1 DEF Lists!ReclaimLeases
<1>3. /\ inflight \in Seq(Span) /\ missing \in Seq(Span) /\ Related(missing, Gapped)
      /\ Related(inflight, Disjoint)
      /\ \A r \in Elements(inflight) : Interval(r) \cap Covered(Elements(missing)) = {}
  BY DEF RangesInv
<1>4. PICK stay : stay = (1 .. Len(inflight)) \ lost_leases
  OBVIOUS
<1>5. kept = [i \in 1 .. Len(inflight) |-> IF i \in stay THEN <<inflight[i]>> ELSE <<>>]
  BY <1>1, <1>4
<1>6. PICK back : back = Lists!FlattenSeq(taken)
  OBVIOUS
<1>7. back \in Seq(Span) /\ Elements(back) = {inflight[i] : i \in lost_leases}
  <2>1. (1 .. Len(inflight)) \cap lost_leases = lost_leases
    OBVIOUS
  <2> QED
    BY <1>1, <1>3, <1>6, <2>1, ChosenIs
<1>8. /\ inflight' \in Seq(Span) /\ Related(inflight', Disjoint)
      /\ Elements(inflight') = {inflight[i] : i \in stay}
  <2>1. (1 .. Len(inflight)) \cap stay = stay
    BY <1>4
  <2> QED
    BY <1>2, <1>3, <1>5, <2>1, ChosenIs
<1>9. PICK blocks : blocks = Intervals(Elements(back))
  OBVIOUS
<1>10. /\ missing' \in Seq(Span) /\ Related(missing', Gapped)
       /\ Covered(Elements(missing')) = Covered(Elements(missing)) \cup UNION blocks
       /\ Lists!BytesOf(missing') = Lists!BytesOf(missing) \cup UNION blocks
  <2>1. PICK s \in Seq(Span) : s = missing \o back
    BY <1>3, <1>7, Joined
  <2>2. Elements(s) = Elements(missing) \cup Elements(back) /\ missing' = Lists!MergeRanges(s)
    BY <1>2, <1>3, <1>6, <1>7, <2>1, JoinedElements
  <2> QED
    BY <1>7, <1>9, <2>2, MergedBack
<1>11. blocks = {Interval(inflight[i]) : i \in lost_leases}
  BY <1>7, <1>9 DEF Intervals
<1>12. Intervals(Elements(inflight')) = {Interval(inflight[i]) : i \in stay}
  BY <1>8 DEF Intervals
<1>13. Intervals(Elements(inflight)) = {Interval(inflight[i]) : i \in 1 .. Len(inflight)}
  BY DEF Intervals, Elements
<1>14. ASSUME NEW i \in stay, NEW j \in lost_leases
       PROVE  /\ Interval(inflight[i]) # Interval(inflight[j])
              /\ Interval(inflight[i]) \cap Interval(inflight[j]) = {}
  <2>1. i \in 1 .. Len(inflight) /\ j \in 1 .. Len(inflight) /\ i # j
    BY <1>4
  <2> QED
    BY <1>3, <2>1, Different, OtherIntervals
<1>15. Intervals(Elements(inflight')) = Intervals(Elements(inflight)) \ blocks
  BY <1>4, <1>11, <1>12, <1>13, <1>14
<1>16. \A r \in Elements(inflight') : Interval(r) \cap Covered(Elements(missing')) = {}
  <2> SUFFICES ASSUME NEW i \in stay
               PROVE  Interval(inflight[i]) \cap Covered(Elements(missing')) = {}
    BY <1>8
  <2>1. Interval(inflight[i]) \cap UNION blocks = {}
    BY <1>11, <1>14
  <2>2. inflight[i] \in Elements(inflight)
    BY <1>4 DEF Elements
  <2> QED
    BY <1>3, <1>10, <2>1, <2>2
<1>17. RangesInv'
  BY <1>8, <1>10, <1>16 DEF RangesInv
<1>18. Lists!Pool!Counted
  BY <1>2, <1>10, CountedIs
<1>19. /\ {r.start .. r.end : r \in Lists!ToSet(inflight)} = Intervals(Elements(inflight))
       /\ {r.start .. r.end : r \in Lists!ToSet(inflight')} = Intervals(Elements(inflight'))
  BY <1>3, <1>8, PoolSees
<1>20. blocks \in SUBSET Intervals(Elements(inflight))
  BY <1>11, <1>13
<1>21. Lists!Pool!GiveBack(blocks)
  BY <1>10, <1>15, <1>18, <1>19 DEF Lists!Pool!GiveBack
<1> QED
  BY <1>17, <1>19, <1>20, <1>21

LEMMA RestartedIs ==
    ASSUME RangesInv, Lists!Restart
    PROVE  RangesInv' /\ Lists!Pool!Restart
<1>1. /\ missing' = Lists!MergeRanges(missing \o inflight) /\ inflight' = <<>>
      /\ downloaded' = downloaded
  BY DEF Lists!Restart
<1>2. inflight \in Seq(Span) /\ missing \in Seq(Span)
  BY DEF RangesInv
<1>3. /\ missing' \in Seq(Span) /\ Related(missing', Gapped)
      /\ Lists!BytesOf(missing') = Lists!BytesOf(missing) \cup UNION Intervals(Elements(inflight))
  <2>1. PICK s \in Seq(Span) : s = missing \o inflight
    BY <1>2, Joined
  <2>2. Elements(s) = Elements(missing) \cup Elements(inflight) /\ missing' = Lists!MergeRanges(s)
    BY <1>1, <1>2, <2>1, JoinedElements
  <2> QED
    BY <1>2, <2>2, MergedBack
<1>4. inflight' \in Seq(Span) /\ Related(inflight', Disjoint) /\ Elements(inflight') = {}
  BY <1>1, FewElements
<1>5. RangesInv'
  BY <1>3, <1>4 DEF RangesInv
<1>6. /\ {r.start .. r.end : r \in Lists!ToSet(inflight)} = Intervals(Elements(inflight))
      /\ {r.start .. r.end : r \in Lists!ToSet(inflight')} = {}
  BY <1>2, <1>4, PoolSees DEF Intervals
<1> QED
  BY <1>1, <1>3, <1>5, <1>6 DEF Lists!Pool!Restart

LEMMA RangesStep == RangesInv /\ Lists!Next => RangesInv' /\ Lists!Pool!Next
<1> SUFFICES ASSUME RangesInv, Lists!Next PROVE RangesInv' /\ Lists!Pool!Next
  OBVIOUS
<1>1. ASSUME NEW max \in 1 .. MaxBlocks, NEW size \in BlockSizes, Lists!ReserveBlocks(max, size)
      PROVE  RangesInv' /\ Lists!Pool!Next
  BY <1>1, ReserveIs DEF Lists!Pool!Next
<1>2. ASSUME NEW i \in 1 .. Len(inflight), Lists!MarkBlockReceived(i)
      PROVE  RangesInv' /\ Lists!Pool!Next
  BY <1>2, ReceivedIs DEF Lists!Pool!Next
<1>3. ASSUME NEW i \in 1 .. Len(inflight), Lists!MarkBlockFailed(i)
      PROVE  RangesInv' /\ Lists!Pool!Next
  BY <1>3, FailedIs DEF Lists!Pool!Next
<1>4. ASSUME NEW gone \in SUBSET (1 .. Len(inflight)), Lists!ReclaimLeases(gone)
      PROVE  RangesInv' /\ Lists!Pool!Next
  BY <1>4, ReclaimedIs DEF Lists!Pool!Next
<1>5. ASSUME Lists!Restart PROVE RangesInv' /\ Lists!Pool!Next
  BY <1>5, RestartedIs DEF Lists!Pool!Next
<1> QED
  BY <1>1, <1>2, <1>3, <1>4, <1>5 DEF Lists!Next

\* The vectors of ranges of a download, cut, sorted and merged, do what the sets of
\* bytes do: the blocks granted are the first ones of the missing bytes, what is given
\* back is missing again, progress counts each byte once, and the vector of missing
\* ranges stays sorted with gaps.
THEOREM ListsArePools == Spec => ImplementsPool
<1>1. RangesInv /\ [Next]_vars => RangesInv'
  <2>1. RangesInv /\ UNCHANGED ranges => RangesInv'
    BY DEF RangesInv, ranges
  <2> QED
    BY <2>1, RangesStep DEF Next, vars
<1>2. RangesInv /\ [Next]_vars => [part = "ranges" => Lists!Pool!Next]_vars
  BY RangesStep DEF Next
<1>3. RangesInv => Lists!Canonical
  <2> SUFFICES ASSUME RangesInv PROVE Lists!Canonical
    OBVIOUS
  <2>1. /\ Len(missing) \in Nat /\ DOMAIN missing = 1 .. Len(missing)
        /\ \A i \in 1 .. Len(missing) : missing[i] \in Span
    BY DEF RangesInv
  <2>2. \A i \in DOMAIN missing : missing[i].start <= missing[i].end
    BY <2>1, SpanIs
  <2>3. ASSUME NEW i \in 1 .. Len(missing) - 1
        PROVE  missing[i].end + 1 < missing[i + 1].start
    <3>1. i \in 1 .. Len(missing) /\ i + 1 \in 1 .. Len(missing) /\ i < i + 1
      BY <2>1
    <3> QED
      BY <3>1 DEF RangesInv, Related, Gapped
  <2> QED
    BY <2>2, <2>3 DEF Lists!Canonical
<1> QED
  BY <1>1, <1>2, <1>3, RangesInit, PTL DEF Spec, ImplementsPool
=============================================================================
