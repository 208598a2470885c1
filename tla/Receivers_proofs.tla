-------------------------- MODULE Receivers_proofs --------------------------
(* Proofs about the browser's questions and the sections and sessions it     *)
(* makes players of: no question outlives its tracker, no two players share  *)
(* a MAC, a session has the target its device has now, and a receiver that   *)
(* is there has its player.                                                  *)
EXTENDS Receivers, SharedLemmas

Kinds == {"SRV", "TXT", "A"}

TrackerRec ==
    [active : SUBSET Kinds, port : BOOLEAN, host : BOOLEAN,
     address : Addresses \cup {""}, txt : BOOLEAN]

\* The trackers are a map from services.
Trackers ==
    /\ DOMAIN resolvers \subseteq Services
    /\ resolvers \in [DOMAIN resolvers -> TrackerRec]
    /\ addr \in [Receivers -> Addresses]

\* A question is asked exactly while its tracker counts it as active.
Asks ==
    /\ asked \subseteq Services \X Kinds
    /\ \A s \in Services, k \in Kinds :
        << s, k >> \in asked <=> s \in DOMAIN resolvers /\ k \in resolvers[s].active

\* Nothing is asked before the loop thread runs, nor after its teardown: the
\* browser is started once, by a main thread that has not come further.
LoopKept ==
    /\ asked # {} => browsing /\ loop = "run"
    /\ main \in {"statics", "start"} => loop = "none"

IInv == Trackers /\ Asks /\ LoopKept /\ Assigned(sections)

-----------------------------------------------------------------------------
\* The two forms of what is asked.
LEMMA AsksAll ==
    ASSUME Trackers, Asks
    PROVE  asked = UNION { {s} \X resolvers[s].active : s \in DOMAIN resolvers }
  <1> DEFINE all == UNION { {s} \X resolvers[s].active : s \in DOMAIN resolvers }
  <1>1. \A s \in DOMAIN resolvers : s \in Services /\ resolvers[s].active \subseteq Kinds
    BY DEF Trackers, TrackerRec
  <1>2. ASSUME NEW q \in asked PROVE q \in all
    <2>1. PICK s \in Services, k \in Kinds : q = << s, k >>
      BY <1>2 DEF Asks
    <2>2. s \in DOMAIN resolvers /\ k \in resolvers[s].active
      BY <1>2, <2>1 DEF Asks
    <2> QED
      BY <2>1, <2>2
  <1>3. ASSUME NEW q \in all PROVE q \in asked
    <2>1. PICK s \in DOMAIN resolvers : q \in {s} \X resolvers[s].active
      BY <1>3
    <2>2. PICK k \in resolvers[s].active : q = << s, k >>
      BY <2>1
    <2> QED
      BY <1>1, <2>2 DEF Asks
  <1> QED
    BY <1>2, <1>3

\* An event of the registry keeps the MACs of the sections.
LEMMA EventKeeps ==
    ASSUME Assigned(sections), NEW ev, NEW key, NEW dev, OnRegistryEvent(ev, key, dev)
    PROVE  Assigned(sections')
  <1> DEFINE who == [id |-> key, name |-> dev.name]
             auto == ev = "Added" /\ AutoRegister
  <1>1. sections' = resolve(sections, who, auto)
    BY DEF OnRegistryEvent
  <1>2. auto \in BOOLEAN
    OBVIOUS
  <1> HIDE DEF who, auto
  <1> QED
    BY <1>1, <1>2, ResolveKeeps DEF Assigned

LEMMA RecordKeeps ==
    ASSUME Assigned(sections), NEW s, NEW t,
           RecordAdded(s, t) \/ RecordGone(s) \/ Publish(s, t) \/ UNCHANGED sections
    PROVE  Assigned(sections')
  <1>1. ASSUME RecordAdded(s, t) PROVE Assigned(sections')
    BY <1>1, EventKeeps DEF RecordAdded
  <1>2. ASSUME RecordGone(s) PROVE Assigned(sections')
    BY <1>2, EventKeeps DEF RecordGone, manager
  <1>3. ASSUME Publish(s, t) PROVE Assigned(sections')
    BY <1>1, <1>3 DEF Publish, manager
  <1> QED
    BY <1>1, <1>2, <1>3

-----------------------------------------------------------------------------
(* The initial states.                                                      *)

LEMMA Begins == Init => IInv
  <1> SUFFICES ASSUME Init PROVE IInv
    OBVIOUS
  <1>1. Trackers
    BY DEF Init, Trackers, NoMap
  <1>2. Asks
    BY DEF Init, Asks, NoMap
  <1>3. LoopKept
    BY DEF Init, LoopKept
  <1>4. Assigned(sections)
    <2>1. Sections(Authored) /\ Unrepeated(Authored) /\ sections = AssignAll(Authored)
      BY AuthoredAssumption DEF Init
    <2>2. /\ Sections(sections) /\ SameButMacs(Authored, sections)
          /\ HaveMacs(sections, Len(sections))
          /\ Len(Authored) <= 256 /\ Unrepeated(Authored) => Unrepeated(sections)
      BY <2>1, AssignAllFinishes
    <2> QED
      BY <2>1, <2>2 DEF Assigned, Ready, Apart, SameButMacs
  <1> QED
    BY <1>1, <1>2, <1>3, <1>4 DEF IInv

-----------------------------------------------------------------------------
(* The steps.                                                               *)

\* What is asked of a service is what its tracker has become; every other
\* tracker and its questions stay.
Turns(s, present, active) ==
    /\ \A t \in Services \ {s} :
        /\ t \in DOMAIN resolvers' <=> t \in DOMAIN resolvers
        /\ t \in DOMAIN resolvers => resolvers'[t] = resolvers[t]
        /\ \A k \in Kinds : << t, k >> \in asked' <=> << t, k >> \in asked
    /\ s \in DOMAIN resolvers' <=> present
    /\ present => resolvers'[s].active = active
    /\ \A k \in Kinds : << s, k >> \in asked' <=> present /\ k \in active
    /\ asked' \subseteq Services \X Kinds

LEMMA TurnsKeep ==
    ASSUME Asks, NEW s \in Services, NEW present \in BOOLEAN, NEW active,
           Turns(s, present, active)
    PROVE  Asks'
  <1>1. \A t \in Services \ {s}, k \in Kinds :
            << t, k >> \in asked' <=> t \in DOMAIN resolvers' /\ k \in resolvers'[t].active
    BY DEF Turns, Asks
  <1>2. \A k \in Kinds :
            << s, k >> \in asked' <=> s \in DOMAIN resolvers' /\ k \in resolvers'[s].active
    BY DEF Turns
  <1> QED
    BY <1>1, <1>2 DEF Turns, Asks

\* A tracker is made, or changed, with its questions.
LEMMA Tracked ==
    ASSUME Trackers, Asks, NEW s \in Services, NEW t \in TrackerRec, addr' = addr,
           resolvers' = With(resolvers, s, t),
           asked' = (asked \ Questions(s)) \cup ({s} \X t.active)
    PROVE  Trackers' /\ Asks'
  <1>1. t.active \subseteq Kinds
    BY DEF TrackerRec
  <1>2. Trackers'
    BY DEF Trackers, With
  <1>3. /\ DOMAIN resolvers' = DOMAIN resolvers \cup {s} /\ resolvers'[s] = t
        /\ \A r \in DOMAIN resolvers : r # s => resolvers'[r] = resolvers[r]
    BY DEF With
  <1>4. asked' \subseteq Services \X Kinds
    BY <1>1 DEF Asks
  <1>5. \A k \in Kinds : << s, k >> \in asked' <=> k \in t.active
    BY DEF Questions
  <1>6. \A r \in Services \ {s}, k \in Kinds : << r, k >> \in asked' <=> << r, k >> \in asked
    BY DEF Questions
  <1>7. Turns(s, TRUE, t.active)
    BY <1>3, <1>4, <1>5, <1>6 DEF Turns
  <1> QED
    BY <1>2, <1>7, TurnsKeep

\* stopResolveForInstance().
LEMMA Untracked ==
    ASSUME Trackers, Asks, NEW s \in Services, addr' = addr, StopResolve(s)
    PROVE  Trackers' /\ Asks'
  <1>1. Trackers'
    BY DEF Trackers, StopResolve, Without
  <1>2. /\ DOMAIN resolvers' = DOMAIN resolvers \ {s}
        /\ \A r \in DOMAIN resolvers : r # s => resolvers'[r] = resolvers[r]
    BY DEF StopResolve, Without
  <1>3. asked' = asked \ Questions(s)
    BY DEF StopResolve
  <1>4. asked' \subseteq Services \X Kinds
    BY <1>3 DEF Asks
  <1>5. \A k \in Kinds : << s, k >> \notin asked'
    BY <1>3 DEF Questions
  <1>6. \A r \in Services \ {s}, k \in Kinds : << r, k >> \in asked' <=> << r, k >> \in asked
    BY <1>3 DEF Questions
  <1>7. Turns(s, FALSE, {})
    BY <1>2, <1>4, <1>5, <1>6 DEF Turns
  <1> QED
    BY <1>1, <1>7, TurnsKeep

\* Trackers and questions stay: what else they depend on may change.
LEMMA Untouched ==
    ASSUME Trackers, Asks, UNCHANGED << asked, resolvers >>,
           addr' \in [Receivers -> Addresses]
    PROVE  Trackers' /\ Asks'
  BY DEF Trackers, Asks

LEMMA BrowseAddKeeps ==
    ASSUME IInv, NEW s \in Services, BrowseAdd(s)
    PROVE  IInv'
  <1>1. Looping /\ UNCHANGED << addr, browsing, loop, main, sections >>
    BY DEF BrowseAdd, network, control, manager
  <1>2. CASE UNCHANGED << resolvers, asked >>
    <2>1. Trackers' /\ Asks'
      BY <1>1, <1>2, Untouched DEF IInv, Trackers
    <2> QED
      BY <1>1, <1>2, <2>1 DEF IInv, LoopKept
  <1>3. CASE ~ UNCHANGED << resolvers, asked >>
    <2>1. PICK active \in { {"SRV", "TXT"}, {"SRV"}, {} } :
            /\ resolvers' = With(resolvers, s, Tracker(active))
            /\ asked' = asked \cup ({s} \X active)
            /\ s \notin DOMAIN resolvers
      BY <1>3 DEF BrowseAdd
    <2>2. Tracker(active) \in TrackerRec /\ Tracker(active).active = active
      BY DEF Tracker, TrackerRec, Kinds
    <2>3. Questions(s) = {}
      BY <2>1 DEF IInv, Asks, Questions
    <2>4. asked' = (asked \ Questions(s)) \cup ({s} \X Tracker(active).active)
      BY <2>1, <2>2, <2>3
    <2>5. Trackers' /\ Asks'
      BY <1>1, <2>1, <2>2, <2>4, Tracked DEF IInv
    <2> QED
      BY <1>1, <2>5 DEF IInv, LoopKept, Looping
  <1> QED
    BY <1>2, <1>3

LEMMA BrowseRemoveKeeps ==
    ASSUME IInv, NEW s \in Services, BrowseRemove(s)
    PROVE  IInv'
  <1>1. Looping /\ UNCHANGED << addr, browsing, loop, main >> /\ StopResolve(s) /\ RecordGone(s)
    BY DEF BrowseRemove, network, control
  <1>2. Trackers' /\ Asks'
    BY <1>1, Untracked DEF IInv
  <1>3. Assigned(sections')
    BY <1>1, RecordKeeps DEF IInv
  <1> QED
    BY <1>1, <1>2, <1>3 DEF IInv, LoopKept, Looping

LEMMA ProceedKeeps ==
    ASSUME IInv, NEW s \in DOMAIN resolvers, NEW t \in TrackerRec, Proceed(s, t),
           UNCHANGED << addr, browsing, loop, main >>, Looping
    PROVE  IInv'
  <1>1. s \in Services /\ \A val : [resolvers EXCEPT ![s] = val] = With(resolvers, s, val)
    BY DEF IInv, Trackers, With
  <1>2. CASE /\ resolvers' = [resolvers EXCEPT ![s] = [t EXCEPT !.active = {"A"}]]
             /\ asked' = (asked \ Questions(s)) \cup { << s, "A" >> }
             /\ UNCHANGED manager
    <2> DEFINE u == [t EXCEPT !.active = {"A"}]
    <2>1. u \in TrackerRec /\ u.active = {"A"}
      BY DEF TrackerRec, Kinds
    <2>2. resolvers' = With(resolvers, s, u)
      BY <1>1, <1>2
    <2> HIDE DEF u
    <2>3. asked' = (asked \ Questions(s)) \cup ({s} \X u.active)
      BY <1>2, <2>1
    <2>4. Trackers' /\ Asks'
      BY <1>1, <2>1, <2>2, <2>3, Tracked DEF IInv
    <2> QED
      BY <1>2, <2>4 DEF IInv, LoopKept, Looping, manager
  <1>3. CASE /\ resolvers' = [resolvers EXCEPT ![s] = t]
             /\ asked' = (asked \ Questions(s)) \cup ({s} \X t.active)
             /\ Publish(s, t) \/ UNCHANGED manager
    <2>1. resolvers' = With(resolvers, s, t)
      BY <1>1, <1>3
    <2>2. Trackers' /\ Asks'
      BY <1>1, <1>3, <2>1, Tracked DEF IInv
    <2>3. Assigned(sections')
      BY <1>3, RecordKeeps DEF IInv, manager
    <2> QED
      BY <2>2, <2>3 DEF IInv, LoopKept, Looping
  <1> QED
    BY <1>2, <1>3 DEF Proceed

\* What becomes of a tracker with an answer.
Answered(s, old, question, address) ==
    LET t == [old EXCEPT !.active = @ \ {question}]
    IN  CASE question = "SRV" -> [t EXCEPT !.port = s.port, !.host = TRUE]
          [] question = "TXT" -> [t EXCEPT !.txt = TRUE]
          [] question = "A"   -> [t EXCEPT !.address = address]

LEMMA AnsweredIs ==
    ASSUME NEW s \in Services, NEW old \in TrackerRec, NEW question \in Kinds,
           NEW address \in Addresses
    PROVE  Answered(s, old, question, address) \in TrackerRec
  <1> DEFINE t == [old EXCEPT !.active = @ \ {question}]
             u == Answered(s, old, question, address)
  <1>1. t \in TrackerRec
    BY DEF TrackerRec
  <1>2. u = CASE question = "SRV" -> [t EXCEPT !.port = s.port, !.host = TRUE]
              [] question = "TXT" -> [t EXCEPT !.txt = TRUE]
              [] question = "A"   -> [t EXCEPT !.address = address]
    BY DEF Answered
  <1> HIDE DEF t, u
  <1>3. CASE question = "SRV"
    <2>1. s.port \in BOOLEAN
      BY ServicesAssumption DEF ServiceOK
    <2>2. u = [t EXCEPT !.port = s.port, !.host = TRUE]
      BY <1>2, <1>3
    <2> QED
      BY <1>1, <2>1, <2>2, ZenonT(120) DEF TrackerRec, u
  <1>4. CASE question = "TXT"
    <2>1. u = [t EXCEPT !.txt = TRUE]
      BY <1>2, <1>4
    <2> QED
      BY <1>1, <2>1 DEF TrackerRec, u
  <1>5. CASE question = "A"
    <2>1. u = [t EXCEPT !.address = address]
      BY <1>2, <1>5
    <2> QED
      BY <1>1, <2>1 DEF TrackerRec, u
  <1> QED
    BY <1>3, <1>4, <1>5 DEF Kinds

\* What an answer means for its tracker.
LEMMA AnswerIs ==
    ASSUME IInv, NEW s \in Services, NEW question \in Kinds, Answer(s, question)
    PROVE  /\ Looping /\ UNCHANGED << addr, browsing, loop, main, reported >>
           /\ s \in DOMAIN resolvers /\ resolvers[s] \in TrackerRec
           /\ addr[s.receiver] \in Addresses
           /\ Proceed(s, Answered(s, resolvers[s], question, addr[s.receiver]))
  <1>1. Looping /\ << s, question >> \in asked /\ UNCHANGED << addr, browsing, loop, main, reported >>
    BY DEF Answer, network, control
  <1>2. Proceed(s, Answered(s, resolvers[s], question, addr[s.receiver]))
    BY DEF Answer, Answered
  <1>3. s \in DOMAIN resolvers /\ resolvers[s] \in TrackerRec
    BY <1>1 DEF IInv, Asks, Trackers
  <1>4. addr[s.receiver] \in Addresses
    BY DEF IInv, Trackers, Receivers
  <1> QED
    BY <1>1, <1>2, <1>3, <1>4

LEMMA AnswerKeeps ==
    ASSUME IInv, NEW s \in Services, NEW question \in Kinds, Answer(s, question)
    PROVE  IInv'
  <1>1. Answered(s, resolvers[s], question, addr[s.receiver]) \in TrackerRec
    BY AnswerIs, AnsweredIs
  <1> QED
    BY <1>1, AnswerIs, ProceedKeeps

\* The bridge's thread.
LEMMA MainKeeps ==
    ASSUME IInv, Main
    PROVE  IInv'
  <1>1. ASSUME StartStatic PROVE IInv'
    <2>1. UNCHANGED << addr, browsing, asked, resolvers, loop >> /\ main = "statics"
      BY <1>1 DEF StartStatic, network, browser
    <2>2. Trackers' /\ Asks'
      BY <2>1, Untouched DEF IInv, Trackers
    <2>3. Assigned(sections')
      BY <1>1, EventKeeps DEF StartStatic, IInv, manager
    <2> QED
      BY <1>1, <2>1, <2>2, <2>3 DEF IInv, LoopKept
  <1>2. ASSUME NEW ok \in BOOLEAN, StartBrowser(ok) PROVE IInv'
    <2>1. UNCHANGED << addr, asked, resolvers, sections >> /\ main = "start" /\ main' = "run"
      BY <1>2 DEF StartBrowser, network, manager
    <2>2. Trackers' /\ Asks'
      BY <2>1, Untouched DEF IInv, Trackers
    <2>3. LoopKept'
      BY <2>1 DEF IInv, LoopKept
    <2> QED
      BY <2>1, <2>2, <2>3 DEF IInv
  <1>3. ASSUME Stop \/ Joined PROVE IInv'
    <2>1. /\ UNCHANGED << addr, browsing, asked, resolvers, loop, sections >>
          /\ main' \in {"joining", "done"}
      BY <1>3 DEF Stop, Joined, network, browser, manager
    <2>2. Trackers' /\ Asks'
      BY <2>1, Untouched DEF IInv, Trackers
    <2> QED
      BY <2>1, <2>2 DEF IInv, LoopKept
  <1> QED
    BY <1>1, <1>2, <1>3 DEF Main

LEMMA OthersKeep ==
    ASSUME IInv, Teardown \/ (\E key \in DOMAIN sessions : Play(key))
                    \/ (\E s \in Services, a \in Addresses : Power(s, a)) \/ UNCHANGED vars
    PROVE  IInv'
  <1>1. ASSUME Teardown PROVE IInv'
    <2>1. /\ asked' = {} /\ resolvers' = NoMap /\ loop' = "ended" /\ loop = "run"
          /\ UNCHANGED << addr, main, sections >>
      BY <1>1 DEF Teardown, network, manager
    <2>2. Trackers' /\ Asks'
      BY <2>1 DEF IInv, Trackers, Asks, NoMap
    <2> QED
      BY <2>1, <2>2 DEF IInv, LoopKept
  <1>2. ASSUME NEW key, Play(key) PROVE IInv'
    <2>1. UNCHANGED << addr, browsing, asked, resolvers, loop, main, sections >>
      BY <1>2 DEF Play, network, browser, control
    <2> QED
      BY <2>1 DEF IInv, Trackers, Asks, LoopKept
  <1>3. ASSUME NEW s \in Services, NEW a \in Addresses, Power(s, a) PROVE IInv'
    <2>1. /\ UNCHANGED << browsing, asked, resolvers, loop, main, sections >>
          /\ addr' = [addr EXCEPT ![s.receiver] = a]
      BY <1>3 DEF Power, browser, control, manager
    <2>2. Trackers' /\ Asks'
      BY <2>1, Untouched DEF IInv, Trackers
    <2> QED
      BY <2>1, <2>2 DEF IInv, LoopKept
  <1>4. ASSUME UNCHANGED vars PROVE IInv'
    BY <1>4 DEF vars, network, browser, control, manager, IInv, Trackers, Asks, LoopKept
  <1> QED
    BY <1>1, <1>2, <1>3, <1>4

-----------------------------------------------------------------------------
(* Names and keys.                                                          *)

\* A device as the registry has it: a key of a service, under its name.
Legal(dev) == \E s \in Services : dev.id \in KeysOf(s) /\ dev.name = s.name

LEMMA LegalNames ==
    ASSUME NEW dev, Legal(dev)
    PROVE  /\ dev.id # "" /\ dev.name # "" /\ dev.name \in Announced
           /\ dev.name \in HexIds => dev.id = dev.name
           /\ dev.id \in HexIds \/ dev.id = dev.name \/ dev.id \notin Written \cup Announced
  <1>1. PICK s \in Services : dev.id \in KeysOf(s) /\ dev.name = s.name
    BY DEF Legal
  <1>2. NamedOK(s)
    BY NamesAssumption
  <1>3. s.name \in HexIds => KeysOf(s) = {s.name}
    BY <1>2, Zenon DEF NamedOK
  <1>4. dev.name \in HexIds => dev.id = dev.name
    BY <1>1, <1>3
  <1>5. dev.id # "" /\ dev.name # "" /\ dev.name \in Announced
    BY <1>1, <1>2 DEF NamedOK, Announced
  <1>6. dev.id \in HexIds \/ dev.id = dev.name \/ dev.id \notin Written \cup Announced
    BY <1>1, <1>2, Zenon DEF NamedOK
  <1> QED
    BY <1>4, <1>5, <1>6

LEMMA LegalAgree ==
    ASSUME NEW dev, Legal(dev), NEW other, Legal(other), other.id = dev.id
    PROVE  other.name = dev.name
  <1>1. PICK s \in Services : dev.id \in KeysOf(s) /\ dev.name = s.name
    BY DEF Legal
  <1>2. PICK t \in Services : other.id \in KeysOf(t) /\ other.name = t.name
    BY DEF Legal
  <1>3. KeysOf(s) \cap KeysOf(t) # {}
    BY <1>1, <1>2
  <1>4. s.name = t.name
    BY <1>3, NamesAssumption, Zenon
  <1> QED
    BY <1>1, <1>2, <1>4

LEMMA LegalHash ==
    ASSUME NEW dev, Legal(dev), dev.id \in HexIds, NEW other, Legal(other),
           NEW x \in {other.id, other.name}, x # dev.id
    PROVE  HashOf[x] # HashOf[dev.id]
  <1>1. PICK s \in Services : dev.id \in KeysOf(s)
    BY DEF Legal
  <1>2. PICK t \in Services : other.id \in KeysOf(t) /\ other.name = t.name
    BY DEF Legal
  <1>3. dev.id \in KeysOf(s) \cap HexIds /\ x \in KeysOf(t) \cup {t.name}
    BY <1>1, <1>2
  <1> QED
    BY <1>3, HashAssumption, Zenon

\* The names of sections were written or announced, and what is named by a
\* device id is bound to no other.
NamedRight(secs) ==
    \A i \in 1 .. Len(secs) :
        /\ secs[i].name \in Written \cup Announced /\ secs[i].name # ""
        /\ secs[i].name \in HexIds => secs[i].id \in {"", secs[i].name}

\* The sections stay under their names and keys.
SameKeys(secs, new) ==
    /\ Len(secs) <= Len(new)
    /\ \A i \in 1 .. Len(secs) : KeyOf(new[i]) = KeyOf(secs[i]) /\ new[i].name = secs[i].name

-----------------------------------------------------------------------------
(* resolve() on sections that are named right.                              *)

\* One section shows another name.
LEMMA ShownKeeps ==
    ASSUME NEW secs, Sections(secs), NamedRight(secs), NEW at \in 1 .. Len(secs), NEW shown,
           NEW new, ShownAs(secs, at, shown, new)
    PROVE  /\ NamedRight(new) /\ SameKeys(secs, new)
           /\ \A dev : StillMatch(secs, new, dev)
  <1>1. /\ Len(new) = Len(secs) /\ Len(secs) \in Nat
        /\ \A i \in 1 .. Len(secs) : i # at => new[i] = secs[i]
    BY DEF ShownAs, Sections
  <1>2. /\ new[at].name = secs[at].name /\ new[at].id = secs[at].id
        /\ new[at].mac = secs[at].mac
    BY ShapedFields DEF ShownAs
  <1>3. \A i \in 1 .. Len(secs) : /\ new[i].name = secs[i].name /\ new[i].id = secs[i].id
                                  /\ new[i].mac = secs[i].mac
    BY <1>1, <1>2
  <1>4. NamedRight(new)
    BY <1>1, <1>3 DEF NamedRight
  <1>5. SameKeys(secs, new)
    <2>1. Len(secs) <= Len(new)
      BY <1>1
    <2> QED
      BY <1>3, <2>1, Zenon DEF SameKeys, KeyOf
  <1>6. \A dev : StillMatch(secs, new, dev)
    <2>1. Len(secs) <= Len(new) /\ \A i \in 1 .. Len(new) : i \in 1 .. Len(secs)
      BY <1>1
    <2> QED
      BY <1>3, <2>1, Zenon DEF StillMatch, ById, ByMac, ByName
  <1> QED
    BY <1>4, <1>5, <1>6

\* A device that no section matches, but one is named by its key.
Keyed(dev) == dev.id # ""
Unbound(sec, key) == key \in HexIds => sec.id = ""

LEMMA FoundNamed ==
    ASSUME NEW secs, Ready(secs), NamedRight(secs), NEW dev, Keyed(dev),
           Match(secs, dev) = 0, NEW at, at = findSection(secs, dev.id), at # 0
    PROVE  /\ at \in 1 .. Len(secs) /\ secs[at].name = dev.id
           /\ Unbound(secs[at], dev.id)
           /\ GivenId(secs, at, IF dev.id \in HexIds THEN dev.id ELSE secs[at].id,
                      Created(secs, dev))
  <1>1. Sections(secs) /\ Len(secs) \in Nat /\ KeyFor(dev) = dev.id
    BY DEF Ready, Sections, KeyFor, Keyed
  <1>2. \A i \in 1 .. Len(secs) : ~ (dev.id # "" /\ secs[i].id = dev.id)
    BY <1>1, NoMatch
  <1>3. /\ at \in 0 .. Len(secs)
        /\ \/ secs[at].id # "" /\ secs[at].id = dev.id
           \/ secs[at].name = dev.id
    BY <1>1, FindSection
  <1>9. at \in 0 .. Len(secs) /\ Len(secs) \in Nat /\ at # 0
    BY <1>1, <1>3
  <1>4. at \in 1 .. Len(secs)
    BY <1>9
  <1>5. secs[at].name = dev.id /\ secs[at].id # dev.id
    BY <1>2, <1>3, <1>4 DEF Keyed
  <1>6. Unbound(secs[at], dev.id)
    BY <1>4, <1>5 DEF NamedRight, Unbound
  <1>7. GivenId(secs, at, IF dev.id \in HexIds THEN dev.id ELSE secs[at].id, Created(secs, dev))
    <2>1. findSection(secs, KeyFor(dev)) = at
      BY <1>1
    <2>2. GivenId(secs, at, IF KeyFor(dev) \in HexIds THEN dev.id ELSE secs[at].id,
                  Created(secs, dev))
      BY <1>4, <2>1, CreatedOld
    <2> QED
      BY <1>1, <2>2
  <1> QED
    BY <1>4, <1>5, <1>6, <1>7

LEMMA FoundKeeps ==
    ASSUME NEW secs, Sections(secs), NamedRight(secs), NEW key,
           NEW at \in 1 .. Len(secs), secs[at].name = key, Unbound(secs[at], key),
           NEW new, GivenId(secs, at, IF key \in HexIds THEN key ELSE secs[at].id, new)
    PROVE  /\ NamedRight(new) /\ SameKeys(secs, new)
           /\ key \in HexIds => new[at].id = key
           /\ \A i \in 1 .. Len(secs) : i # at => new[i] = secs[i]
           /\ \A dev : dev.id # key => StillMatch(secs, new, dev)
  <1> DEFINE id == IF key \in HexIds THEN key ELSE secs[at].id
  <1>1. /\ Len(new) = Len(secs) /\ Len(secs) \in Nat
        /\ \A i \in 1 .. Len(secs) : i # at => new[i] = secs[i]
    BY DEF GivenId, Sections
  <1>2. new[at].name = secs[at].name /\ new[at].id = id /\ new[at].mac = secs[at].mac
    <2>1. GivenId(secs, at, id, new)
      OBVIOUS
    <2> HIDE DEF id
    <2>2. new[at] = FullSection(secs[at].name, id, secs[at].mac, secs[at].creds,
                                secs[at].name, secs[at].renamed, secs[at].auto)
      BY <2>1 DEF GivenId
    <2> QED
      BY <2>2, ShapedFields
  <1>3. id = secs[at].id \/ (secs[at].id = "" /\ id = key)
    BY DEF Unbound
  <1> HIDE DEF id
  <1>4. KeyOf(new[at]) = KeyOf(secs[at])
    BY <1>2, <1>3 DEF KeyOf
  <1>5. NamedRight(new)
    <2>1. new[at].name \in HexIds => new[at].id \in {"", new[at].name}
      BY <1>2, <1>3 DEF NamedRight
    <2>2. ASSUME NEW i \in 1 .. Len(new)
          PROVE  /\ new[i].name \in Written \cup Announced /\ new[i].name # ""
                 /\ new[i].name \in HexIds => new[i].id \in {"", new[i].name}
      BY <1>1, <1>2, <2>1 DEF NamedRight
    <2> QED
      BY <2>2, Zenon DEF NamedRight
  <1>6. SameKeys(secs, new)
    <2>1. Len(secs) <= Len(new)
      BY <1>1
    <2> QED
      BY <1>1, <1>2, <1>4, <2>1, Zenon DEF SameKeys
  <1>7. ASSUME NEW dev, dev.id # key PROVE StillMatch(secs, new, dev)
    <2>1. Len(secs) <= Len(new) /\ \A i \in 1 .. Len(new) : i \in 1 .. Len(secs)
      BY <1>1
    <2>2. ById(new[at], dev) <=> ById(secs[at], dev)
      BY <1>2, <1>3, <1>7 DEF ById
    <2>3. /\ ByMac(new[at], dev) <=> ByMac(secs[at], dev)
          /\ ByName(new[at], dev) <=> ByName(secs[at], dev)
      BY <1>2, Zenon DEF ByMac, ByName
    <2>4. \A i \in 1 .. Len(secs) : /\ ById(new[i], dev) <=> ById(secs[i], dev)
                                    /\ ByMac(new[i], dev) <=> ByMac(secs[i], dev)
                                    /\ ByName(new[i], dev) <=> ByName(secs[i], dev)
      BY <1>1, <2>2, <2>3, Zenon
    <2> QED
      BY <2>1, <2>4, Zenon DEF StillMatch
  <1>8. key \in HexIds => new[at].id = key
    BY <1>2 DEF id
  <1> QED
    BY <1>1, <1>5, <1>6, <1>7, <1>8

\* A device that is new.
LEMMA NewKeeps ==
    ASSUME NEW secs, Ready(secs), NamedRight(secs), NEW dev, Legal(dev),
           findSection(secs, dev.id) = 0
    PROVE  LET new == Created(secs, dev)
               at  == Len(secs) + 1
           IN  /\ NamedRight(new) /\ SameKeys(secs, new) /\ Len(new) = at
               /\ \A i \in 1 .. Len(secs) : new[i] = secs[i]
               /\ new[at].name = dev.name
               /\ new[at].id = IF dev.id \in HexIds THEN dev.id ELSE ""
               /\ \A other : Legal(other) /\ other.id # dev.id => StillMatch(secs, new, other)
  <1> DEFINE new == Created(secs, dev)
             at  == Len(secs) + 1
  <1>1. /\ dev.id # "" /\ dev.name # "" /\ dev.name \in Announced
        /\ dev.name \in HexIds => dev.id = dev.name
    BY LegalNames
  <1>2. Len(secs) \in Nat /\ KeyFor(dev) = dev.id
    BY <1>1 DEF Ready, Sections, KeyFor
  <1>3. IsNew(secs, dev)
    BY <1>1, <1>2 DEF IsNew
  <1>4. /\ Len(new) = at
        /\ \A i \in 1 .. Len(secs) : new[i] = secs[i]
        /\ new[at].name = IF dev.name = "" THEN KeyFor(dev) ELSE dev.name
        /\ new[at].id = IF KeyFor(dev) \in HexIds THEN dev.id ELSE ""
    <2>1. FreshAt(secs, dev, new, at)
      BY <1>3, CreatedNew
    <2> QED
      BY Zenon, <2>1 DEF FreshAt
  <1>10. HashedMac(new, at)
    BY <1>3, CreatedNew
  <1>5. /\ at \notin 1 .. Len(secs) /\ Len(secs) <= at
        /\ \A i \in 1 .. at : i \in 1 .. Len(secs) \/ i = at
    BY <1>2
  <1> HIDE DEF new, at
  <1>6. /\ new[at].name = dev.name
        /\ new[at].id = IF dev.id \in HexIds THEN dev.id ELSE ""
    BY <1>1, <1>2, <1>4
  <1>7. NamedRight(new)
    <2>1. new[at].name \in HexIds => new[at].id \in {"", new[at].name}
      BY <1>1, <1>6
    <2>2. ASSUME NEW i \in 1 .. Len(new)
          PROVE  /\ new[i].name \in Written \cup Announced /\ new[i].name # ""
                 /\ new[i].name \in HexIds => new[i].id \in {"", new[i].name}
      BY <1>1, <1>4, <1>5, <1>6, <2>1 DEF NamedRight
    <2> QED
      BY <2>2, Zenon DEF NamedRight
  <1>8. SameKeys(secs, new)
    BY <1>4, <1>5 DEF SameKeys
  <1>9. ASSUME NEW other, Legal(other), other.id # dev.id PROVE StillMatch(secs, new, other)
    <2>1. ~ById(new[at], other)
      BY <1>6, <1>9 DEF ById
    <2>2. ASSUME other.id \in HexIds PROVE new[at].mac # fakeMacFor(other.id)
      <3>1. KeyOf(new[at]) \in {dev.id, dev.name}
        BY <1>6 DEF KeyOf
      <3>2. KeyOf(new[at]) # other.id
        <4>1. dev.name = other.id => dev.id = other.id
          BY <1>1, <2>2
        <4> QED
          BY <1>9, <3>1, <4>1
      <3>3. HashOf[KeyOf(new[at])] # HashOf[other.id]
        BY <1>9, <2>2, <3>1, <3>2, LegalHash
      <3> DEFINE a == HashOf[KeyOf(new[at])]
                 b == HashOf[other.id]
      <3>4. PICK n : new[at].mac = << a, n >>
        BY <1>10, Zenon DEF HashedMac
      <3>5. fakeMacFor(other.id) = << b, 1 >>
        BY DEF fakeMacFor
      <3>6. a # b
        BY <3>3
      <3> HIDE DEF a, b
      <3>7. << a, n >> # << b, 1 >>
        BY <3>6
      <3> QED
        BY <3>4, <3>5, <3>7
    <2>3. ~ByMac(new[at], other)
      BY <2>2 DEF ByMac
    <2> QED
      BY <1>4, <1>5, <2>1, <2>3, Zenon DEF StillMatch
  <1> QED
    BY <1>4, <1>6, <1>7, <1>8, <1>9 DEF new, at

\* A device under the key of a section, as a static player is announced.
OwnKey(secs, dev) == \E j \in 1 .. Len(secs) : dev.id = KeyOf(secs[j])

LEMMA OwnKeyFound ==
    ASSUME NEW secs, Sections(secs), NamedRight(secs), NEW dev, OwnKey(secs, dev)
    PROVE  dev.id # "" /\ findSection(secs, dev.id) # 0
  <1>1. PICK j \in 1 .. Len(secs) : dev.id = KeyOf(secs[j])
    BY DEF OwnKey
  <1>2. \/ secs[j].id # "" /\ dev.id = secs[j].id
        \/ dev.id = secs[j].name
    BY <1>1 DEF KeyOf
  <1>3. dev.id # ""
    BY <1>2 DEF NamedRight
  <1>4. findSection(secs, dev.id) = 0 <=>
          \A i \in 1 .. Len(secs) :
             secs[i].name # dev.id /\ ~ (secs[i].id # "" /\ secs[i].id = dev.id)
    BY FindSection
  <1> QED
    BY <1>2, <1>3, <1>4

LEMMA ResolveWays ==
    ASSUME NEW secs, NEW dev, NEW auto \in BOOLEAN
    PROVE  /\ Match(secs, dev) # 0 => ResolvedAt(secs, dev, auto) = Match(secs, dev)
           /\ Match(secs, dev) = 0 /\ auto =>
                /\ resolve(secs, dev, auto) = Created(secs, dev)
                /\ ResolvedAt(secs, dev, auto) = CreatedAt(secs, dev)
           /\ Match(secs, dev) = 0 /\ ~auto =>
                resolve(secs, dev, auto) = secs /\ ResolvedAt(secs, dev, auto) = 0
  BY DEF resolve, ResolvedAt

\* What resolve() leaves: the sections under their names and keys; the device
\* finds the one resolve() answers with, and every other device its own.
LEMMA ResolveIs ==
    ASSUME NEW secs, Ready(secs), NamedRight(secs), NEW dev,
           Legal(dev) \/ OwnKey(secs, dev), NEW auto \in BOOLEAN
    PROVE  LET new == resolve(secs, dev, auto)
               at  == ResolvedAt(secs, dev, auto)
           IN  /\ NamedRight(new) /\ SameKeys(secs, new)
               /\ at # 0 => at \in 1 .. Len(new)
               /\ Legal(dev) =>
                    /\ at # 0 => Match(new, dev) = at
                    /\ \A other : Legal(other) /\ other.id # dev.id => StillMatch(secs, new, other)
  <1> DEFINE new   == resolve(secs, dev, auto)
             at    == ResolvedAt(secs, dev, auto)
             m     == Match(secs, dev)
             found == findSection(secs, dev.id)
  <1>1. Sections(secs) /\ Len(secs) \in Nat /\ Ready(new) /\ Sections(new)
    BY ResolveKeeps DEF Ready, Sections
  <1>2. dev.id # "" /\ KeyFor(dev) = dev.id
    <2>1. CASE Legal(dev)
      BY <2>1, LegalNames DEF KeyFor
    <2>2. CASE OwnKey(secs, dev)
      BY <1>1, <2>2, OwnKeyFound DEF KeyFor
    <2> QED
      BY <2>1, <2>2
  <1>3. /\ m \in 0 .. Len(secs)
        /\ m = 0 => \A i \in 1 .. Len(secs) : /\ ~ById(secs[i], dev)
                                              /\ ~ByMac(secs[i], dev)
                                              /\ ~ByName(secs[i], dev)
    BY <1>1, MatchMeans, Zenon
  <1>4. CASE m # 0
    <2> DEFINE shown == IF ~secs[m].renamed /\ dev.name # "" THEN dev.name ELSE secs[m].shown
    <2>1. ShownAs(secs, m, shown, new) /\ at = m
      BY <1>4, RefreshedIs, ResolveWays
    <2> HIDE DEF shown, new, m, at
    <2>2. m \in 1 .. Len(secs)
      BY <1>1, <1>3, <1>4
    <2>3. /\ NamedRight(new) /\ SameKeys(secs, new)
          /\ \A d : StillMatch(secs, new, d)
      BY <1>1, <2>1, <2>2, ShownKeeps
    <2>4. Match(new, dev) = at
      BY <1>1, <1>4, <2>1, <2>3, MatchStays DEF m
    <2>5. at \in 1 .. Len(new)
      BY <2>1, <2>2 DEF ShownAs
    <2> QED
      BY <2>3, <2>4, <2>5 DEF new, at
  <1>5. CASE m = 0 /\ ~auto
    <2>1. new = secs /\ at = 0
      BY <1>5, ResolveWays
    <2>2. SameKeys(secs, secs) /\ \A d : StillMatch(secs, secs, d)
      BY <1>1 DEF SameKeys, StillMatch
    <2> HIDE DEF new, at
    <2>3. SameKeys(secs, new) /\ NamedRight(new) /\ \A d : StillMatch(secs, new, d)
      BY <2>1, <2>2
    <2> QED
      BY <2>1, <2>3 DEF new, at
  <1>6. CASE m = 0 /\ auto /\ found # 0
    <2>1. new = Created(secs, dev) /\ at = found
      <3>1. new = Created(secs, dev) /\ at = CreatedAt(secs, dev)
        BY <1>6, ResolveWays
      <3>2. CreatedAt(secs, dev) = found
        BY <1>2, <1>6, Zenon DEF CreatedAt
      <3> QED
        BY <3>1, <3>2
    <2>2. /\ found \in 1 .. Len(secs) /\ secs[found].name = dev.id
          /\ Unbound(secs[found], dev.id)
          /\ GivenId(secs, found, IF dev.id \in HexIds THEN dev.id ELSE secs[found].id,
                     Created(secs, dev))
      BY <1>2, <1>6, FoundNamed DEF Keyed
    <2> HIDE DEF new, at, found
    <2>3. /\ NamedRight(new) /\ SameKeys(secs, new)
          /\ dev.id \in HexIds => new[found].id = dev.id
          /\ \A i \in 1 .. Len(secs) : i # found => new[i] = secs[i]
          /\ \A d : d.id # dev.id => StillMatch(secs, new, d)
      <3> DEFINE key == dev.id
      <3>1. /\ secs[found].name = key /\ Unbound(secs[found], key) /\ found \in 1 .. Len(secs)
            /\ GivenId(secs, found, IF key \in HexIds THEN key ELSE secs[found].id, new)
        BY <2>1, <2>2
      <3> HIDE DEF key
      <3>2. /\ NamedRight(new) /\ SameKeys(secs, new)
            /\ key \in HexIds => new[found].id = key
            /\ \A i \in 1 .. Len(secs) : i # found => new[i] = secs[i]
            /\ \A d : d.id # key => StillMatch(secs, new, d)
        BY <1>1, <3>1, FoundKeeps
      <3> QED
        BY <3>2, Zenon DEF key
    <2>4. ASSUME Legal(dev) PROVE Match(new, dev) = at
      <3>1. dev.id \in HexIds
        <4>1. secs[found].name \in Written \cup Announced
          BY <2>2 DEF NamedRight
        <4>2. dev.name # "" /\ secs[found].name # dev.name
          BY <1>3, <1>6, <2>2, <2>4, LegalNames DEF ByName
        <4> QED
          BY <2>2, <2>4, <4>1, <4>2, LegalNames
      <3>2. ById(new[found], dev)
        BY <1>2, <2>3, <3>1 DEF ById
      <3>3. Len(new) = Len(secs)
        BY <2>1, <2>2 DEF GivenId
      <3>4. \A i \in 1 .. Len(new) : i # found => /\ ~ById(new[i], dev)
                                                  /\ ~ByMac(new[i], dev)
                                                  /\ ~ByName(new[i], dev)
        BY <1>3, <1>6, <2>3, <3>3
      <3> QED
        BY <1>1, <2>1, <2>2, <3>2, <3>3, <3>4, MatchOnly
    <2>5. at \in 1 .. Len(new)
      BY <2>1, <2>2 DEF GivenId
    <2> QED
      BY <2>3, <2>4, <2>5 DEF new, at
  <1>7. CASE m = 0 /\ auto /\ found = 0
    <2>1. Legal(dev)
      BY <1>1, <1>7, OwnKeyFound
    <2> DEFINE last == Len(secs) + 1
    <2>2. new = Created(secs, dev) /\ at = last
      BY <1>2, <1>7, ResolveWays DEF CreatedAt
    <2>3. /\ NamedRight(new) /\ SameKeys(secs, new) /\ Len(new) = last
          /\ \A i \in 1 .. Len(secs) : new[i] = secs[i]
          /\ new[last].name = dev.name
          /\ new[last].id = IF dev.id \in HexIds THEN dev.id ELSE ""
          /\ \A other : Legal(other) /\ other.id # dev.id => StillMatch(secs, new, other)
      <3> HIDE DEF new
      <3> DEFINE made == Created(secs, dev)
      <3>1. found = 0
        BY <1>7
      <3>2. /\ NamedRight(made) /\ SameKeys(secs, made) /\ Len(made) = last
            /\ \A i \in 1 .. Len(secs) : made[i] = secs[i]
            /\ made[last].name = dev.name
            /\ made[last].id = IF dev.id \in HexIds THEN dev.id ELSE ""
            /\ \A other : Legal(other) /\ other.id # dev.id => StillMatch(secs, made, other)
        BY <2>1, <3>1, NewKeeps
      <3>3. new = made
        BY <2>2
      <3> HIDE DEF made, last, at
      <3> QED
        BY <3>2, <3>3, Zenon
    <2>4. last \in 1 .. last /\ \A i \in 1 .. last : i # last => i \in 1 .. Len(secs)
      BY <1>1
    <2> HIDE DEF new, at, found, last
    <2>5. ById(new[last], dev) \/ ByName(new[last], dev)
      <3>1. dev.name # ""
        BY <2>1, LegalNames
      <3> QED
        BY <1>2, <2>3, <3>1 DEF ById, ByName
    <2>6. \A i \in 1 .. Len(new) : i # last => /\ ~ById(new[i], dev)
                                               /\ ~ByMac(new[i], dev)
                                               /\ ~ByName(new[i], dev)
      BY <1>3, <1>7, <2>3, <2>4
    <2>7. Match(new, dev) = last
      BY <1>1, <2>3, <2>4, <2>5, <2>6, MatchOnly
    <2> QED
      BY <2>2, <2>3, <2>4, <2>7 DEF new, at
  <1> QED
    BY <1>4, <1>5, <1>6, <1>7

-----------------------------------------------------------------------------
(* The registry.                                                            *)

\* A device of the registry has its fields, and one of its records.
Recorded(dev) ==
    /\ dev = [name |-> dev.name, host |-> dev.host, raop |-> dev.raop,
              airplay |-> dev.airplay, ap2 |-> dev.ap2]
    /\ dev.raop \in BOOLEAN /\ dev.airplay \in BOOLEAN
    /\ Left(dev)

\* Who a device is to the session manager.
Who(key, dev) == [id |-> key, name |-> dev.name]

DevicesKept == \A k \in DOMAIN devices : Recorded(devices[k]) /\ Legal(Who(k, devices[k]))

\* What an event leaves of the registry: the device as the session manager is
\* told, and every other as it was.
Registry(ev, key, dev) ==
    /\ ev \in {"Added", "Updated", "Removed"}
    /\ Legal(Who(key, dev))
    /\ \A k : k # key => /\ k \in DOMAIN devices' <=> k \in DOMAIN devices
                         /\ k \in DOMAIN devices => devices'[k] = devices[k]
    /\ ev = "Added" <=> key \notin DOMAIN devices
    /\ ev # "Added" => devices[key].name = dev.name
    /\ ev = "Removed" <=> key \notin DOMAIN devices'
    /\ ev # "Removed" => devices'[key] = dev /\ Recorded(dev)

LEMMA RegistryKeeps ==
    ASSUME DevicesKept, NEW ev, NEW key, NEW dev, Registry(ev, key, dev)
    PROVE  DevicesKept'
  <1> SUFFICES ASSUME NEW k \in DOMAIN devices'
               PROVE  Recorded(devices'[k]) /\ Legal(Who(k, devices'[k]))
    BY DEF DevicesKept, Who, Legal, Recorded, Left
  <1>1. CASE k = key
    BY <1>1 DEF Registry
  <1>2. CASE k # key
    BY <1>2 DEF Registry, DevicesKept
  <1> QED
    BY <1>1, <1>2

LEMMA KeyOfRecordIs ==
    ASSUME NEW s \in Services, NEW txt
    PROVE  KeyOfRecord(s, txt) \in KeysOf(s)
  BY DEF KeyOfRecord, KeysOf

\* A device with its fields given.
Fields(name, host, raop, airplay, ap2) ==
    [name |-> name, host |-> host, raop |-> raop, airplay |-> airplay, ap2 |-> ap2]

LEMMA FieldsAre ==
    \A dev, name, host, raop, airplay, ap2 :
        dev = Fields(name, host, raop, airplay, ap2) =>
            /\ dev.name = name /\ dev.host = host
            /\ dev.raop = raop /\ dev.airplay = airplay /\ dev.ap2 = ap2
            /\ dev = [name |-> dev.name, host |-> dev.host, raop |-> dev.raop,
                      airplay |-> dev.airplay, ap2 |-> dev.ap2]
  BY DEF Fields

\* onRaopAdded(), onAirplayAdded() on a device of the service's name.
Before(old, s) ==
    /\ old = Fields(old.name, old.host, old.raop, old.airplay, old.ap2)
    /\ old.raop \in BOOLEAN /\ old.airplay \in BOOLEAN
    /\ old.name \in {"", s.name}

\* The record of a type counts as seen.
SeenAs(dev, type) == IF type = "raop" THEN dev.raop ELSE dev.airplay

LEMMA WithRecordIs ==
    ASSUME NEW s \in Services, NEW old, NEW host, NEW txt, Before(old, s)
    PROVE  /\ Recorded(WithRecord(old, s, host, txt))
           /\ WithRecord(old, s, host, txt).name = s.name
           /\ SeenAs(WithRecord(old, s, host, txt), s.type)
           /\ \A type : SeenAs(old, type) => SeenAs(WithRecord(old, s, host, txt), type)
  <1> DEFINE dev == WithRecord(old, s, host, txt)
             raop == old.raop
             airplay == old.airplay
             yes == TRUE
  <1>1. s.name # ""
    BY NamesAssumption DEF NamedOK
  <1>4. /\ old = Fields(old.name, old.host, raop, airplay, old.ap2)
        /\ raop \in BOOLEAN /\ airplay \in BOOLEAN /\ yes = TRUE
    BY DEF Before
  <1>2. CASE s.type = "raop"
    <2>1. dev = [old EXCEPT !.name = s.name, !.host = host, !.raop = yes]
      BY <1>2 DEF WithRecord
    <2>2. old = Fields(old.name, old.host, raop, airplay, old.ap2)
      BY <1>4
    <2> HIDE DEF dev, raop, airplay, yes
    <2>3. dev = Fields(s.name, host, yes, airplay, old.ap2)
      <3> DEFINE first  == [old EXCEPT !.name = s.name]
                 second == [first EXCEPT !.host = host]
      <3>1. first = Fields(s.name, old.host, raop, airplay, old.ap2)
        BY <2>2 DEF Fields
      <3>2. dev = [second EXCEPT !.raop = yes]
        BY <2>1, Zenon
      <3> HIDE DEF first
      <3>3. second = Fields(s.name, host, raop, airplay, old.ap2)
        BY <3>1 DEF Fields
      <3> HIDE DEF second
      <3> QED
        BY <3>2, <3>3 DEF Fields
    <2>4. /\ dev.name = s.name /\ dev.raop = yes /\ dev.airplay = airplay
          /\ dev = [name |-> dev.name, host |-> dev.host, raop |-> dev.raop,
                    airplay |-> dev.airplay, ap2 |-> dev.ap2]
      BY <2>3, FieldsAre
    <2>5. dev.raop /\ (old.airplay => dev.airplay)
      BY <1>4, <2>4, Zenon DEF dev, yes, airplay
    <2>6. SeenAs(dev, s.type) /\ \A type : SeenAs(old, type) => SeenAs(dev, type)
      BY <1>2, <2>5, Zenon DEF SeenAs
    <2> QED
      BY <1>4, <2>4, <2>6, Zenon DEF Recorded, Left, dev, yes, airplay
  <1>3. CASE s.type # "raop"
    <2> DEFINE name == IF old.name = "" THEN s.name ELSE old.name
               ap2  == IF txt THEN s.ap2 ELSE old.ap2
    <2>1. dev = [old EXCEPT !.name = name, !.host = host, !.airplay = yes, !.ap2 = ap2]
      <3>1. dev = [old EXCEPT !.name = IF @ = "" THEN s.name ELSE @, !.host = host,
                              !.airplay = TRUE, !.ap2 = IF txt THEN s.ap2 ELSE @]
        BY <1>3 DEF WithRecord
      <3>2. old = Fields(old.name, old.host, raop, airplay, old.ap2)
        BY <1>4
      <3> HIDE DEF dev
      <3> QED
        BY <3>1, <3>2, Zenon DEF name, ap2, yes
    <2>2. old = Fields(old.name, old.host, raop, airplay, old.ap2)
      BY <1>4
    <2>3. name = s.name
      BY <1>1 DEF Before
    <2> HIDE DEF dev, raop, airplay, yes, name, ap2
    <2>4. dev = Fields(name, host, raop, yes, ap2)
      <3> DEFINE first  == [old EXCEPT !.name = name]
                 second == [first EXCEPT !.host = host]
                 third  == [second EXCEPT !.airplay = yes]
      <3>1. first = Fields(name, old.host, raop, airplay, old.ap2)
        BY <2>2 DEF Fields
      <3>2. dev = [third EXCEPT !.ap2 = ap2]
        BY <2>1, Zenon
      <3> HIDE DEF first
      <3>3. second = Fields(name, host, raop, airplay, old.ap2)
        BY <3>1 DEF Fields
      <3> HIDE DEF second
      <3>4. third = Fields(name, host, raop, yes, old.ap2)
        BY <3>3 DEF Fields
      <3> HIDE DEF third
      <3> QED
        BY <3>2, <3>4 DEF Fields
    <2>5. /\ dev.name = name /\ dev.raop = raop /\ dev.airplay = yes
          /\ dev = [name |-> dev.name, host |-> dev.host, raop |-> dev.raop,
                    airplay |-> dev.airplay, ap2 |-> dev.ap2]
      BY <2>4, FieldsAre
    <2>6. dev.airplay /\ (old.raop => dev.raop)
      BY <1>4, <2>5, Zenon DEF dev, yes, raop
    <2>7. SeenAs(dev, s.type) /\ \A type : SeenAs(old, type) => SeenAs(dev, type)
      BY <1>3, <2>6, Zenon DEF SeenAs
    <2> QED
      BY <1>4, <2>3, <2>5, <2>7, Zenon DEF Recorded, Left, dev, yes, raop
  <1> QED
    BY <1>2, <1>3

\* The device a record is added to.
LEMMA KnownIs ==
    ASSUME DevicesKept, NEW s \in Services, NEW key \in KeysOf(s)
    PROVE  LET old == Known(devices, key)
           IN  /\ Before(old, s)
               /\ key \in DOMAIN devices => old = devices[key] /\ old.name = s.name
  <1>1. CASE key \in DOMAIN devices
    <2>1. Recorded(devices[key]) /\ Legal(Who(key, devices[key]))
      BY <1>1 DEF DevicesKept
    <2>2. devices[key].name = s.name
      <3>1. PICK t \in Services : key \in KeysOf(t) /\ devices[key].name = t.name
        BY <2>1 DEF Legal, Who
      <3>2. KeysOf(s) \cap KeysOf(t) # {}
        BY <3>1
      <3>3. s.name = t.name
        BY <3>2, NamesAssumption, Zenon
      <3> QED
        BY <3>1, <3>3
    <2>3. Known(devices, key) = devices[key]
      BY <1>1 DEF Known
    <2> QED
      BY <1>1, <2>1, <2>2, <2>3, Zenon DEF Recorded, Fields, Before
  <1>2. CASE key \notin DOMAIN devices
    <2>1. Known(devices, key) = Unseen
      BY <1>2 DEF Known
    <2>2. Unseen = Fields(Unseen.name, Unseen.host, Unseen.raop, Unseen.airplay, Unseen.ap2)
      BY DEF Unseen, Fields
    <2>3. Unseen.name = "" /\ Unseen.raop = FALSE /\ Unseen.airplay = FALSE
      BY DEF Unseen
    <2> QED
      BY <1>2, <2>1, <2>2, <2>3, Zenon DEF Before
  <1> QED
    BY <1>1, <1>2

\* A record is added under its key, and what was seen still is.
Published(s, txt, key, dev) ==
    /\ key = KeyOfRecord(s, txt) /\ dev.name = s.name
    /\ SeenAs(dev, s.type)
    /\ key \in DOMAIN devices => \A type : SeenAs(devices[key], type) => SeenAs(dev, type)

LEMMA RecordAddedIs ==
    ASSUME DevicesKept, NEW s \in Services, NEW t, RecordAdded(s, t)
    PROVE  \E ev, key, dev : /\ Registry(ev, key, dev) /\ OnRegistryEvent(ev, key, dev)
                            /\ ev # "Removed" /\ Published(s, t.txt, key, dev)
  <1> DEFINE key == KeyOfRecord(s, t.txt)
             old == Known(devices, key)
             dev == WithRecord(old, s, t.address, t.txt)
             ev  == IF key \in DOMAIN devices THEN "Updated" ELSE "Added"
  <1>1. devices' = With(devices, key, dev) /\ OnRegistryEvent(ev, key, dev)
    BY DEF RecordAdded
  <1>2. key \in KeysOf(s) /\ key = KeyOfRecord(s, t.txt)
    BY KeyOfRecordIs
  <1> HIDE DEF key
  <1>3. /\ Before(old, s)
        /\ key \in DOMAIN devices => old = devices[key] /\ old.name = s.name
    BY <1>2, KnownIs
  <1> HIDE DEF old
  <1>4. /\ Recorded(dev) /\ dev.name = s.name
        /\ SeenAs(dev, s.type) /\ \A type : SeenAs(old, type) => SeenAs(dev, type)
    BY <1>3, WithRecordIs
  <1> HIDE DEF dev
  <1>5. Legal(Who(key, dev))
    BY <1>2, <1>4 DEF Legal, Who
  <1>6. /\ DOMAIN devices' = DOMAIN devices \cup {key} /\ devices'[key] = dev
        /\ \A k : k # key /\ k \in DOMAIN devices => devices'[k] = devices[k]
    BY <1>1 DEF With
  <1>7. ev \in {"Added", "Updated", "Removed"} /\ ev # "Removed"
        /\ (ev = "Added" <=> key \notin DOMAIN devices)
    OBVIOUS
  <1> HIDE DEF ev
  <1>8. Registry(ev, key, dev)
    BY <1>3, <1>4, <1>5, <1>6, <1>7 DEF Registry
  <1>9. Published(s, t.txt, key, dev)
    BY <1>2, <1>3, <1>4, Zenon DEF Published
  <1> QED
    BY <1>1, <1>7, <1>8, <1>9

\* A record is gone from the device of its instance, the other record stays.
Unpublished(s, ev, key, dev) ==
    /\ key = s.head /\ key \in DOMAIN devices
    /\ \A type \in {"raop", "airplay"} :
        type # s.type /\ SeenAs(devices[key], type) => SeenAs(dev, type)
    /\ ev = "Removed" => ~Left(dev)

LEMMA RecordGoneIs ==
    ASSUME DevicesKept, NEW s \in Services, RecordGone(s)
    PROVE  \/ UNCHANGED << devices, manager >>
           \/ \E ev, key, dev : /\ Registry(ev, key, dev) /\ OnRegistryEvent(ev, key, dev)
                               /\ Unpublished(s, ev, key, dev)
  <1>1. SUFFICES ASSUME s.head \in DOMAIN devices
                 PROVE  \E ev, key, dev : /\ Registry(ev, key, dev) /\ OnRegistryEvent(ev, key, dev)
                                         /\ Unpublished(s, ev, key, dev)
    BY DEF RecordGone
  <1> DEFINE key == s.head
             old == devices[key]
             dev == WithoutRecord(old, s.type)
             ev  == IF Left(dev) THEN "Updated" ELSE "Removed"
  <1>2. /\ devices' = IF Left(dev) THEN With(devices, key, dev) ELSE Without(devices, key)
        /\ OnRegistryEvent(ev, key, dev)
    BY <1>1 DEF RecordGone
  <1> HIDE DEF key
  <1>3. Recorded(old) /\ Legal(Who(key, old)) /\ key \in DOMAIN devices
    BY <1>1 DEF DevicesKept, key
  <1>4. /\ dev.name = old.name
        /\ dev = [name |-> dev.name, host |-> dev.host, raop |-> dev.raop,
                  airplay |-> dev.airplay, ap2 |-> dev.ap2]
        /\ dev.raop \in BOOLEAN /\ dev.airplay \in BOOLEAN
        /\ s.type = "raop" => (old.airplay => dev.airplay)
        /\ s.type # "raop" => (old.raop => dev.raop)
    <2> DEFINE raop == old.raop
               airplay == old.airplay
               no == FALSE
    <2>1. old = Fields(old.name, old.host, raop, airplay, old.ap2)
      BY <1>3, Zenon DEF Recorded, Fields
    <2> DEFINE one == s.type = "raop"
    <2>2. \/ one /\ dev = [old EXCEPT !.raop = no]
          \/ ~one /\ dev = [old EXCEPT !.airplay = no]
      BY DEF WithoutRecord
    <2>3. raop \in BOOLEAN /\ airplay \in BOOLEAN /\ no \in BOOLEAN
      BY <1>3, Zenon DEF Recorded
    <2> HIDE DEF old, dev, raop, airplay, no, one
    <2>4. \/ one /\ dev = Fields(old.name, old.host, no, airplay, old.ap2)
          \/ ~one /\ dev = Fields(old.name, old.host, raop, no, old.ap2)
      BY <2>1, <2>2 DEF Fields
    <2>5. /\ dev.name = old.name
          /\ dev = [name |-> dev.name, host |-> dev.host, raop |-> dev.raop,
                    airplay |-> dev.airplay, ap2 |-> dev.ap2]
          /\ \/ one /\ dev.raop = no /\ dev.airplay = airplay
             \/ ~one /\ dev.raop = raop /\ dev.airplay = no
      BY <2>4, FieldsAre
    <2>6. /\ one => (old.airplay => dev.airplay)
          /\ ~one => (old.raop => dev.raop)
      BY <2>5, Zenon DEF raop, airplay
    <2> QED
      BY <2>3, <2>5, <2>6, Zenon DEF dev, old, one
  <1> HIDE DEF old, dev
  <1>5. Legal(Who(key, dev))
    BY <1>3, <1>4 DEF Who
  <1>6. Left(dev) => Recorded(dev)
    BY <1>4, Zenon DEF Recorded
  <1>9. \A type \in {"raop", "airplay"} :
            type # s.type /\ SeenAs(devices[key], type) => SeenAs(dev, type)
    <2>1. s.type \in {"raop", "airplay"}
      BY ServicesAssumption DEF ServiceOK
    <2>2. /\ s.type = "raop" => (devices[key].airplay => dev.airplay)
          /\ s.type # "raop" => (devices[key].raop => dev.raop)
      BY <1>4 DEF old
    <2> SUFFICES ASSUME NEW type \in {"raop", "airplay"}, type # s.type,
                        SeenAs(devices[key], type)
                 PROVE  SeenAs(dev, type)
      OBVIOUS
    <2>3. type = "raop" <=> s.type # "raop"
      BY <2>1
    <2> QED
      BY <2>2, <2>3, Zenon DEF SeenAs
  <1>7. CASE Left(dev)
    <2>1. ev = "Updated" /\ devices' = With(devices, key, dev)
      BY <1>2, <1>7
    <2>2. /\ DOMAIN devices' = DOMAIN devices \cup {key} /\ devices'[key] = dev
          /\ \A k : k # key /\ k \in DOMAIN devices => devices'[k] = devices[k]
      BY <2>1 DEF With
    <2> HIDE DEF ev
    <2>3. Registry(ev, key, dev)
      BY <1>3, <1>4, <1>5, <1>6, <1>7, <2>1, <2>2 DEF Registry, old
    <2>4. Unpublished(s, ev, key, dev)
      BY <1>3, <1>9, <2>1, Zenon DEF Unpublished, key
    <2> QED
      BY <1>2, <2>3, <2>4
  <1>8. CASE ~Left(dev)
    <2>1. ev = "Removed" /\ devices' = Without(devices, key)
      BY <1>2, <1>8
    <2>2. /\ DOMAIN devices' = DOMAIN devices \ {key}
          /\ \A k : k # key /\ k \in DOMAIN devices => devices'[k] = devices[k]
      BY <2>1 DEF Without
    <2> HIDE DEF ev
    <2>3. Registry(ev, key, dev)
      BY <1>3, <1>4, <1>5, <2>1, <2>2 DEF Registry, old
    <2>4. Unpublished(s, ev, key, dev)
      BY <1>3, <1>8, <1>9, Zenon DEF Unpublished, key
    <2> QED
      BY <1>2, <2>3, <2>4
  <1> QED
    BY <1>7, <1>8

-----------------------------------------------------------------------------
(* The sessions.                                                            *)

\* A session has its fields.
Playing(mac, playing, missed, target) ==
    [mac |-> mac, playing |-> playing, missed |-> missed, target |-> target]
Player(x) == x = Playing(x.mac, x.playing, x.missed, x.target)

\* A session belongs to a section.
PlayersKept ==
    \A p \in DOMAIN sessions :
        /\ Player(sessions[p])
        /\ \E i \in 1 .. Len(sections) : KeyOf(sections[i]) = p

LEMMA PlayerFields ==
    \A x, mac, playing, missed, target :
        x = Playing(mac, playing, missed, target) =>
            /\ Player(x) /\ x.mac = mac /\ x.playing = playing
            /\ x.missed = missed /\ x.target = target
  BY DEF Playing, Player

\* A session that is made has the target of its device, unless it is pinned.
LEMMA SessionIs ==
    ASSUME NEW sec, NEW dev
    PROVE  /\ Player(Session(sec, dev))
           /\ sec.name \notin Pinned => Session(sec, dev).target = TargetOf(dev)
  <1> DEFINE x == Session(sec, dev)
             target == IF sec.name \in Pinned THEN PinnedTarget ELSE TargetOf(dev)
             no == FALSE
  <1>1. x = Playing(sec.mac, no, no, target)
    BY Zenon DEF Session, Playing
  <1>2. sec.name \notin Pinned => target = TargetOf(dev)
    OBVIOUS
  <1> HIDE DEF x, target, no
  <1>3. Player(x) /\ x.target = target
    BY <1>1, PlayerFields
  <1> QED
    BY <1>2, <1>3 DEF x

\* A new target is taken, or counts as missed.
LEMMA RetargetedIs ==
    ASSUME NEW x, Player(x), NEW target
    PROVE  /\ Player(Retargeted(x, target))
           /\ Retargeted(x, target).missed \/ Retargeted(x, target).target = target
  <1> DEFINE y == Retargeted(x, target)
             missed == x.missed \/ x.target # target
             no == FALSE
  <1>1. x = Playing(x.mac, x.playing, x.missed, x.target)
    BY DEF Player
  <1>2. CASE x.playing
    <2>1. y = [x EXCEPT !.missed = missed]
      BY <1>2, Zenon DEF Retargeted
    <2> HIDE DEF y, missed
    <2>2. y = Playing(x.mac, x.playing, missed, x.target)
      BY <1>1, <2>1 DEF Playing
    <2>3. Player(y) /\ y.missed = missed /\ y.target = x.target
      BY <2>2, PlayerFields
    <2> QED
      BY <2>3, Zenon DEF y, missed
  <1>3. CASE ~x.playing
    <2> DEFINE first == [x EXCEPT !.target = target]
    <2>1. y = [first EXCEPT !.missed = no]
      BY <1>3, Zenon DEF Retargeted
    <2>2. first = Playing(x.mac, x.playing, x.missed, target)
      BY <1>1 DEF Playing
    <2> HIDE DEF y, no, first
    <2>3. y = Playing(x.mac, x.playing, no, target)
      BY <2>1, <2>2 DEF Playing
    <2>4. Player(y) /\ y.target = target
      BY <2>3, PlayerFields
    <2> QED
      BY <2>4, Zenon DEF y
  <1> QED
    BY <1>2, <1>3

\* A device with a record has a target.
LEMMA TargetOfIs ==
    ASSUME NEW dev, Recorded(dev)
    PROVE  TargetOf(dev) # NoTarget
  <1>1. TargetOf(dev) = [host |-> dev.host, port |-> preferredPort(dev), ap2 |-> useAirplay2(dev)]
    BY DEF Recorded, TargetOf
  <1>2. preferredPort(dev) # ""
    BY DEF preferredPort
  <1> DEFINE ap2 == useAirplay2(dev)
             port == preferredPort(dev)
             none == ""
             no == FALSE
  <1>3. NoTarget = [host |-> none, port |-> none, ap2 |-> no]
    BY Zenon DEF NoTarget
  <1> HIDE DEF ap2, port, none, no
  <1>4. TargetOf(dev) = [host |-> dev.host, port |-> port, ap2 |-> ap2] /\ port # none
    BY <1>1, <1>2 DEF ap2, port, none
  <1>5. [host |-> dev.host, port |-> port, ap2 |-> ap2].port = port
        /\ [host |-> none, port |-> none, ap2 |-> no].port = none
    OBVIOUS
  <1> QED
    BY <1>3, <1>4, <1>5, Zenon

\* Nothing but the session of one key changes.
OnlyAt(players, new, key) ==
    \A p : p # key => /\ p \in DOMAIN new <=> p \in DOMAIN players
                      /\ p \in DOMAIN players => new[p] = players[p]

\* What an event for a section makes of the sessions: of the others nothing.
Turned(players, new, ev, sec, dev) ==
    LET key == KeyOf(sec)
    IN  /\ OnlyAt(players, new, key)
        /\ ev = "Removed" => key \notin DOMAIN new
        /\ key \in DOMAIN new =>
             \/ new[key] = Session(sec, dev)
             \/ /\ key \in DOMAIN players /\ new[key] = players[key]
                /\ ev = "Added" \/ sec.name \in Pinned \/ TargetOf(dev) = NoTarget
             \/ /\ key \in DOMAIN players /\ ev = "Updated"
                /\ new[key] = Retargeted(players[key], TargetOf(dev))

LEMMA StartedTurns ==
    ASSUME NEW players, NEW sec, NEW dev
    PROVE  LET key == KeyOf(sec)
               new == Started(players, sec, dev)
           IN  /\ OnlyAt(players, new, key)
               /\ key \in DOMAIN new =>
                    \/ new[key] = Session(sec, dev)
                    \/ key \in DOMAIN players /\ new[key] = players[key]
  <1> DEFINE key == KeyOf(sec)
             new == Started(players, sec, dev)
             val == Session(sec, dev)
  <1>1. new = players \/ new = With(players, key, val)
    BY Zenon DEF Started
  <1> HIDE DEF key, new, val
  <1>2. /\ OnlyAt(players, new, key)
        /\ key \in DOMAIN new =>
             \/ new[key] = val
             \/ key \in DOMAIN players /\ new[key] = players[key]
    BY <1>1 DEF With, OnlyAt
  <1> QED
    BY <1>2, Zenon DEF key, new, val

LEMMA UpdatedTurns ==
    ASSUME NEW players, NEW sec, NEW dev
    PROVE  Turned(players, Updated(players, sec, dev), "Updated", sec, dev)
  <1> DEFINE key  == KeyOf(sec)
             new  == Updated(players, sec, dev)
             keep == \/ key \notin DOMAIN players
                     \/ sec.name \in Pinned
                     \/ TargetOf(dev) = NoTarget
             val  == Retargeted(players[key], TargetOf(dev))
             rest == Without(players, key)
             made == Started(rest, sec, dev)
             fresh == Session(sec, dev)
  <1>1. \/ keep /\ new = players
        \/ ~keep /\ new = [players EXCEPT ![key] = val]
        \/ ~keep /\ new = made
    BY Zenon DEF Updated
  <1>2. /\ OnlyAt(rest, made, key)
        /\ key \in DOMAIN made =>
             \/ made[key] = fresh
             \/ key \in DOMAIN rest /\ made[key] = rest[key]
    BY StartedTurns, Zenon
  <1>3. keep => \/ key \notin DOMAIN players
                \/ sec.name \in Pinned \/ TargetOf(dev) = NoTarget
    OBVIOUS
  <1>4. ~keep => key \in DOMAIN players
    OBVIOUS
  <1> HIDE DEF key, new, keep, val, made, fresh
  <1>5. /\ DOMAIN rest = DOMAIN players \ {key}
        /\ \A p \in DOMAIN players : p # key => rest[p] = players[p]
    BY DEF Without
  <1> HIDE DEF rest
  <1>6. OnlyAt(players, new, key)
    BY <1>1, <1>2, <1>5 DEF OnlyAt
  <1>7. key \in DOMAIN new =>
             \/ new[key] = fresh
             \/ keep /\ key \in DOMAIN players /\ new[key] = players[key]
             \/ key \in DOMAIN players /\ new[key] = val
    BY <1>1, <1>2, <1>4, <1>5
  <1>8. "Updated" # "Removed"
    OBVIOUS
  <1> QED
    BY <1>3, <1>6, <1>7, <1>8, Zenon DEF Turned, key, new, val, fresh

LEMMA EventTurns ==
    ASSUME NEW ev \in {"Added", "Updated", "Removed"}, NEW key, NEW dev,
           OnRegistryEvent(ev, key, dev)
    PROVE  LET who  == Who(key, dev)
               auto == ev = "Added" /\ AutoRegister
               at   == ResolvedAt(sections, who, auto)
           IN  /\ sections' = resolve(sections, who, auto)
               /\ at = 0 => sessions' = sessions
               /\ at # 0 => Turned(sessions, sessions', ev, sections'[at], dev)
  <1> DEFINE who  == Who(key, dev)
             auto == ev = "Added" /\ AutoRegister
             at   == ResolvedAt(sections, who, auto)
             sec  == sections'[at]
  <1>1. /\ sections' = resolve(sections, who, auto)
        /\ sessions' = CASE at = 0         -> sessions
                         [] at # 0 /\ ev = "Removed" -> Without(sessions, KeyOf(sec))
                         [] at # 0 /\ ev = "Updated" -> Updated(sessions, sec, dev)
                         [] at # 0 /\ ev = "Added"   -> Started(sessions, sec, dev)
    BY DEF OnRegistryEvent, Who
  <1> HIDE DEF at, sec, auto, who
  <1>2. /\ at = 0 => sessions' = sessions
        /\ at # 0 /\ ev = "Removed" => sessions' = Without(sessions, KeyOf(sec))
        /\ at # 0 /\ ev = "Updated" => sessions' = Updated(sessions, sec, dev)
        /\ at # 0 /\ ev = "Added" => sessions' = Started(sessions, sec, dev)
    BY <1>1
  <1>3. ASSUME at # 0, ev = "Removed" PROVE Turned(sessions, sessions', ev, sec, dev)
    <2> DEFINE k == KeyOf(sec)
    <2>1. sessions' = Without(sessions, k)
      BY <1>2, <1>3
    <2> HIDE DEF k
    <2>2. /\ OnlyAt(sessions, sessions', k)
          /\ k \notin DOMAIN sessions'
      BY <2>1 DEF Without, OnlyAt
    <2> QED
      BY <2>2, Zenon DEF Turned, k
  <1>4. ASSUME at # 0, ev = "Updated" PROVE Turned(sessions, sessions', ev, sec, dev)
    BY <1>2, <1>4, UpdatedTurns, Zenon
  <1>5. ASSUME at # 0, ev = "Added" PROVE Turned(sessions, sessions', ev, sec, dev)
    <2> DEFINE k == KeyOf(sec)
               new == Started(sessions, sec, dev)
               val == Session(sec, dev)
    <2>1. /\ OnlyAt(sessions, new, k)
          /\ k \in DOMAIN new =>
               \/ new[k] = val
               \/ k \in DOMAIN sessions /\ new[k] = sessions[k]
      BY StartedTurns, Zenon
    <2>2. sessions' = new
      BY <1>2, <1>5
    <2>3. ev # "Removed" /\ ev = "Added"
      BY <1>5
    <2> HIDE DEF k, new, val
    <2> QED
      BY <2>1, <2>2, <2>3, Zenon DEF Turned, k, val
  <1> QED
    BY <1>1, <1>2, <1>3, <1>4, <1>5, Zenon DEF who, auto, at, sec

-----------------------------------------------------------------------------
(* The devices of a player.                                                 *)

\* The device of a key belongs to the player.
Serves(k, p) ==
    /\ k \in DOMAIN devices
    /\ Match(sections, Who(k, devices[k])) # 0
    /\ KeyOf(sections[Match(sections, Who(k, devices[k]))]) = p

\* A session is as TargetsCurrent has it.
Current(p) ==
    \/ sessions[p].target = NoTarget
    \/ \E k : Serves(k, p) /\ (sessions[p].missed \/ sessions[p].target = TargetOf(devices[k]))

LEMMA CurrentIs ==
    /\ TargetsCurrent <=> \A p \in DOMAIN sessions \ Pins : Current(p)
    /\ TargetsCurrent' <=> \A p \in (DOMAIN sessions \ Pins)' : Current(p)'
  BY DEF TargetsCurrent, Current, DevicesOf, Serves, Who

\* A section that was pinned is.
LEMMA PinsStay ==
    ASSUME Sections(sections), Sections(sections'), SameKeys(sections, sections')
    PROVE  /\ \A p \in Pins : p \in Pins'
           /\ \A i \in 1 .. Len(sections') :
                sections'[i].name \in Pinned => KeyOf(sections'[i]) \in Pins'
  <1>1. /\ DOMAIN sections = 1 .. Len(sections) /\ DOMAIN sections' = 1 .. Len(sections')
        /\ Len(sections) \in Nat /\ Len(sections') \in Nat
        /\ Len(sections) <= Len(sections')
    BY DEF Sections, SameKeys
  <1>2. \A i \in 1 .. Len(sections) : i \in 1 .. Len(sections')
    BY <1>1
  <1>3. \A p : p \in Pins <=> \E i \in 1 .. Len(sections) :
                                  sections[i].name \in Pinned /\ p = KeyOf(sections[i])
    BY <1>1, Zenon DEF Pins
  <1>4. \A p : p \in Pins' <=> \E i \in 1 .. Len(sections') :
                                  sections'[i].name \in Pinned /\ p = KeyOf(sections'[i])
    BY <1>1, Zenon DEF Pins
  <1>5. \A i \in 1 .. Len(sections) :
            /\ KeyOf(sections'[i]) = KeyOf(sections[i])
            /\ sections'[i].name = sections[i].name
    BY Zenon DEF SameKeys
  <1>6. ASSUME NEW p \in Pins PROVE p \in Pins'
    <2>1. PICK i \in 1 .. Len(sections) : sections[i].name \in Pinned /\ p = KeyOf(sections[i])
      BY <1>3, Zenon
    <2> QED
      BY <1>2, <1>4, <1>5, <2>1, Zenon
  <1> QED
    BY <1>4, <1>6, Zenon

\* What an event of a device leaves of the sections: every other device that
\* belongs to a player does.
Resolved(key) ==
    /\ SameKeys(sections, sections')
    /\ \A other : Legal(other) /\ other.id # key => StillMatch(sections, sections', other)

LEMMA OthersServe ==
    ASSUME Sections(sections), Sections(sections'), DevicesKept, NEW ev, NEW key, NEW dev,
           Registry(ev, key, dev), Resolved(key), NEW k, NEW p, Serves(k, p), k # key
    PROVE  Serves(k, p)' /\ devices'[k] = devices[k]
  <1> DEFINE who == Who(k, devices[k])
             m   == Match(sections, who)
  <1>1. k \in DOMAIN devices /\ Legal(who) /\ m # 0 /\ KeyOf(sections[m]) = p
    BY DEF Serves, DevicesKept
  <1>2. k \in DOMAIN devices' /\ devices'[k] = devices[k]
    BY <1>1 DEF Registry
  <1>3. Who(k, devices'[k]) = who /\ who.id = k
    BY <1>2 DEF Who
  <1>4. m \in 1 .. Len(sections)
    <2>1. m \in 0 .. Len(sections) /\ Len(sections) \in Nat
      BY MatchMeans, Zenon DEF Sections
    <2> HIDE DEF m
    <2> QED
      BY <1>1, <2>1
  <1>5. StillMatch(sections, sections', who)
    <2> HIDE DEF who
    <2> QED
      BY <1>1, <1>3, Zenon DEF Resolved
  <1>6. Match(sections', who) = m
    BY <1>1, <1>5, MatchStays
  <1> HIDE DEF who, m
  <1>7. KeyOf(sections'[m]) = KeyOf(sections[m])
    BY <1>4, Zenon DEF Resolved, SameKeys
  <1> QED
    BY <1>1, <1>2, <1>3, <1>6, <1>7 DEF Serves

\* The sessions keep their sections.
LEMMA PlayersStay ==
    ASSUME PlayersKept, Sections(sections), SameKeys(sections, sections'),
           NEW ev, NEW at, NEW dev,
           at # 0 => at \in 1 .. Len(sections'),
           at = 0 => sessions' = sessions,
           at # 0 => Turned(sessions, sessions', ev, sections'[at], dev),
           Sections(sections')
    PROVE  PlayersKept'
  <1> DEFINE sec == sections'[at]
  <1>1. /\ at = 0 => sessions' = sessions
        /\ at # 0 => Turned(sessions, sessions', ev, sec, dev)
    OBVIOUS
  <1>2. at # 0 => at \in 1 .. Len(sections')
    OBVIOUS
  <1> HIDE DEF sec
  <1> SUFFICES ASSUME NEW p \in DOMAIN sessions'
               PROVE  /\ Player(sessions'[p])
                      /\ \E i \in 1 .. Len(sections') : KeyOf(sections'[i]) = p
    BY DEF PlayersKept
  <1>3. ASSUME p \in DOMAIN sessions
        PROVE  \E i \in 1 .. Len(sections') : KeyOf(sections'[i]) = p
    <2>1. PICK i \in 1 .. Len(sections) : KeyOf(sections[i]) = p
      BY <1>3, Zenon DEF PlayersKept
    <2>2. i \in 1 .. Len(sections')
      <3>1. Len(sections) <= Len(sections') /\ Len(sections) \in Nat /\ Len(sections') \in Nat
        BY DEF SameKeys, Sections
      <3> QED
        BY <3>1
    <2>3. KeyOf(sections'[i]) = p
      BY <2>1, Zenon DEF SameKeys
    <2> QED
      BY <2>2, <2>3
  <1>4. ASSUME p \in DOMAIN sessions, sessions'[p] = sessions[p]
        PROVE  Player(sessions'[p])
    BY <1>4, Zenon DEF PlayersKept
  <1>5. CASE at = 0
    BY <1>1, <1>3, <1>4, <1>5
  <1>6. CASE at # 0 /\ p # KeyOf(sec)
    <2>1. p \in DOMAIN sessions /\ sessions'[p] = sessions[p]
      BY <1>1, <1>6, Zenon DEF Turned, OnlyAt
    <2> QED
      BY <1>3, <1>4, <2>1
  <1>7. CASE at # 0 /\ p = KeyOf(sec)
    <2>1. \E i \in 1 .. Len(sections') : KeyOf(sections'[i]) = p
      BY <1>2, <1>7, Zenon DEF sec
    <2>2. \/ sessions'[p] = Session(sec, dev)
          \/ p \in DOMAIN sessions /\ sessions'[p] = sessions[p]
          \/ p \in DOMAIN sessions /\ sessions'[p] = Retargeted(sessions[p], TargetOf(dev))
      BY <1>1, <1>7, Zenon DEF Turned
    <2>3. Player(Session(sec, dev))
      BY SessionIs
    <2>4. p \in DOMAIN sessions => Player(Retargeted(sessions[p], TargetOf(dev)))
      BY RetargetedIs, Zenon DEF PlayersKept
    <2> QED
      BY <1>4, <2>1, <2>2, <2>3, <2>4
  <1> QED
    BY <1>5, <1>6, <1>7

\* The event of a device, as the sessions see it.
LEMMA EventTargets ==
    ASSUME Assigned(sections), NamedRight(sections), DevicesKept, PlayersKept, TargetsCurrent,
           NEW ev, NEW key, NEW dev, Registry(ev, key, dev), OnRegistryEvent(ev, key, dev)
    PROVE  /\ NamedRight(sections') /\ PlayersKept' /\ TargetsCurrent'
           /\ SameKeys(sections, sections')
  <1> DEFINE who  == Who(key, dev)
             auto == ev = "Added" /\ AutoRegister
             at   == ResolvedAt(sections, who, auto)
             sec  == sections'[at]
  <1>1. /\ sections' = resolve(sections, who, auto)
        /\ at = 0 => sessions' = sessions
        /\ at # 0 => Turned(sessions, sessions', ev, sec, dev)
    <2>1. ev \in {"Added", "Updated", "Removed"}
      BY DEF Registry
    <2> QED
      BY <2>1, EventTurns
  <1>2. Sections(sections) /\ Ready(sections) /\ Sections(sections')
    BY EventKeeps DEF Assigned, Ready
  <1>3. Legal(who) /\ auto \in BOOLEAN /\ who.id = key /\ who.name = dev.name
    BY DEF Registry, Who
  <1>4. ev # "Added" => ~auto
    OBVIOUS
  <1>5. ResolvedAt(sections, who, auto) = at
    OBVIOUS
  <1> HIDE DEF who, auto, at
  <1>6. /\ NamedRight(sections') /\ SameKeys(sections, sections')
        /\ at # 0 => at \in 1 .. Len(sections') /\ Match(sections', who) = at
        /\ \A other : Legal(other) /\ other.id # key => StillMatch(sections, sections', other)
    BY <1>1, <1>2, <1>3, <1>5, ResolveIs
  <1>7. Resolved(key)
    BY <1>6, Zenon DEF Resolved
  <1> HIDE DEF sec
  <1>8. PlayersKept'
    BY <1>1, <1>2, <1>6, PlayersStay DEF sec
  <1>9. ASSUME NEW p \in DOMAIN sessions', p \notin Pins' PROVE Current(p)'
    <2>1. p \notin Pins
      BY <1>2, <1>6, <1>9, PinsStay
    <2>2. ASSUME p \in DOMAIN sessions, sessions'[p] = sessions[p],
                 \A k : Serves(k, p) => k # key
          PROVE  Current(p)'
      <3>1. Current(p)
        BY <2>1, <2>2, CurrentIs
      <3>2. CASE sessions[p].target = NoTarget
        BY <2>2, <3>2, Zenon DEF Current
      <3>3. CASE \E k : /\ Serves(k, p)
                        /\ sessions[p].missed \/ sessions[p].target = TargetOf(devices[k])
        <4>1. PICK k : /\ Serves(k, p)
                       /\ sessions[p].missed \/ sessions[p].target = TargetOf(devices[k])
          BY <3>3
        <4>2. Serves(k, p)' /\ devices'[k] = devices[k]
          BY <1>2, <1>7, <2>2, <4>1, OthersServe
        <4>3. sessions'[p].missed \/ sessions'[p].target = TargetOf(devices'[k])
          BY <2>2, <4>1, <4>2, Zenon
        <4>4. Serves(k, p)' /\ (sessions'[p].missed \/ sessions'[p].target = TargetOf(devices[k]'))
          BY <4>2, <4>3
        <4> QED
          BY <4>4, Zenon DEF Current
      <3> QED
        BY <3>1, <3>2, <3>3 DEF Current
    <2>3. ASSUME Serves(key, p) PROVE at # 0 /\ p = KeyOf(sec) /\ ev # "Added"
      <3>1. key \in DOMAIN devices /\ ev # "Added" /\ devices[key].name = dev.name
        BY <2>3 DEF Serves, Registry
      <3>2. Who(key, devices[key]) = who
        BY <3>1 DEF Who, who
      <3>3. Match(sections, who) # 0 /\ KeyOf(sections[Match(sections, who)]) = p
        BY <2>3, <3>2 DEF Serves
      <3>4. at = Match(sections, who)
        BY <1>3, <1>5, <3>3, ResolveWays
      <3>5. at \in 0 .. Len(sections) /\ Len(sections) \in Nat
        BY <1>2, <3>4, MatchMeans DEF Sections
      <3>6. at \in 1 .. Len(sections)
        BY <3>3, <3>4, <3>5
      <3>7. KeyOf(sections'[at]) = KeyOf(sections[at])
        BY <1>6, <3>6, Zenon DEF SameKeys
      <3> QED
        BY <3>1, <3>3, <3>4, <3>7 DEF sec
    <2>4. CASE at = 0
      BY <1>1, <2>2, <2>3, <2>4
    <2>5. CASE at # 0 /\ p # KeyOf(sec)
      <3>1. p \in DOMAIN sessions /\ sessions'[p] = sessions[p]
        BY <1>1, <2>5, Zenon DEF Turned, OnlyAt
      <3> QED
        BY <2>2, <2>3, <2>5, <3>1
    <2>6. CASE at # 0 /\ p = KeyOf(sec)
      <3>1. /\ ev # "Removed"
            /\ \/ sessions'[p] = Session(sec, dev)
               \/ /\ p \in DOMAIN sessions /\ sessions'[p] = sessions[p]
                  /\ ev = "Added" \/ sec.name \in Pinned \/ TargetOf(dev) = NoTarget
               \/ p \in DOMAIN sessions /\ sessions'[p] = Retargeted(sessions[p], TargetOf(dev))
        BY <1>1, <2>6, Zenon DEF Turned
      <3>2. sec.name \notin Pinned
        BY <1>2, <1>6, <1>9, <2>6, PinsStay, Zenon DEF sec
      <3>3. devices'[key] = dev /\ key \in DOMAIN devices' /\ TargetOf(dev) # NoTarget
        BY <3>1, TargetOfIs DEF Registry
      <3>4. Serves(key, p)'
        <4>1. Who(key, devices'[key]) = who
          BY <3>3 DEF who
        <4>2. Match(sections', who) # 0 /\ KeyOf(sections'[Match(sections', who)]) = p
          BY <1>6, <2>6 DEF sec
        <4> QED
          BY <3>3, <4>1, <4>2 DEF Serves
      <3>5. ASSUME sessions'[p].missed \/ sessions'[p].target = TargetOf(dev) PROVE Current(p)'
        <4>1. Serves(key, p)' /\ (sessions'[p].missed \/ sessions'[p].target = TargetOf(devices[key]'))
          BY <3>3, <3>4, <3>5
        <4> QED
          BY <4>1, Zenon DEF Current
      <3>6. CASE sessions'[p] = Session(sec, dev)
        <4>1. Session(sec, dev).target = TargetOf(dev)
          BY <3>2, SessionIs
        <4> QED
          BY <3>5, <3>6, <4>1
      <3>7. CASE p \in DOMAIN sessions /\ sessions'[p] = sessions[p] /\ ev = "Added"
        BY <2>2, <2>3, <3>7
      <3>8. CASE p \in DOMAIN sessions /\ sessions'[p] = Retargeted(sessions[p], TargetOf(dev))
        <4>1. Player(sessions[p])
          BY <3>8, Zenon DEF PlayersKept
        <4>2. \/ Retargeted(sessions[p], TargetOf(dev)).missed
              \/ Retargeted(sessions[p], TargetOf(dev)).target = TargetOf(dev)
          BY <4>1, RetargetedIs, Zenon
        <4> QED
          BY <3>5, <3>8, <4>2
      <3> QED
        BY <3>1, <3>2, <3>3, <3>6, <3>7, <3>8, Zenon
    <2> QED
      BY <2>4, <2>5, <2>6
  <1>10. TargetsCurrent'
    BY <1>9, CurrentIs
  <1> QED
    BY <1>6, <1>8, <1>10

-----------------------------------------------------------------------------
(* The static players.                                                      *)

\* A device for every section the user wrote and left enabled.
StaticsOf(secs) == { StaticDevice(secs[i]) : i \in 1 .. Len(secs) }

\* The concatenation of sequences of at most one element each.
LEMMA OneEach ==
    ASSUME NEW S, NEW seqs, NEW n \in Nat, DOMAIN seqs = 1 .. n,
           seqs = [i \in 1 .. n |-> seqs[i]],
           \A i \in 1 .. n : seqs[i] = << >> \/ \E x \in S : seqs[i] = << x >>
    PROVE  FlattenSeq(seqs) \in Seq(S)
  <1>1. \A i \in 1 .. n : seqs[i] \in Seq(S)
    <2>1. << >> \in Seq(S) /\ \A x \in S : << x >> \in Seq(S)
      OBVIOUS
    <2> QED
      BY <2>1
  <1>2. seqs \in Seq(Seq(S)) /\ Len(seqs) = n
    <2>1. seqs \in [1 .. n -> Seq(S)]
      BY <1>1
    <2> QED
      BY <2>1
  <1>3. n \in 0 .. n
    OBVIOUS
  <1>4. /\ \A m \in 0 .. Len(seqs) : Flattened(seqs, m) \in Seq(S)
        /\ FlattenSeq(seqs) = Flattened(seqs, Len(seqs))
    BY <1>2, FlattenedGrows, Zenon
  <1>5. Flattened(seqs, n) \in Seq(S)
    BY <1>2, <1>3, <1>4, Zenon
  <1> QED
    BY <1>2, <1>4, <1>5, Zenon

LEMMA StaticsAre ==
    ASSUME NEW secs, Sections(secs)
    PROVE  staticPlayers(Enabled(secs)) \in Seq(StaticsOf(secs))
  <1> DEFINE ones == [i \in DOMAIN secs |->
                         IF secs[i].name \in Disabled THEN << >> ELSE << secs[i] >>]
             S    == { secs[i] : i \in 1 .. Len(secs) }
             T    == StaticsOf(secs)
             on   == Enabled(secs)
             devs == [i \in DOMAIN on |->
                         IF on[i].auto THEN << >> ELSE << StaticDevice(on[i]) >>]
  <1>1. DOMAIN secs = 1 .. Len(secs) /\ Len(secs) \in Nat
    BY DEF Sections
  <1>2. on \in Seq(S)
    <2>1. /\ DOMAIN ones = 1 .. Len(secs) /\ ones = [i \in 1 .. Len(secs) |-> ones[i]]
          /\ \A i \in 1 .. Len(secs) : ones[i] = << >> \/ \E x \in S : ones[i] = << x >>
      BY <1>1
    <2>2. on = FlattenSeq(ones)
      BY DEF Enabled
    <2> HIDE DEF ones, on, S
    <2> QED
      BY <1>1, <2>1, <2>2, OneEach
  <1>3. \A x \in S : StaticDevice(x) \in T
    BY DEF StaticsOf
  <1> HIDE DEF on, S, T
  <1>4. DOMAIN on = 1 .. Len(on) /\ Len(on) \in Nat /\ \A i \in 1 .. Len(on) : on[i] \in S
    BY <1>2
  <1>5. /\ DOMAIN devs = 1 .. Len(on) /\ devs = [i \in 1 .. Len(on) |-> devs[i]]
        /\ \A i \in 1 .. Len(on) : devs[i] = << >> \/ \E x \in T : devs[i] = << x >>
    BY <1>3, <1>4
  <1>6. staticPlayers(on) = FlattenSeq(devs)
    BY DEF staticPlayers
  <1> HIDE DEF devs
  <1>7. staticPlayers(on) \in Seq(T)
    BY <1>4, <1>5, <1>6, OneEach
  <1> QED
    BY <1>7 DEF on, T

\* The static players are started before any receiver is known, each under the
\* key of its section.
Statics == StaticsOf(AssignAll(Authored))

StaticsKept ==
    /\ main \in {"statics", "start"} => DOMAIN devices = {}
    /\ starting \in Seq(Statics)
    /\ \A d \in Statics : OwnKey(sections, d)

LEMMA StaticsOwn ==
    ASSUME NEW secs, Sections(secs)
    PROVE  \A d \in StaticsOf(secs) : OwnKey(secs, d)
  <1>1. \A i \in 1 .. Len(secs) : StaticDevice(secs[i]).id = KeyOf(secs[i])
    BY DEF StaticDevice
  <1> QED
    BY <1>1 DEF StaticsOf, OwnKey

\* Sections that stay under their keys are found under them.
LEMMA OwnKeyStays ==
    ASSUME NEW secs, NEW new, Sections(secs), Sections(new), SameKeys(secs, new), NEW dev,
           OwnKey(secs, dev)
    PROVE  OwnKey(new, dev)
  <1>1. PICK j \in 1 .. Len(secs) : dev.id = KeyOf(secs[j])
    BY DEF OwnKey
  <1>2. j \in 1 .. Len(new)
    BY <1>1 DEF SameKeys, Sections
  <1>3. dev.id = KeyOf(new[j])
    BY <1>1, Zenon DEF SameKeys
  <1> QED
    BY <1>2, <1>3 DEF OwnKey

\* A static player waits for a target.
LEMMA StaticTargets ==
    ASSUME Assigned(sections), NamedRight(sections), PlayersKept, TargetsCurrent,
           DOMAIN devices = {}, devices' = devices, NEW d, OwnKey(sections, d),
           OnRegistryEvent("Added", d.id, [Unseen EXCEPT !.name = d.name])
    PROVE  /\ NamedRight(sections') /\ PlayersKept' /\ TargetsCurrent'
           /\ SameKeys(sections, sections')
  <1> DEFINE ev   == "Added"
             dev  == [Unseen EXCEPT !.name = d.name]
             who  == Who(d.id, dev)
             auto == ev = "Added" /\ AutoRegister
             at   == ResolvedAt(sections, who, auto)
             sec  == sections'[at]
  <1>1. /\ sections' = resolve(sections, who, auto)
        /\ at = 0 => sessions' = sessions
        /\ at # 0 => Turned(sessions, sessions', ev, sec, dev)
    <2>1. ev \in {"Added", "Updated", "Removed"} /\ OnRegistryEvent(ev, d.id, dev)
      OBVIOUS
    <2> HIDE DEF ev, dev
    <2> QED
      BY <2>1, EventTurns
  <1>2. Sections(sections) /\ Ready(sections) /\ Sections(sections')
    BY EventKeeps DEF Assigned, Ready
  <1>3. OwnKey(sections, who) /\ auto \in BOOLEAN
    BY DEF OwnKey, Who
  <1>4. TargetOf(dev) = NoTarget
    <2>1. dev.raop = FALSE /\ dev.airplay = FALSE
      BY DEF Unseen
    <2> HIDE DEF dev
    <2> QED
      BY <2>1, Zenon DEF TargetOf, Left
  <1>5. ResolvedAt(sections, who, auto) = at /\ ev # "Removed" /\ ev # "Updated"
    OBVIOUS
  <1> HIDE DEF who, auto, at, dev, ev
  <1>6. /\ NamedRight(sections') /\ SameKeys(sections, sections')
        /\ at # 0 => at \in 1 .. Len(sections')
    BY <1>1, <1>2, <1>3, <1>5, ResolveIs
  <1>7. PlayersKept'
    BY <1>1, <1>2, <1>6, PlayersStay DEF sec
  <1> HIDE DEF sec
  <1>8. ASSUME NEW p \in DOMAIN sessions', p \notin Pins' PROVE sessions'[p].target = NoTarget
    <2>1. p \notin Pins
      BY <1>2, <1>6, <1>8, PinsStay
    <2>2. p \in DOMAIN sessions => sessions[p].target = NoTarget
      <3>1. \A k : ~Serves(k, p)
        BY DEF Serves
      <3> QED
        BY <2>1, <3>1, CurrentIs DEF Current
    <2>3. CASE at = 0
      BY <1>1, <2>2, <2>3
    <2>4. CASE at # 0 /\ p # KeyOf(sec)
      <3>1. p \in DOMAIN sessions /\ sessions'[p] = sessions[p]
        BY <1>1, <2>4, Zenon DEF Turned, OnlyAt
      <3> QED
        BY <2>2, <3>1
    <2>5. CASE at # 0 /\ p = KeyOf(sec)
      <3>1. \/ sessions'[p] = Session(sec, dev)
            \/ p \in DOMAIN sessions /\ sessions'[p] = sessions[p]
        BY <1>1, <1>5, <2>5, Zenon DEF Turned
      <3>2. sec.name \notin Pinned
        BY <1>2, <1>6, <1>8, <2>5, PinsStay, Zenon DEF sec
      <3>3. Session(sec, dev).target = NoTarget
        BY <1>4, <3>2, SessionIs
      <3> QED
        BY <2>2, <3>1, <3>3
    <2> QED
      BY <2>3, <2>4, <2>5
  <1>9. TargetsCurrent'
    <2>1. \A p \in (DOMAIN sessions \ Pins)' : Current(p)'
      BY <1>8 DEF Current
    <2> QED
      BY <2>1, CurrentIs
  <1> QED
    BY <1>6, <1>7, <1>9

-----------------------------------------------------------------------------
(* The steps, as the sessions see them.                                     *)

Players == NamedRight(sections) /\ DevicesKept /\ PlayersKept /\ TargetsCurrent /\ StaticsKept

\* The bridge's thread does not return to its start.
Onward == main' \in {"statics", "start"} => main \in {"statics", "start"}

LEMMA PlayersSame ==
    ASSUME Players, UNCHANGED << devices, sections, sessions, starting >>, Onward
    PROVE  Players'
  <1>1. NamedRight(sections)'
    BY DEF Players, NamedRight
  <1>2. DevicesKept'
    BY DEF Players, DevicesKept
  <1>3. PlayersKept'
    BY DEF Players, PlayersKept
  <1>4. TargetsCurrent'
    BY DEF Players, TargetsCurrent, DevicesOf, Pins
  <1>5. StaticsKept'
    BY DEF Players, StaticsKept, Onward
  <1> QED
    BY <1>1, <1>2, <1>3, <1>4, <1>5 DEF Players

\* What the events of a step leave of them.
LEMMA EventKeepsPlayers ==
    ASSUME Assigned(sections), Players, main \notin {"statics", "start"},
           main' = main, starting' = starting,
           \/ UNCHANGED << devices, manager >>
           \/ \E ev, key, dev : Registry(ev, key, dev) /\ OnRegistryEvent(ev, key, dev)
    PROVE  Players'
  <1>1. CASE UNCHANGED << devices, manager >>
    BY <1>1, PlayersSame DEF manager, Onward
  <1>2. CASE \E ev, key, dev : Registry(ev, key, dev) /\ OnRegistryEvent(ev, key, dev)
    <2>1. PICK ev, key, dev : Registry(ev, key, dev) /\ OnRegistryEvent(ev, key, dev)
      BY <1>2
    <2>2. /\ NamedRight(sections)' /\ PlayersKept' /\ TargetsCurrent'
          /\ SameKeys(sections, sections')
      BY <2>1, EventTargets DEF Players, NamedRight
    <2>3. DevicesKept'
      BY <2>1, RegistryKeeps DEF Players
    <2>4. Sections(sections) /\ Sections(sections')
      BY <2>1, EventKeeps DEF Assigned, Ready
    <2>5. StaticsKept'
      <3>1. starting \in Seq(Statics) /\ \A d \in Statics : OwnKey(sections, d)
        BY DEF Players, StaticsKept
      <3>2. \A d \in Statics : OwnKey(sections', d)
        BY <2>2, <2>4, <3>1, OwnKeyStays
      <3>3. \A d \in Statics : OwnKey(sections, d)'
        BY <3>2 DEF OwnKey
      <3> QED
        BY <3>1, <3>3 DEF StaticsKept
    <2> QED
      BY <2>2, <2>3, <2>5 DEF Players
  <1> QED
    BY <1>1, <1>2

LEMMA RecordKeepsPlayers ==
    ASSUME Assigned(sections), Players, main \notin {"statics", "start"}, NEW s \in Services, NEW t,
           main' = main, starting' = starting,
           RecordAdded(s, t) \/ RecordGone(s) \/ UNCHANGED << devices, manager >>
    PROVE  Players'
  <1>1. \/ UNCHANGED << devices, manager >>
        \/ \E ev, key, dev : Registry(ev, key, dev) /\ OnRegistryEvent(ev, key, dev)
    BY RecordAddedIs, RecordGoneIs DEF Players
  <1> QED
    BY <1>1, EventKeepsPlayers

LEMMA CallbackKeepsPlayers ==
    ASSUME IInv, Players, NEW s \in Services, Callback(s)
    PROVE  Players'
  <1>1. Looping /\ Assigned(sections) /\ main \notin {"statics", "start"}
    BY DEF Callback, BrowseAdd, BrowseRemove, Answer, Looping, IInv, LoopKept
  <1>2. main' = main /\ starting' = starting
    BY DEF Callback, BrowseAdd, BrowseRemove, Answer, control
  <1>3. ASSUME BrowseAdd(s) PROVE Players'
    BY <1>2, <1>3, PlayersSame DEF BrowseAdd, manager, Onward
  <1>4. ASSUME BrowseRemove(s) PROVE Players'
    BY <1>1, <1>2, <1>4, RecordKeepsPlayers DEF BrowseRemove
  <1>5. ASSUME NEW question \in Kinds, Answer(s, question) PROVE Players'
    <2>1. PICK t : Proceed(s, t)
      BY <1>5 DEF Answer
    <2>2. RecordAdded(s, t) \/ UNCHANGED << devices, manager >>
      BY <2>1 DEF Proceed, Publish
    <2> QED
      BY <1>1, <1>2, <2>2, RecordKeepsPlayers
  <1> QED
    BY <1>3, <1>4, <1>5 DEF Callback, Kinds

LEMMA MainKeepsPlayers ==
    ASSUME IInv, Players, Main
    PROVE  Players'
  <1>1. ASSUME StartStatic, starting = << >> PROVE Players'
    BY <1>1, PlayersSame DEF StartStatic, manager, Onward
  <1>2. ASSUME StartStatic, starting # << >> PROVE Players'
    <2> DEFINE d == Head(starting)
    <2>1. /\ main = "statics" /\ main' = main /\ devices' = devices /\ starting' = Tail(starting)
          /\ OnRegistryEvent("Added", d.id, [Unseen EXCEPT !.name = d.name])
      BY <1>2 DEF StartStatic
    <2>2. starting \in Seq(Statics) /\ \A x \in Statics : OwnKey(sections, x)
      BY DEF Players, StaticsKept
    <2>3. d \in Statics /\ Tail(starting) \in Seq(Statics)
      BY <1>2, <2>2, HeadTailProperties
    <2>4. OwnKey(sections, d) /\ Assigned(sections) /\ DOMAIN devices = {}
      BY <2>1, <2>2, <2>3 DEF Players, StaticsKept, IInv
    <2> HIDE DEF d
    <2>5. /\ NamedRight(sections)' /\ PlayersKept' /\ TargetsCurrent'
          /\ SameKeys(sections, sections')
      BY <2>1, <2>4, StaticTargets DEF Players, NamedRight
    <2>6. Sections(sections) /\ Sections(sections')
      BY <2>1, <2>4, EventKeeps DEF Assigned, Ready
    <2>7. StaticsKept'
      <3>1. \A x \in Statics : OwnKey(sections', x)
        BY <2>2, <2>5, <2>6, OwnKeyStays
      <3>2. \A x \in Statics : OwnKey(sections, x)'
        BY <3>1 DEF OwnKey
      <3>3. starting' \in Seq(Statics) /\ DOMAIN devices' = {}
        BY <2>1, <2>3, <2>4
      <3> QED
        BY <3>2, <3>3, Zenon DEF StaticsKept
    <2>8. DevicesKept'
      BY <2>1 DEF Players, DevicesKept
    <2> QED
      BY <2>5, <2>7, <2>8 DEF Players
  <1>3. ASSUME NEW ok \in BOOLEAN, StartBrowser(ok) PROVE Players'
    BY <1>3, PlayersSame DEF StartBrowser, manager, Onward
  <1>4. ASSUME Stop PROVE Players'
    BY <1>4, PlayersSame DEF Stop, manager, Onward
  <1>5. ASSUME Joined PROVE Players'
    <2>1. /\ sessions' = NoMap /\ UNCHANGED << devices, sections, starting >>
          /\ main' = "done"
      BY <1>5 DEF Joined
    <2>2. DOMAIN sessions' = {}
      BY <2>1 DEF NoMap
    <2>3. PlayersKept' /\ TargetsCurrent'
      BY <2>2 DEF PlayersKept, TargetsCurrent
    <2>4. NamedRight(sections)' /\ DevicesKept' /\ StaticsKept'
      BY <2>1 DEF Players, NamedRight, DevicesKept, StaticsKept
    <2> QED
      BY <2>3, <2>4 DEF Players
  <1> QED
    BY <1>1, <1>2, <1>3, <1>4, <1>5 DEF Main

LEMMA OthersKeepPlayers ==
    ASSUME IInv, Players, Teardown \/ (\E key \in DOMAIN sessions : Play(key))
                    \/ (\E s \in Services, a \in Addresses : Power(s, a)) \/ UNCHANGED vars
    PROVE  Players'
  <1>1. ASSUME Teardown PROVE Players'
    BY <1>1, PlayersSame DEF Teardown, manager, Onward
  <1>2. ASSUME NEW s, NEW a, Power(s, a) PROVE Players'
    BY <1>2, PlayersSame DEF Power, manager, control, Onward
  <1>3. ASSUME UNCHANGED vars PROVE Players'
    BY <1>3, PlayersSame DEF vars, manager, control, Onward
  <1>4. ASSUME NEW key \in DOMAIN sessions, Play(key) PROVE Players'
    <2> DEFINE x == sessions[key]
               y == sessions'[key]
               other == ~x.playing
    <2>1. /\ UNCHANGED << devices, sections, starting, main >>
          /\ sessions' = [sessions EXCEPT ![key].playing = ~@]
      BY <1>4 DEF Play, control
    <2>2. /\ DOMAIN sessions' = DOMAIN sessions
          /\ \A p \in DOMAIN sessions : p # key => sessions'[p] = sessions[p]
          /\ y = [x EXCEPT !.playing = other]
      BY <2>1
    <2>3. x = Playing(x.mac, x.playing, x.missed, x.target)
      BY DEF Players, PlayersKept, Player
    <2> HIDE DEF x, y, other
    <2>4. y = Playing(x.mac, other, x.missed, x.target)
      BY <2>2, <2>3 DEF Playing
    <2>5. Player(y) /\ y.missed = x.missed /\ y.target = x.target
      BY <2>4, PlayerFields
    <2>6. \A p \in DOMAIN sessions : /\ sessions'[p].missed = sessions[p].missed
                                     /\ sessions'[p].target = sessions[p].target
                                     /\ Player(sessions[p]) => Player(sessions'[p])
      BY <2>2, <2>5 DEF x, y
    <2>7. PlayersKept'
      BY <2>1, <2>2, <2>6, Zenon DEF Players, PlayersKept
    <2>8. TargetsCurrent'
      <3>1. \A p \in DOMAIN sessions : Current(p) => Current(p)'
        BY <2>1, <2>6, Zenon DEF Current, Serves
      <3>2. Pins' = Pins
        BY <2>1 DEF Pins
      <3> QED
        BY <2>2, <3>1, <3>2, CurrentIs DEF Players
    <2>9. NamedRight(sections)' /\ DevicesKept' /\ StaticsKept'
      BY <2>1 DEF Players, NamedRight, DevicesKept, StaticsKept
    <2> QED
      BY <2>7, <2>8, <2>9 DEF Players
  <1> QED
    BY <1>1, <1>2, <1>3, <1>4

LEMMA PlayersBegin == Init => Players
  <1> SUFFICES ASSUME Init PROVE Players
    OBVIOUS
  <1>1. /\ devices = NoMap /\ sessions = NoMap
        /\ sections = AssignAll(Authored) /\ starting = staticPlayers(Enabled(sections))
    BY DEF Init
  <1>2. DOMAIN devices = {} /\ DOMAIN sessions = {}
    BY <1>1 DEF NoMap
  <1>3. Sections(sections) /\ SameButMacs(Authored, sections)
    BY <1>1, AuthoredAssumption, AssignAllFinishes
  <1>4. NamedRight(sections)
    <2> SUFFICES ASSUME NEW i \in 1 .. Len(sections)
                 PROVE  /\ sections[i].name \in Written \cup Announced /\ sections[i].name # ""
                        /\ sections[i].name \in HexIds => sections[i].id \in {"", sections[i].name}
      BY DEF NamedRight
    <2>1. /\ i \in 1 .. Len(Authored) /\ Shaped(Authored[i])
          /\ sections[i] = [Authored[i] EXCEPT !.mac = sections[i].mac]
      BY <1>3, AuthoredAssumption DEF SameButMacs, Sections
    <2>2. sections[i].name = Authored[i].name /\ sections[i].id = Authored[i].id
      <3> DEFINE a == Authored[i]
                 b == sections[i]
                 m == b.mac
      <3>1. Shaped(a) /\ b = [a EXCEPT !.mac = m]
        BY <2>1
      <3> HIDE DEF a, b, m
      <3>2. b.name = a.name /\ b.id = a.id
        BY <3>1, ButMac
      <3> QED
        BY <3>2 DEF a, b
    <2>3. Authored[i].name \in Written
      BY <2>1, AuthoredAssumption DEF Written, Sections
    <2> QED
      BY <2>1, <2>2, <2>3, AuthoredAssumption
  <1>5. DevicesKept /\ PlayersKept /\ TargetsCurrent
    BY <1>2 DEF DevicesKept, PlayersKept, TargetsCurrent
  <1>6. StaticsKept
    <2>1. starting \in Seq(StaticsOf(sections)) /\ \A d \in StaticsOf(sections) : OwnKey(sections, d)
      BY <1>1, <1>3, StaticsAre, StaticsOwn
    <2> QED
      BY <1>1, <1>2, <2>1 DEF StaticsKept, Statics
  <1> QED
    BY <1>4, <1>5, <1>6 DEF Players

-----------------------------------------------------------------------------
(* No section is claimed by two receivers.                                  *)

\* The devices of complete records.
Whole == { DeviceOf(s) : s \in Services }

LEMMA WholeIs ==
    ASSUME NEW dev \in Whole
    PROVE  /\ Legal(dev) /\ dev.id # "" /\ dev.name # ""
           /\ \A other \in Whole : other.name = dev.name => other.id = dev.id
           /\ \A other \in Whole : other.name = dev.id => other.id = dev.id
  <1>1. PICK s \in Services : dev = DeviceOf(s)
    BY DEF Whole
  <1>2. dev.id = DeviceKey(s) /\ dev.name = s.name
    BY <1>1 DEF DeviceOf
  <1>3. Legal(dev)
    BY <1>2 DEF Legal, KeysOf
  <1>4. ASSUME NEW other \in Whole, other.name = dev.name PROVE other.id = dev.id
    <2>1. PICK t \in Services : other = DeviceOf(t)
      BY DEF Whole
    <2>2. other.id = DeviceKey(t) /\ other.name = t.name
      BY <2>1 DEF DeviceOf
    <2> QED
      BY <1>2, <1>4, <2>2, ReceiversAssumption
  <1>5. ASSUME NEW other \in Whole, other.name = dev.id PROVE other.id = dev.id
    <2>1. PICK t \in Services : other = DeviceOf(t)
      BY DEF Whole
    <2>2. other.id = DeviceKey(t) /\ other.name = t.name
      BY <2>1 DEF DeviceOf
    <2>3. Legal(other)
      BY <2>2 DEF Legal, KeysOf
    <2>4. CASE dev.id \in HexIds
      BY <1>5, <2>3, <2>4, LegalNames
    <2>5. CASE dev.id \notin HexIds
      <3>1. dev.id = dev.name
        BY <1>3, <1>5, <2>3, <2>5, LegalNames
      <3> QED
        BY <1>4, <1>5, <3>1
    <2> QED
      BY <2>4, <2>5
  <1> QED
    BY <1>3, <1>4, <1>5, LegalNames

\* The same of sections by their positions.
Alone(secs) ==
    /\ \A i \in 1 .. Len(secs), d, e \in Whole :
        Claims(secs[i], d) /\ Claims(secs[i], e) => d.id = e.id
    /\ \A i, j \in 1 .. Len(secs) : i # j => KeyOf(secs[i]) # KeyOf(secs[j])
    /\ \A i \in 1 .. Len(secs), d \in Whole : secs[i].id = d.name => d.id = d.name

LEMMA UnsharedIs ==
    ASSUME NEW secs, Sections(secs)
    PROVE  Unshared(secs) <=> Alone(secs)
  <1>1. DOMAIN secs = 1 .. Len(secs)
    BY DEF Sections
  <1>2. \A s \in Services : DeviceOf(s).id = DeviceKey(s) /\ DeviceOf(s).name = s.name
    BY DEF DeviceOf
  <1>3. (\A i \in 1 .. Len(secs), d, e \in Whole :
            Claims(secs[i], d) /\ Claims(secs[i], e) => d.id = e.id)
        <=> \A i \in 1 .. Len(secs), s, t \in Services :
              Claims(secs[i], DeviceOf(s)) /\ Claims(secs[i], DeviceOf(t))
                 => DeviceKey(s) = DeviceKey(t)
    BY <1>2 DEF Whole
  <1>4. (\A i \in 1 .. Len(secs), d \in Whole : secs[i].id = d.name => d.id = d.name)
        <=> \A i \in 1 .. Len(secs), s \in Services : secs[i].id = s.name => DeviceKey(s) = s.name
    BY <1>2 DEF Whole
  <1> QED
    BY <1>1, <1>3, <1>4, Zenon DEF Unshared, Alone

\* Nothing new is claimed.
NoMoreClaims(sec, new) ==
    /\ KeyOf(new) = KeyOf(sec)
    /\ \A d \in Whole : /\ Claims(new, d) => Claims(sec, d)
                        /\ new.id = d.name => sec.id = d.name \/ d.id = d.name

LEMMA NoMoreKeeps ==
    ASSUME NEW secs, NEW new, Alone(secs), Len(new) = Len(secs),
           \A i \in 1 .. Len(secs) : NoMoreClaims(secs[i], new[i])
    PROVE  Alone(new)
  <1>1. ASSUME NEW i \in 1 .. Len(new), NEW d \in Whole, NEW e \in Whole,
               Claims(new[i], d), Claims(new[i], e)
        PROVE  d.id = e.id
    BY <1>1 DEF Alone, NoMoreClaims
  <1>2. ASSUME NEW i \in 1 .. Len(new), NEW j \in 1 .. Len(new), i # j
        PROVE  KeyOf(new[i]) # KeyOf(new[j])
    BY <1>2 DEF Alone, NoMoreClaims
  <1>3. ASSUME NEW i \in 1 .. Len(new), NEW d \in Whole, new[i].id = d.name
        PROVE  d.id = d.name
    BY <1>3 DEF Alone, NoMoreClaims
  <1> QED
    BY <1>1, <1>2, <1>3, Zenon DEF Alone

LEMMA ShownAlone ==
    ASSUME NEW secs, Sections(secs), Alone(secs), NEW at \in 1 .. Len(secs), NEW shown,
           NEW new, ShownAs(secs, at, shown, new)
    PROVE  Alone(new)
  <1>1. /\ Len(new) = Len(secs)
        /\ \A i \in 1 .. Len(secs) : i # at => new[i] = secs[i]
    BY DEF ShownAs
  <1>2. /\ new[at].name = secs[at].name /\ new[at].id = secs[at].id
        /\ new[at].mac = secs[at].mac
    BY ShapedFields DEF ShownAs
  <1>3. NoMoreClaims(secs[at], new[at])
    BY <1>2, Zenon DEF NoMoreClaims, Claims, KeyOf
  <1>4. \A i \in 1 .. Len(secs) : NoMoreClaims(secs[i], new[i])
    BY <1>1, <1>3, Zenon DEF NoMoreClaims
  <1> QED
    BY <1>1, <1>4, NoMoreKeeps

LEMMA FoundAlone ==
    ASSUME NEW secs, Sections(secs), Alone(secs), NEW key,
           NEW at \in 1 .. Len(secs), secs[at].name = key, Unbound(secs[at], key),
           NEW new, GivenId(secs, at, IF key \in HexIds THEN key ELSE secs[at].id, new)
    PROVE  Alone(new)
  <1> DEFINE id == IF key \in HexIds THEN key ELSE secs[at].id
  <1>1. /\ Len(new) = Len(secs)
        /\ \A i \in 1 .. Len(secs) : i # at => new[i] = secs[i]
    BY DEF GivenId
  <1>2. new[at].name = secs[at].name /\ new[at].id = id /\ new[at].mac = secs[at].mac
    <2>1. GivenId(secs, at, id, new)
      OBVIOUS
    <2> HIDE DEF id
    <2>2. new[at] = FullSection(secs[at].name, id, secs[at].mac, secs[at].creds,
                                secs[at].name, secs[at].renamed, secs[at].auto)
      BY <2>1 DEF GivenId
    <2> QED
      BY <2>2, ShapedFields
  <1>3. id = secs[at].id \/ (secs[at].id = "" /\ id = key /\ key \in HexIds)
    BY DEF Unbound
  <1> HIDE DEF id
  <1>4. KeyOf(new[at]) = KeyOf(secs[at])
    BY <1>2, <1>3 DEF KeyOf
  <1>5. ASSUME NEW d \in Whole, Claims(new[at], d) PROVE Claims(secs[at], d)
    BY <1>2, <1>3, <1>5, Zenon DEF Claims
  <1>6. ASSUME NEW d \in Whole, new[at].id = d.name PROVE secs[at].id = d.name \/ d.id = d.name
    <2>1. Legal(d)
      BY WholeIs
    <2> QED
      BY <1>2, <1>3, <1>6, <2>1, LegalNames
  <1>7. \A i \in 1 .. Len(secs) : NoMoreClaims(secs[i], new[i])
    BY <1>1, <1>4, <1>5, <1>6, Zenon DEF NoMoreClaims
  <1> QED
    BY <1>1, <1>7, NoMoreKeeps

LEMMA NewAlone ==
    ASSUME NEW secs, Ready(secs), NamedRight(secs), Alone(secs), NEW dev \in Whole,
           Match(secs, dev) = 0, findSection(secs, dev.id) = 0
    PROVE  Alone(Created(secs, dev))
  <1> DEFINE new == Created(secs, dev)
             at  == Len(secs) + 1
  <1>1. /\ Legal(dev) /\ dev.id # "" /\ dev.name # ""
        /\ \A d \in Whole : d.name = dev.name => d.id = dev.id
        /\ \A d \in Whole : d.name = dev.id => d.id = dev.id
    BY WholeIs
  <1>2. /\ Len(new) = at
        /\ \A i \in 1 .. Len(secs) : new[i] = secs[i]
        /\ new[at].name = dev.name
        /\ new[at].id = IF dev.id \in HexIds THEN dev.id ELSE ""
        /\ \A other : Legal(other) /\ other.id # dev.id => StillMatch(secs, new, other)
    BY <1>1, NewKeeps
  <1>3. /\ at \notin 1 .. Len(secs) /\ at \in 1 .. at
        /\ \A i \in 1 .. at : i \in 1 .. Len(secs) \/ i = at
    BY DEF Ready, Sections
  <1>4. \A i \in 1 .. Len(secs) : /\ secs[i].id # dev.id /\ secs[i].name # dev.id
                                  /\ secs[i].name # dev.name
    <2>1. Sections(secs)
      BY DEF Ready
    <2>2. \A i \in 1 .. Len(secs) : /\ ~ (dev.id # "" /\ secs[i].id = dev.id)
                                    /\ ~ (dev.name # "" /\ secs[i].name = dev.name)
      BY <2>1, NoMatch
    <2>3. \A i \in 1 .. Len(secs) : secs[i].name # dev.id
      BY <2>1, FindSection
    <2> QED
      BY <1>1, <2>2, <2>3
  <1> HIDE DEF new, at
  <1>5. ASSUME NEW d \in Whole, Claims(new[at], d) PROVE d.id = dev.id
    <2>1. SUFFICES ASSUME d.id # dev.id PROVE FALSE
      OBVIOUS
    <2>2. Legal(d) /\ d.id # "" /\ d.name # ""
      BY WholeIs
    <2>3. StillMatch(secs, new, d)
      BY <1>2, <2>1, <2>2
    <2>4. ~ById(new[at], d) /\ ~ByMac(new[at], d)
      BY <1>2, <1>3, <2>3, Zenon DEF StillMatch
    <2>5. dev.name \in {d.id, d.name}
      BY <1>2, <1>5, <2>2, <2>4 DEF Claims, ById, ByMac
    <2>6. dev.name = d.id => dev.id = d.id
      BY WholeIs
    <2> QED
      BY <1>1, <2>1, <2>5, <2>6
  <1>6. ASSUME NEW j \in 1 .. Len(secs) PROVE KeyOf(secs[j]) # KeyOf(new[at])
    <2>1. secs[j].id = dev.name => dev.id = dev.name
      BY DEF Alone
    <2> QED
      BY <1>1, <1>2, <1>4, <2>1 DEF KeyOf
  <1>7. ASSUME NEW d \in Whole, new[at].id = d.name PROVE d.id = d.name
    <2>1. Legal(d) /\ d.name # ""
      BY WholeIs
    <2> QED
      BY <1>2, <1>7, <2>1, LegalNames
  <1>8. \A i \in 1 .. Len(new), d, e \in Whole :
            Claims(new[i], d) /\ Claims(new[i], e) => d.id = e.id
    <2> SUFFICES ASSUME NEW i \in 1 .. Len(new), NEW d \in Whole, NEW e \in Whole,
                        Claims(new[i], d), Claims(new[i], e)
                 PROVE  d.id = e.id
      OBVIOUS
    <2>1. i \in 1 .. Len(secs) \/ i = at
      BY <1>2, <1>3, Zenon
    <2>2. CASE i \in 1 .. Len(secs)
      <3>1. Claims(secs[i], d) /\ Claims(secs[i], e)
        BY <1>2, <2>2, Zenon
      <3> QED
        BY <2>2, <3>1, Zenon DEF Alone
    <2>3. CASE i = at
      <3>1. d.id = dev.id /\ e.id = dev.id
        BY <1>5, <2>3, Zenon
      <3> QED
        BY <3>1
    <2> QED
      BY <2>1, <2>2, <2>3
  <1>9. \A i, j \in 1 .. Len(new) : i # j => KeyOf(new[i]) # KeyOf(new[j])
    <2> SUFFICES ASSUME NEW i \in 1 .. Len(new), NEW j \in 1 .. Len(new), i # j
                 PROVE  KeyOf(new[i]) # KeyOf(new[j])
      OBVIOUS
    <2>1. (i \in 1 .. Len(secs) \/ i = at) /\ (j \in 1 .. Len(secs) \/ j = at)
      BY <1>2, <1>3
    <2>2. CASE i \in 1 .. Len(secs) /\ j \in 1 .. Len(secs)
      BY <1>2, <2>2 DEF Alone
    <2>3. CASE i = at
      <3>1. new[j] = secs[j]
        BY <1>2, <2>1, <2>3
      <3> QED
        BY <1>6, <2>1, <2>3, <3>1
    <2>4. CASE j = at
      <3>1. new[i] = secs[i]
        BY <1>2, <2>1, <2>4
      <3> QED
        BY <1>6, <2>1, <2>4, <3>1
    <2> QED
      BY <2>1, <2>2, <2>3, <2>4
  <1>10. \A i \in 1 .. Len(new), d \in Whole : new[i].id = d.name => d.id = d.name
    <2> SUFFICES ASSUME NEW i \in 1 .. Len(new), NEW d \in Whole, new[i].id = d.name
                 PROVE  d.id = d.name
      OBVIOUS
    <2>1. i \in 1 .. Len(secs) \/ i = at
      BY <1>2, <1>3, Zenon
    <2>2. CASE i \in 1 .. Len(secs)
      <3>1. secs[i].id = d.name
        BY <1>2, <2>2, Zenon
      <3> QED
        BY <2>2, <3>1, Zenon DEF Alone
    <2>3. CASE i = at
      BY <1>7, <2>3, Zenon
    <2> QED
      BY <2>1, <2>2, <2>3
  <1> QED
    BY <1>8, <1>9, <1>10, Zenon DEF Alone, new

\* resolve() leaves no section that two receivers claim.
LEMMA ResolveAlone ==
    ASSUME NEW secs, Ready(secs), NamedRight(secs), Alone(secs), NEW dev,
           dev \in Whole \/ OwnKey(secs, dev), NEW auto \in BOOLEAN
    PROVE  Alone(resolve(secs, dev, auto))
  <1> DEFINE new   == resolve(secs, dev, auto)
             m     == Match(secs, dev)
             found == findSection(secs, dev.id)
  <1>1. Sections(secs) /\ Len(secs) \in Nat
    BY DEF Ready, Sections
  <1>2. dev.id # "" /\ KeyFor(dev) = dev.id
    <2>1. CASE dev \in Whole
      BY <2>1, WholeIs DEF KeyFor
    <2>2. CASE OwnKey(secs, dev)
      BY <1>1, <2>2, OwnKeyFound DEF KeyFor
    <2> QED
      BY <2>1, <2>2
  <1>3. CASE m # 0
    <2> DEFINE shown == IF ~secs[m].renamed /\ dev.name # "" THEN dev.name ELSE secs[m].shown
    <2>1. ShownAs(secs, m, shown, new)
      BY <1>3, RefreshedIs
    <2>2. m \in 0 .. Len(secs)
      BY <1>1, MatchMeans, Zenon
    <2> HIDE DEF shown, new, m
    <2>3. m \in 1 .. Len(secs)
      BY <1>1, <1>3, <2>2
    <2> QED
      BY <1>1, <2>1, <2>3, ShownAlone DEF new
  <1>4. CASE m = 0 /\ ~auto
    BY <1>4, ResolveWays
  <1>5. CASE m = 0 /\ auto /\ found # 0
    <2>1. new = Created(secs, dev)
      BY <1>5, ResolveWays
    <2>2. /\ found \in 1 .. Len(secs) /\ secs[found].name = dev.id
          /\ Unbound(secs[found], dev.id)
          /\ GivenId(secs, found, IF dev.id \in HexIds THEN dev.id ELSE secs[found].id,
                     Created(secs, dev))
      BY <1>2, <1>5, FoundNamed DEF Keyed
    <2> DEFINE key == dev.id
    <2> HIDE DEF new, found, key
    <2>3. /\ secs[found].name = key /\ Unbound(secs[found], key)
          /\ GivenId(secs, found, IF key \in HexIds THEN key ELSE secs[found].id, new)
      BY <2>1, <2>2 DEF key
    <2>4. Alone(new)
      BY <1>1, <2>2, <2>3, FoundAlone
    <2> QED
      BY <2>4 DEF new
  <1>6. CASE m = 0 /\ auto /\ found = 0
    <2>1. dev \in Whole
      BY <1>1, <1>6, OwnKeyFound
    <2>2. new = Created(secs, dev)
      BY <1>6, ResolveWays
    <2> QED
      BY <1>6, <2>1, <2>2, NewAlone
  <1> QED
    BY <1>3, <1>4, <1>5, <1>6

-----------------------------------------------------------------------------
(* Every device of the registry has its player.                             *)

\* HasPlayer, of given sections and sessions.
Manned(secs, players, dev) ==
    LET i == Match(secs, dev)
    IN  i # 0 /\ (secs[i].name \in Disabled \/ KeyOf(secs[i]) \in DOMAIN players)

LEMMA HasPlayerIs ==
    ASSUME Sections(sections)
    PROVE  \A dev : HasPlayer(dev) <=> Manned(sections, sessions, dev)
  <1>1. DOMAIN sections = 1 .. Len(sections) /\ Len(sections) \in Nat
    BY DEF Sections
  <1> SUFFICES ASSUME NEW dev PROVE HasPlayer(dev) <=> Manned(sections, sessions, dev)
    OBVIOUS
  <1> DEFINE m == Match(sections, dev)
  <1>2. m \in 0 .. Len(sections)
    BY MatchMeans, Zenon
  <1>3. HasPlayer(dev) <=> /\ m \in DOMAIN sections
                           /\ \/ sections[m].name \in Disabled
                              \/ KeyOf(sections[m]) \in DOMAIN sessions
    BY DEF HasPlayer
  <1>4. Manned(sections, sessions, dev) <=>
            m # 0 /\ (sections[m].name \in Disabled \/ KeyOf(sections[m]) \in DOMAIN sessions)
    BY DEF Manned
  <1> HIDE DEF m
  <1>5. m \in DOMAIN sections <=> m # 0
    BY <1>1, <1>2
  <1> QED
    BY <1>3, <1>4, <1>5

LEMMA MatchClaims ==
    ASSUME NEW secs, Sections(secs), NEW dev, Match(secs, dev) # 0
    PROVE  /\ Match(secs, dev) \in 1 .. Len(secs)
           /\ Claims(secs[Match(secs, dev)], dev)
  <1> DEFINE m == Match(secs, dev)
  <1>1. m \in 0 .. Len(secs) /\ (ById(secs[m], dev) \/ ByMac(secs[m], dev) \/ ByName(secs[m], dev))
    BY MatchMeans
  <1>2. Claims(secs[m], dev)
    BY <1>1, Zenon DEF Claims, ById, ByMac, ByName
  <1> HIDE DEF m
  <1>3. m # 0 => m \in 1 .. Len(secs)
    BY <1>1 DEF Sections
  <1> QED
    BY <1>2, <1>3 DEF m

\* Two receivers find sections of different keys.
LEMMA FindApart ==
    ASSUME NEW secs, Sections(secs), Alone(secs), NEW d \in Whole, NEW e \in Whole,
           Match(secs, d) # 0, Match(secs, e) # 0, d.id # e.id
    PROVE  KeyOf(secs[Match(secs, d)]) # KeyOf(secs[Match(secs, e)])
  <1> DEFINE m == Match(secs, d)
             n == Match(secs, e)
  <1>1. m \in 1 .. Len(secs) /\ n \in 1 .. Len(secs) /\ Claims(secs[m], d) /\ Claims(secs[n], e)
    BY MatchClaims
  <1> HIDE DEF m, n
  <1>2. m # n
    BY <1>1 DEF Alone
  <1>3. KeyOf(secs[m]) # KeyOf(secs[n])
    BY <1>1, <1>2, Zenon DEF Alone
  <1> QED
    BY <1>3 DEF m, n

\* Which sessions an event leaves: that of the section it is for, if there was
\* one or the device is new, unless it is disabled.
LEMMA EventLeaves ==
    ASSUME NEW ev \in {"Added", "Updated", "Removed"}, NEW key, NEW dev,
           OnRegistryEvent(ev, key, dev)
    PROVE  LET who  == Who(key, dev)
               auto == ev = "Added" /\ AutoRegister
               at   == ResolvedAt(sections, who, auto)
               sec  == sections'[at]
           IN  at # 0 /\ ev # "Removed" =>
                 \/ sec.name \in Disabled
                 \/ KeyOf(sec) \in DOMAIN sessions'
                 \/ ev = "Updated" /\ KeyOf(sec) \notin DOMAIN sessions
  <1> DEFINE who  == Who(key, dev)
             auto == ev = "Added" /\ AutoRegister
             at   == ResolvedAt(sections, who, auto)
             sec  == sections'[at]
             k    == KeyOf(sec)
  <1>1. /\ sections' = resolve(sections, who, auto)
        /\ sessions' = CASE at = 0         -> sessions
                         [] at # 0 /\ ev = "Removed" -> Without(sessions, KeyOf(sec))
                         [] at # 0 /\ ev = "Updated" -> Updated(sessions, sec, dev)
                         [] at # 0 /\ ev = "Added"   -> Started(sessions, sec, dev)
    BY DEF OnRegistryEvent, Who
  <1> HIDE DEF at, sec, auto, who
  <1>2. /\ at # 0 /\ ev = "Updated" => sessions' = Updated(sessions, sec, dev)
        /\ at # 0 /\ ev = "Added" => sessions' = Started(sessions, sec, dev)
    BY <1>1
  <1>3. \A players : sec.name \in Disabled \/ k \in DOMAIN Started(players, sec, dev)
    BY DEF Started, With
  <1>4. ASSUME k \in DOMAIN sessions
        PROVE  sec.name \in Disabled \/ k \in DOMAIN Updated(sessions, sec, dev)
    <2> DEFINE keep == \/ k \notin DOMAIN sessions
                       \/ sec.name \in Pinned
                       \/ TargetOf(dev) = NoTarget
               val  == Retargeted(sessions[k], TargetOf(dev))
               made == Started(Without(sessions, k), sec, dev)
               new  == Updated(sessions, sec, dev)
    <2>1. \/ new = sessions
          \/ new = [sessions EXCEPT ![k] = val]
          \/ new = made
      BY Zenon DEF Updated
    <2>2. sec.name \in Disabled \/ k \in DOMAIN made
      BY <1>3
    <2> HIDE DEF made, new, val, k
    <2>3. sec.name \in Disabled \/ k \in DOMAIN new
      BY <1>4, <2>1, <2>2
    <2> QED
      BY <2>3 DEF new
  <1>5. ev \in {"Added", "Updated", "Removed"}
    OBVIOUS
  <1> HIDE DEF k
  <1>6. at # 0 /\ ev # "Removed" =>
            \/ sec.name \in Disabled
            \/ k \in DOMAIN sessions'
            \/ ev = "Updated" /\ k \notin DOMAIN sessions
    BY <1>2, <1>3, <1>4, <1>5
  <1> QED
    BY <1>6, Zenon DEF who, auto, at, sec, k

\* The devices of the registry are of complete records, and have players.
AllManned ==
    \A k \in DOMAIN devices :
        /\ Who(k, devices[k]) \in Whole
        /\ AutoRegister => Manned(sections, sessions, Who(k, devices[k]))

LEMMA EventMans ==
    ASSUME Assigned(sections), NamedRight(sections), Alone(sections), AllManned,
           NEW ev, NEW key, NEW dev, Registry(ev, key, dev), OnRegistryEvent(ev, key, dev),
           Who(key, dev) \in Whole
    PROVE  Alone(sections') /\ AllManned'
  <1> DEFINE who  == Who(key, dev)
             auto == ev = "Added" /\ AutoRegister
             at   == ResolvedAt(sections, who, auto)
             sec  == sections'[at]
  <1>1. /\ sections' = resolve(sections, who, auto)
        /\ at = 0 => sessions' = sessions
        /\ at # 0 => Turned(sessions, sessions', ev, sec, dev)
        /\ at # 0 /\ ev # "Removed" =>
                 \/ sec.name \in Disabled
                 \/ KeyOf(sec) \in DOMAIN sessions'
                 \/ ev = "Updated" /\ KeyOf(sec) \notin DOMAIN sessions
    <2>1. ev \in {"Added", "Updated", "Removed"}
      BY DEF Registry
    <2> QED
      BY <2>1, EventTurns, EventLeaves
  <1>2. Sections(sections) /\ Ready(sections) /\ Sections(sections')
    BY EventKeeps DEF Assigned, Ready
  <1>3. /\ Legal(who) /\ auto \in BOOLEAN /\ who.id = key /\ who.name = dev.name
        /\ who \in Whole /\ AutoRegister /\ ev = "Added" => auto
    BY DEF Registry, Who
  <1>4. ResolvedAt(sections, who, auto) = at /\ (AutoRegister /\ ev = "Added" => auto)
    OBVIOUS
  <1>5. who \in Whole
    OBVIOUS
  <1> HIDE DEF who, auto, at
  <1>6. /\ NamedRight(sections') /\ SameKeys(sections, sections')
        /\ at # 0 => at \in 1 .. Len(sections') /\ Match(sections', who) = at
        /\ \A other : Legal(other) /\ other.id # key => StillMatch(sections, sections', other)
    BY <1>1, <1>2, <1>3, <1>4, ResolveIs
  <1>7. Alone(sections')
    BY <1>1, <1>2, <1>3, <1>5, ResolveAlone
  <1>8. ASSUME NEW k \in DOMAIN devices', k # key
        PROVE  /\ Who(k, devices'[k]) \in Whole
               /\ AutoRegister => Manned(sections', sessions', Who(k, devices'[k]))
    <2>1. k \in DOMAIN devices /\ devices'[k] = devices[k]
      BY <1>8 DEF Registry
    <2> DEFINE w == Who(k, devices'[k])
               m == Match(sections, w)
    <2>2. w \in Whole /\ (AutoRegister => Manned(sections, sessions, w)) /\ w.id = k
      BY <2>1 DEF AllManned, Who
    <2> HIDE DEF w
    <2>3. SUFFICES ASSUME AutoRegister PROVE Manned(sections', sessions', w)
      BY <2>2 DEF w
    <2>4. /\ m # 0
          /\ sections[m].name \in Disabled \/ KeyOf(sections[m]) \in DOMAIN sessions
      BY <2>2, <2>3 DEF Manned
    <2>5. m \in 1 .. Len(sections)
      BY <1>2, <2>4, MatchClaims
    <2>6. Match(sections', w) = m
      <3>1. Legal(w)
        BY <2>2, WholeIs
      <3>2. StillMatch(sections, sections', w)
        BY <1>6, <1>8, <2>2, <3>1
      <3> QED
        BY <1>2, <2>4, <3>2, MatchStays
    <2> HIDE DEF m
    <2>7. sections'[m].name = sections[m].name /\ KeyOf(sections'[m]) = KeyOf(sections[m])
      BY <1>6, <2>5, Zenon DEF SameKeys
    <2>8. KeyOf(sections[m]) \in DOMAIN sessions => KeyOf(sections[m]) \in DOMAIN sessions'
      <3>1. CASE at = 0
        BY <1>1, <3>1
      <3>2. CASE at # 0
        <4>1. Match(sections', who) # 0 /\ Match(sections', w) # 0
          BY <1>6, <2>4, <2>6, <3>2
        <4>2. KeyOf(sections'[Match(sections', who)]) # KeyOf(sections'[Match(sections', w)])
          BY <1>2, <1>3, <1>5, <1>7, <1>8, <2>2, <4>1, FindApart
        <4>3. KeyOf(sec) # KeyOf(sections[m])
          BY <1>6, <2>6, <2>7, <3>2, <4>2
        <4> QED
          BY <1>1, <3>2, <4>3, Zenon DEF Turned, OnlyAt
      <3> QED
        BY <3>1, <3>2
    <2> QED
      BY <2>4, <2>6, <2>7, <2>8 DEF Manned
  <1>9. ASSUME key \in DOMAIN devices'
        PROVE  /\ Who(key, devices'[key]) \in Whole
               /\ AutoRegister => Manned(sections', sessions', Who(key, devices'[key]))
    <2>1. ev # "Removed" /\ devices'[key] = dev
      BY <1>9 DEF Registry
    <2>2. Who(key, devices'[key]) = who
      BY <2>1 DEF who
    <2>3. SUFFICES ASSUME AutoRegister PROVE Manned(sections', sessions', who)
      BY <1>5, <2>2
    <2>4. CASE ev = "Added"
      <3>1. at # 0
        <4>1. auto
          BY <1>4, <2>3, <2>4
        <4>2. CreatedAt(sections, who) # 0
          BY <1>2 DEF CreatedAt, Sections
        <4> QED
          BY <1>4, <4>1, <4>2, ResolveWays
      <3>2. sec.name \in Disabled \/ KeyOf(sec) \in DOMAIN sessions'
        BY <1>1, <2>1, <2>4, <3>1
      <3> QED
        BY <1>6, <3>1, <3>2 DEF Manned
    <2>5. CASE ev # "Added"
      <3>1. key \in DOMAIN devices /\ devices[key].name = dev.name
        BY <2>5 DEF Registry
      <3>2. Who(key, devices[key]) = who
        BY <3>1 DEF Who, who
      <3>3. Manned(sections, sessions, who)
        BY <2>3, <3>1, <3>2 DEF AllManned
      <3>4. Match(sections, who) # 0
        BY <3>3 DEF Manned
      <3>5. at = Match(sections, who)
        BY <1>3, <1>4, <3>4, ResolveWays
      <3>6. at # 0 /\ at \in 1 .. Len(sections)
        BY <1>2, <3>4, <3>5, MatchClaims
      <3>7. sections'[at].name = sections[at].name /\ KeyOf(sections'[at]) = KeyOf(sections[at])
        BY <1>6, <3>6, Zenon DEF SameKeys
      <3>8. sec.name \in Disabled \/ KeyOf(sec) \in DOMAIN sessions
        BY <3>3, <3>5, <3>7 DEF Manned
      <3>9. sec.name \in Disabled \/ KeyOf(sec) \in DOMAIN sessions'
        BY <1>1, <2>1, <3>6, <3>8
      <3> QED
        BY <1>6, <3>6, <3>9 DEF Manned
    <2> QED
      BY <2>4, <2>5
  <1>10. AllManned'
    BY <1>8, <1>9, Zenon DEF AllManned
  <1> QED
    BY <1>7, <1>10

-----------------------------------------------------------------------------
(* The types.                                                               *)

\* What of TypeOK the trackers and the players leave.
Typed ==
    /\ up \subseteq Services /\ reported \subseteq Services
    /\ powers \in 0 .. MaxPowers /\ failures \in 0 .. MaxFailures
    /\ browsing \in BOOLEAN /\ posted \in BOOLEAN
    /\ loop \in {"none", "run", "ended"}
    /\ main \in {"statics", "start", "run", "joining", "done"}

LEMMA TypedBegin == Init => Typed
  <1> SUFFICES ASSUME Init PROVE Typed
    OBVIOUS
  <1>1. powers = 0 /\ failures = 0 /\ up = {} /\ reported = {}
    BY DEF Init
  <1>2. browsing = FALSE /\ posted = FALSE /\ loop = "none" /\ main = "statics"
    BY DEF Init
  <1>3. powers \in 0 .. MaxPowers /\ failures \in 0 .. MaxFailures
    BY <1>1, BoundsAssumption
  <1> QED
    BY <1>1, <1>2, <1>3 DEF Typed

LEMMA CallbackKeepsTyped ==
    ASSUME Typed, NEW s \in Services, Callback(s)
    PROVE  Typed'
  <1>1. UNCHANGED << up, powers, browsing, posted, loop, main >>
    BY DEF Callback, BrowseAdd, BrowseRemove, Answer, network, control
  <1>2. reported' \subseteq Services
    BY DEF Callback, BrowseAdd, BrowseRemove, Answer, Typed
  <1>3. failures' \in 0 .. MaxFailures
    <2>1. failures \in 0 .. MaxFailures /\ MaxFailures \in Nat
      BY BoundsAssumption DEF Typed
    <2>2. ASSUME BrowseAdd(s) PROVE failures' \in 0 .. MaxFailures
      <3>1. \E n \in {0, 1} : failures + n <= MaxFailures /\ failures' = failures + n
        BY <2>2 DEF BrowseAdd
      <3> QED
        BY <2>1, <3>1
    <2>3. ASSUME NEW t, Proceed(s, t) PROVE failures' \in 0 .. MaxFailures
      <3>1. failures' = failures \/ (failures < MaxFailures /\ failures' = failures + 1)
        BY <2>3 DEF Proceed
      <3> QED
        BY <2>1, <3>1
    <2>4. ASSUME NEW question, Answer(s, question) PROVE failures' \in 0 .. MaxFailures
      BY <2>3, <2>4 DEF Answer
    <2>5. ASSUME BrowseRemove(s) PROVE failures' \in 0 .. MaxFailures
      BY <2>1, <2>5 DEF BrowseRemove
    <2> QED
      BY <2>2, <2>4, <2>5 DEF Callback
  <1> QED
    BY <1>1, <1>2, <1>3 DEF Typed

LEMMA OthersKeepTyped ==
    ASSUME Typed, Main \/ Teardown \/ (\E key \in DOMAIN sessions : Play(key))
                    \/ (\E s \in Services, a \in Addresses : Power(s, a)) \/ UNCHANGED vars
    PROVE  Typed'
  <1>1. ASSUME Main PROVE Typed'
    <2>1. UNCHANGED << up, powers, reported, failures >>
      BY <1>1 DEF Main, StartStatic, StartBrowser, Stop, Joined, network, browser
    <2>2. /\ browsing' \in BOOLEAN /\ posted' \in BOOLEAN
          /\ loop' \in {"none", "run", "ended"}
      BY <1>1 DEF Main, StartStatic, StartBrowser, Stop, Joined, browser, Typed
    <2>3. main' \in {"statics", "start", "run", "joining", "done"}
      BY <1>1 DEF Main, StartStatic, StartBrowser, Stop, Joined, Typed
    <2> QED
      BY <2>1, <2>2, <2>3 DEF Typed
  <1>2. ASSUME Teardown PROVE Typed'
    BY <1>2 DEF Teardown, network, Typed
  <1>3. ASSUME NEW key, Play(key) PROVE Typed'
    BY <1>3 DEF Play, network, browser, control, Typed
  <1>4. ASSUME NEW s \in Services, NEW a, Power(s, a) PROVE Typed'
    <2>1. UNCHANGED << reported, failures, browsing, posted, loop, main >>
      BY <1>4 DEF Power, browser, control
    <2>2. up' \subseteq Services
      BY <1>4 DEF Power, Typed
    <2>3. powers' \in 0 .. MaxPowers
      BY <1>4, BoundsAssumption DEF Power, Typed
    <2> QED
      BY <2>1, <2>2, <2>3 DEF Typed
  <1>5. ASSUME UNCHANGED vars PROVE Typed'
    BY <1>5 DEF vars, network, browser, control, Typed
  <1> QED
    BY <1>1, <1>2, <1>3, <1>4, <1>5

-----------------------------------------------------------------------------
(* What the trackers have published.                                        *)

\* The record of a service counts as seen at the key it has when complete.
Seen(devs, s) == DeviceKey(s) \in DOMAIN devs /\ SeenAs(devs[DeviceKey(s)], s.type)

\* What a tracker does not ask any more it has got.
Learnt(s, t) ==
    /\ "SRV" \in t.active \/ (t.port = s.port /\ t.host)
    /\ "TXT" \in t.active \/ t.txt

\* A tracker that asks nothing any more has published its record.
OnItsWay(devs, s, t) ==
    /\ Learnt(s, t)
    /\ t.active = {} /\ s.port => Seen(devs, s)

TrackersThere ==
    /\ DOMAIN resolvers = reported
    /\ \A s \in reported : OnItsWay(devices, s, resolvers[s])

\* A complete record is published: its device has a player, and what counted
\* as seen still does.
LEMMA PublishedServes ==
    ASSUME IInv, Players, Alone(sections), AllManned, NEW s \in Services, NEW t, t.txt,
           RecordAdded(s, t)
    PROVE  /\ Alone(sections') /\ AllManned'
           /\ Seen(devices', s)
           /\ \A u : Seen(devices, u) => Seen(devices', u)
  <1>1. PICK ev, key, dev : /\ Registry(ev, key, dev) /\ OnRegistryEvent(ev, key, dev)
                            /\ ev # "Removed" /\ Published(s, t.txt, key, dev)
    BY RecordAddedIs DEF Players
  <1>2. key = DeviceKey(s) /\ dev.name = s.name /\ SeenAs(dev, s.type)
    BY <1>1 DEF Published, KeyOfRecord
  <1>3. Who(key, dev) \in Whole
    BY <1>2 DEF Who, Whole, DeviceOf
  <1>4. Alone(sections') /\ AllManned'
    BY <1>1, <1>3, EventMans DEF IInv, Players
  <1>5. key \in DOMAIN devices' /\ devices'[key] = dev
    BY <1>1 DEF Registry
  <1>6. ASSUME NEW u, Seen(devices, u) PROVE Seen(devices', u)
    <2>1. CASE DeviceKey(u) = key
      BY <1>1, <1>5, <1>6, <2>1, Zenon DEF Seen, Published
    <2>2. CASE DeviceKey(u) # key
      <3>1. DeviceKey(u) \in DOMAIN devices' /\ devices'[DeviceKey(u)] = devices[DeviceKey(u)]
        BY <1>1, <1>6, <2>2, Zenon DEF Registry, Seen
      <3> QED
        BY <1>6, <3>1 DEF Seen
    <2> QED
      BY <2>1, <2>2
  <1> QED
    BY <1>2, <1>4, <1>5, <1>6, Zenon DEF Seen

\* A record is gone: the others that counted as seen still do.
LEMMA RemovedServes ==
    ASSUME IInv, Players, Alone(sections), AllManned, NEW s \in Services, RecordGone(s)
    PROVE  /\ Alone(sections') /\ AllManned'
           /\ \A u \in Services : u # s /\ Seen(devices, u) => Seen(devices', u)
  <1>1. CASE UNCHANGED << devices, manager >>
    BY <1>1 DEF manager, AllManned
  <1>2. CASE \E ev, key, dev : /\ Registry(ev, key, dev) /\ OnRegistryEvent(ev, key, dev)
                               /\ Unpublished(s, ev, key, dev)
    <2>1. PICK ev, key, dev : /\ Registry(ev, key, dev) /\ OnRegistryEvent(ev, key, dev)
                              /\ Unpublished(s, ev, key, dev)
      BY <1>2
    <2>2. key = s.head /\ key \in DOMAIN devices
      BY <2>1 DEF Unpublished
    <2>3. Who(key, dev) \in Whole
      <3>1. devices[key].name = dev.name
        BY <2>1, <2>2 DEF Registry
      <3>2. Who(key, devices[key]) \in Whole
        BY <2>2 DEF AllManned
      <3> QED
        BY <3>1, <3>2 DEF Who
    <2>4. Alone(sections') /\ AllManned'
      BY <2>1, <2>3, EventMans DEF IInv, Players
    <2>5. ASSUME NEW u \in Services, u # s, Seen(devices, u) PROVE Seen(devices', u)
      <3> DEFINE k == DeviceKey(u)
      <3>1. CASE k # key
        <4>1. k \in DOMAIN devices' /\ devices'[k] = devices[k]
          BY <2>1, <2>5, <3>1, Zenon DEF Registry, Seen
        <4> QED
          BY <2>5, <4>1 DEF Seen
      <3>2. CASE k = key
        <4>1. u.type # s.type
          <5>1. KeysOf(u) \cap KeysOf(s) # {}
            BY <2>2, <3>2 DEF KeysOf
          <5> QED
            BY <2>5, <5>1, ReceiversAssumption, Zenon
        <4>2. u.type \in {"raop", "airplay"}
          BY ServicesAssumption DEF ServiceOK
        <4>3. SeenAs(dev, u.type)
          BY <2>1, <2>5, <3>2, <4>1, <4>2, Zenon DEF Unpublished, Seen
        <4>4. Left(dev)
          BY <4>3, Zenon DEF SeenAs, Left
        <4>5. key \in DOMAIN devices' /\ devices'[key] = dev
          BY <2>1, <4>4, Zenon DEF Registry, Unpublished
        <4> QED
          BY <3>2, <4>3, <4>5, Zenon DEF Seen
      <3> QED
        BY <3>1, <3>2
    <2> QED
      BY <2>4, <2>5
  <1> QED
    BY <1>1, <1>2, RecordGoneIs DEF Players

\* A tracker that has lost no question unanswered.
LEMMA StillLearnt ==
    ASSUME NEW s, NEW old, NEW new, Learnt(s, old),
           "SRV" \in old.active => "SRV" \in new.active \/ (new.port = s.port /\ new.host),
           "TXT" \in old.active => "TXT" \in new.active \/ new.txt,
           old.port = s.port /\ old.host => new.port = s.port /\ new.host,
           old.txt => new.txt
    PROVE  Learnt(s, new)
  BY Zenon DEF Learnt

\* A tracker with its fields given.
TrackerOf(active, port, host, address, txt) ==
    [active |-> active, port |-> port, host |-> host, address |-> address, txt |-> txt]

LEMMA TrackerOfIs ==
    \A t, active, port, host, address, txt :
        t = TrackerOf(active, port, host, address, txt) =>
            /\ t.active = active /\ t.port = port /\ t.host = host
            /\ t.address = address /\ t.txt = txt
  BY DEF TrackerOf

\* What is learnt with an answer.
LEMMA AnswerLearns ==
    ASSUME NEW s \in Services, NEW old \in TrackerRec, Learnt(s, old),
           NEW question \in Kinds, NEW address
    PROVE  Learnt(s, Answered(s, old, question, address))
  <1> DEFINE t == [old EXCEPT !.active = @ \ {question}]
             u == Answered(s, old, question, address)
             rest == old.active \ {question}
             port == old.port
             host == old.host
             yes  == TRUE
             txt  == old.txt
  <1>1. t = TrackerOf(rest, port, host, old.address, txt)
    <2>1. old = TrackerOf(old.active, port, host, old.address, txt)
      BY DEF TrackerRec, TrackerOf
    <2>2. t = [old EXCEPT !.active = rest]
      OBVIOUS
    <2> HIDE DEF t, rest, port, host, txt
    <2> QED
      BY <2>1, <2>2 DEF TrackerOf
  <1>2. yes = TRUE
    OBVIOUS
  <1>3. u = CASE question = "SRV" -> [t EXCEPT !.port = s.port, !.host = TRUE]
              [] question = "TXT" -> [t EXCEPT !.txt = TRUE]
              [] question = "A"   -> [t EXCEPT !.address = address]
    BY DEF Answered
  <1> HIDE DEF t, u, rest, port, host, yes, txt
  <1>4. CASE question = "SRV"
    <2> DEFINE first == [t EXCEPT !.port = s.port]
    <2>1. u = [first EXCEPT !.host = yes]
      BY <1>2, <1>4, <1>3, Zenon
    <2>2. first = TrackerOf(rest, s.port, host, old.address, txt)
      BY <1>1 DEF TrackerOf
    <2> HIDE DEF first
    <2>3. u = TrackerOf(rest, s.port, yes, old.address, txt)
      BY <2>1, <2>2 DEF TrackerOf
    <2>4. u.active = rest /\ u.port = s.port /\ u.host = yes /\ u.txt = txt
      BY <2>3, TrackerOfIs
    <2>5. "TXT" \in old.active => "TXT" \in u.active
      BY <1>4, <2>4 DEF rest
    <2>6. u.port = s.port /\ u.host
      BY <1>2, <2>4, Zenon
    <2>7. old.txt => u.txt
      BY <2>4, Zenon DEF txt
    <2> QED
      BY <2>5, <2>6, <2>7, StillLearnt, Zenon DEF u
  <1>5. CASE question = "TXT"
    <2>1. u = [t EXCEPT !.txt = yes]
      BY <1>2, <1>5, <1>3, Zenon
    <2>2. u = TrackerOf(rest, port, host, old.address, yes)
      BY <1>1, <2>1 DEF TrackerOf
    <2>3. u.active = rest /\ u.port = port /\ u.host = host /\ u.txt = yes
      BY <2>2, TrackerOfIs
    <2>4. "SRV" \in old.active => "SRV" \in u.active
      BY <1>5, <2>3 DEF rest
    <2>5. old.port = s.port /\ old.host => u.port = s.port /\ u.host
      BY <2>3, Zenon DEF port, host
    <2>6. u.txt
      BY <1>2, <2>3, Zenon
    <2> QED
      BY <2>4, <2>5, <2>6, StillLearnt, Zenon DEF u
  <1>6. CASE question = "A"
    <2>1. u = [t EXCEPT !.address = address]
      BY <1>6, <1>3, Zenon
    <2>2. u = TrackerOf(rest, port, host, address, txt)
      BY <1>1, <2>1 DEF TrackerOf
    <2>3. u.active = rest /\ u.port = port /\ u.host = host /\ u.txt = txt
      BY <2>2, TrackerOfIs
    <2>4. /\ "SRV" \in old.active => "SRV" \in u.active
          /\ "TXT" \in old.active => "TXT" \in u.active
      BY <1>6, <2>3 DEF rest
    <2>5. old.port = s.port /\ old.host => u.port = s.port /\ u.host
      BY <2>3, Zenon DEF port, host
    <2>6. old.txt => u.txt
      BY <2>3, Zenon DEF txt
    <2> QED
      BY <2>4, <2>5, <2>6, StillLearnt, Zenon DEF u
  <1> QED
    BY <1>4, <1>5, <1>6 DEF Kinds, u

-----------------------------------------------------------------------------
(* The steps, as the receivers that wait for a player see them.             *)

\* Nothing is reported before the browser is started.
NothingYet == main \in {"statics", "start"} => reported = {} /\ DOMAIN resolvers = {}

Serving ==
    /\ NothingYet
    /\ failures = 0 => Alone(sections)
    /\ Looping /\ failures = 0 => TrackersThere /\ AllManned

LEMMA ServingBegins == Init => Serving
  <1> SUFFICES ASSUME Init PROVE Serving
    OBVIOUS
  <1>1. reported = {} /\ resolvers = NoMap /\ loop = "none" /\ sections = AssignAll(Authored)
    BY DEF Init
  <1>2. Sections(sections)
    BY <1>1, AuthoredAssumption, AssignAllFinishes
  <1>3. Alone(sections)
    BY <1>1, <1>2, UnsharedAssumption, UnsharedIs
  <1>4. NothingYet /\ ~Looping
    BY <1>1 DEF NothingYet, NoMap, Looping
  <1> QED
    BY <1>3, <1>4 DEF Serving

\* A step that touches neither the browser's trackers nor the players.
LEMMA ServingSame ==
    ASSUME Serving, UNCHANGED << reported, resolvers, failures, devices, sections >>,
           DOMAIN sessions' = DOMAIN sessions, Looping' => Looping, Onward
    PROVE  Serving'
  <1>1. NothingYet'
    BY DEF Serving, NothingYet, Onward
  <1>2. TrackersThere => TrackersThere'
    BY DEF TrackersThere
  <1>3. AllManned => AllManned'
    BY DEF AllManned, Manned
  <1> QED
    BY <1>1, <1>2, <1>3 DEF Serving

LEMMA BrowseAddServes ==
    ASSUME IInv, Typed, Serving, NEW s \in Services, BrowseAdd(s)
    PROVE  Serving'
  <1>1. /\ Looping /\ UNCHANGED << browsing, loop, main, devices, sections, sessions >>
        /\ reported' = reported \cup {s} /\ s \notin reported
    BY DEF BrowseAdd, control, manager
  <1>2. NothingYet'
    BY <1>1 DEF NothingYet, IInv, LoopKept, Looping
  <1> SUFFICES ASSUME failures' = 0
               PROVE  Alone(sections') /\ TrackersThere' /\ AllManned'
    BY <1>2, Zenon DEF Serving
  <1>3. PICK active \in { {"SRV", "TXT"}, {"SRV"}, {} } :
            /\ failures' = failures + (IF active = {"SRV", "TXT"} THEN 0 ELSE 1)
            /\ IF s \in DOMAIN resolvers \/ active = {}
               THEN UNCHANGED << resolvers, asked >>
               ELSE resolvers' = With(resolvers, s, Tracker(active))
    BY DEF BrowseAdd
  <1>4. failures = 0 /\ active = {"SRV", "TXT"}
    BY <1>3 DEF Typed
  <1>5. TrackersThere /\ AllManned /\ Alone(sections)
    BY <1>1, <1>4 DEF Serving
  <1>6. resolvers' = With(resolvers, s, Tracker(active))
    BY <1>1, <1>3, <1>4, <1>5 DEF TrackersThere
  <1>7. DOMAIN resolvers' = reported'
    BY <1>1, <1>5, <1>6 DEF With, TrackersThere
  <1>8. OnItsWay(devices', s, resolvers'[s])
    BY <1>4, <1>6 DEF With, Tracker, OnItsWay, Learnt
  <1>9. ASSUME NEW u \in reported PROVE OnItsWay(devices', u, resolvers'[u])
    <2>1. resolvers'[u] = resolvers[u]
      BY <1>1, <1>5, <1>6 DEF With, TrackersThere
    <2> QED
      BY <1>1, <1>5, <2>1 DEF TrackersThere
  <1>10. TrackersThere'
    BY <1>1, <1>7, <1>8, <1>9 DEF TrackersThere
  <1>11. AllManned'
    BY <1>1, <1>5 DEF AllManned
  <1> QED
    BY <1>1, <1>5, <1>10, <1>11

LEMMA BrowseRemoveServes ==
    ASSUME IInv, Players, Serving, NEW s \in Services, BrowseRemove(s)
    PROVE  Serving'
  <1>1. /\ Looping /\ UNCHANGED << browsing, loop, main, failures >>
        /\ reported' = reported \ {s} /\ StopResolve(s) /\ RecordGone(s)
    BY DEF BrowseRemove, control
  <1>2. NothingYet'
    BY <1>1 DEF NothingYet, IInv, LoopKept, Looping
  <1> SUFFICES ASSUME failures = 0
               PROVE  Alone(sections') /\ TrackersThere' /\ AllManned'
    BY <1>1, <1>2, Zenon DEF Serving
  <1>3. TrackersThere /\ AllManned /\ Alone(sections)
    BY <1>1 DEF Serving
  <1>4. /\ Alone(sections') /\ AllManned'
        /\ \A u \in Services : u # s /\ Seen(devices, u) => Seen(devices', u)
    BY <1>1, <1>3, RemovedServes
  <1>5. DOMAIN resolvers' = reported'
    BY <1>1, <1>3 DEF StopResolve, Without, TrackersThere
  <1>6. ASSUME NEW u \in reported' PROVE OnItsWay(devices', u, resolvers'[u])
    <2>1. resolvers'[u] = resolvers[u] /\ u \in reported /\ u # s /\ u \in Services
      BY <1>1, <1>3, <1>6 DEF StopResolve, Without, TrackersThere, IInv, Trackers
    <2> QED
      BY <1>3, <1>4, <2>1 DEF TrackersThere, OnItsWay
  <1>7. TrackersThere'
    BY <1>5, <1>6 DEF TrackersThere
  <1> QED
    BY <1>4, <1>7

\* The trackers after an answer: one has changed.
LEMMA OneTurns ==
    ASSUME TrackersThere, NEW s \in DOMAIN resolvers, NEW new, reported' = reported,
           resolvers' = [resolvers EXCEPT ![s] = new],
           \A u : Seen(devices, u) => Seen(devices', u),
           OnItsWay(devices', s, new)
    PROVE  TrackersThere'
  <1>1. DOMAIN resolvers' = DOMAIN resolvers /\ resolvers'[s] = new
    OBVIOUS
  <1>2. ASSUME NEW u \in reported' PROVE OnItsWay(devices', u, resolvers'[u])
    <2>1. CASE u = s
      BY <1>1, <2>1
    <2>2. CASE u # s
      <3>1. resolvers'[u] = resolvers[u] /\ OnItsWay(devices, u, resolvers[u])
        BY <2>2 DEF TrackersThere
      <3> QED
        BY <3>1, Zenon DEF OnItsWay
    <2> QED
      BY <2>1, <2>2
  <1> QED
    BY <1>1, <1>2 DEF TrackersThere

LEMMA ProceedServes ==
    ASSUME IInv, Typed, Players, TrackersThere, AllManned, Alone(sections), failures = 0,
           NEW s \in DOMAIN resolvers, NEW t \in TrackerRec, Learnt(s, t),
           reported' = reported, Proceed(s, t), failures' = 0
    PROVE  Alone(sections') /\ TrackersThere' /\ AllManned'
  <1> DEFINE done  == t.active = {}
             again == done /\ t.port /\ t.host /\ t.address = ""
  <1>0. s \in Services
    BY DEF IInv, Trackers
  <1>1. CASE /\ again
             /\ resolvers' = [resolvers EXCEPT ![s] = [t EXCEPT !.active = {"A"}]]
             /\ UNCHANGED << devices, manager >>
    <2> DEFINE u == [t EXCEPT !.active = {"A"}]
               txt == t.txt
               port == t.port
               host == t.host
    <2>1. u.active = {"A"} /\ u.txt = txt /\ u.port = port /\ u.host = host
      <3>1. t = TrackerOf(t.active, port, host, t.address, txt)
        BY DEF TrackerRec, TrackerOf
      <3> HIDE DEF u, port, host, txt
      <3>2. u = TrackerOf({"A"}, port, host, t.address, txt)
        BY <3>1 DEF TrackerOf, u
      <3> QED
        BY <3>2, TrackerOfIs
    <2>2. resolvers' = [resolvers EXCEPT ![s] = u]
      BY <1>1
    <2>3. "SRV" \notin t.active /\ "TXT" \notin t.active
      BY <1>1
    <2> HIDE DEF u
    <2>4. Learnt(s, u)
      BY <2>1, <2>3, StillLearnt, Zenon
    <2>5. OnItsWay(devices', s, u)
      BY <2>1, <2>4 DEF OnItsWay
    <2>6. TrackersThere'
      BY <1>1, <2>2, <2>5, OneTurns
    <2> QED
      BY <1>1, <2>6 DEF manager, AllManned
  <1>2. CASE /\ ~again
             /\ resolvers' = [resolvers EXCEPT ![s] = t]
             /\ IF done THEN Publish(s, t) ELSE UNCHANGED << devices, manager >>
    <2>1. CASE done /\ t.port
      <3>1. t.host /\ t.txt /\ t.active = {}
        BY <2>1 DEF Learnt
      <3>2. RecordAdded(s, t)
        BY <1>2, <2>1, <3>1 DEF Publish
      <3>3. /\ Alone(sections') /\ AllManned'
            /\ Seen(devices', s)
            /\ \A u : Seen(devices, u) => Seen(devices', u)
        BY <1>0, <3>1, <3>2, PublishedServes
      <3>4. OnItsWay(devices', s, t)
        BY <3>3, Zenon DEF OnItsWay
      <3>5. TrackersThere'
        BY <1>2, <3>3, <3>4, OneTurns
      <3> QED
        BY <3>3, <3>5
    <2>2. CASE ~(done /\ t.port)
      <3>1. UNCHANGED << devices, manager >>
        BY <1>2, <2>2 DEF Publish
      <3>2. done => t.port = s.port
        BY DEF Learnt
      <3>3. OnItsWay(devices', s, t)
        BY <2>2, <3>2, Zenon DEF OnItsWay
      <3>4. TrackersThere'
        BY <1>2, <3>1, <3>3, OneTurns
      <3> QED
        BY <3>1, <3>4 DEF manager, AllManned
    <2> QED
      BY <2>1, <2>2
  <1> HIDE DEF again
  <1>3. \/ /\ again
           /\ resolvers' = [resolvers EXCEPT ![s] = [t EXCEPT !.active = {"A"}]]
           /\ UNCHANGED << devices, manager >>
        \/ /\ failures' = IF again THEN failures + 1 ELSE failures
           /\ resolvers' = [resolvers EXCEPT ![s] = t]
           /\ IF done THEN Publish(s, t) ELSE UNCHANGED << devices, manager >>
    BY Zenon DEF Proceed, again
  <1>4. again => ~ (failures' = IF again THEN failures + 1 ELSE failures)
    OBVIOUS
  <1> QED
    BY <1>1, <1>2, <1>3, <1>4

LEMMA AnswerServes ==
    ASSUME IInv, Typed, Players, Serving, NEW s \in Services, NEW question \in Kinds,
           Answer(s, question)
    PROVE  Serving'
  <1> DEFINE u == Answered(s, resolvers[s], question, addr[s.receiver])
  <1>1. /\ Looping /\ UNCHANGED << browsing, loop, main, reported >>
        /\ s \in DOMAIN resolvers /\ resolvers[s] \in TrackerRec
        /\ addr[s.receiver] \in Addresses /\ Proceed(s, u)
    BY AnswerIs
  <1>2. NothingYet'
    BY <1>1 DEF NothingYet, IInv, LoopKept, Looping
  <1>3. failures' = 0 => failures = 0
    <2>1. failures' = failures \/ failures' = failures + 1
      BY <1>1 DEF Proceed
    <2>2. failures \in 0 .. MaxFailures
      BY DEF Typed
    <2> QED
      BY <2>1, <2>2, BoundsAssumption
  <1> SUFFICES ASSUME failures' = 0
               PROVE  Alone(sections') /\ TrackersThere' /\ AllManned'
    BY <1>2, Zenon DEF Serving
  <1>4. TrackersThere /\ AllManned /\ Alone(sections)
    BY <1>1, <1>3 DEF Serving
  <1>5. Learnt(s, u)
    <2>1. Learnt(s, resolvers[s])
      BY <1>1, <1>4 DEF TrackersThere, OnItsWay
    <2> QED
      BY <1>1, <2>1, AnswerLearns
  <1>6. u \in TrackerRec
    BY <1>1, AnsweredIs
  <1> HIDE DEF u
  <1> QED
    BY <1>1, <1>3, <1>4, <1>5, <1>6, ProceedServes

LEMMA MainServes ==
    ASSUME IInv, Typed, Players, Serving, Main
    PROVE  Serving'
  <1>1. ASSUME StartStatic, starting = << >> PROVE Serving'
    BY <1>1, ServingSame DEF StartStatic, manager, browser, Onward, Looping
  <1>2. ASSUME StartStatic, starting # << >> PROVE Serving'
    <2> DEFINE d == Head(starting)
               who == [id |-> d.id, name |-> d.name]
               dev == [Unseen EXCEPT !.name = d.name]
               auto == AutoRegister
    <2>1. /\ main = "statics" /\ UNCHANGED << main, devices, reported, resolvers, failures, loop >>
          /\ OnRegistryEvent("Added", d.id, dev)
      BY <1>2 DEF StartStatic, browser
    <2>2. d \in Statics /\ OwnKey(sections, d)
      <3>1. starting \in Seq(Statics) /\ \A x \in Statics : OwnKey(sections, x)
        BY DEF Players, StaticsKept
      <3> QED
        BY <1>2, <3>1, HeadTailProperties
    <2> HIDE DEF d
    <2>3. dev.name = d.name
      BY DEF Unseen
    <2>4. sections' = resolve(sections, who, "Added" = "Added" /\ AutoRegister)
      BY <2>1, <2>3 DEF OnRegistryEvent
    <2>5. OwnKey(sections, who) /\ Ready(sections) /\ NamedRight(sections)
      BY <2>2 DEF OwnKey, IInv, Assigned, Players
    <2>6. ("Added" = "Added" /\ AutoRegister) \in BOOLEAN
      OBVIOUS
    <2> HIDE DEF who, auto
    <2>7. failures = 0 => Alone(sections')
      BY <2>4, <2>5, <2>6, ResolveAlone DEF Serving
    <2>8. NothingYet' /\ ~Looping'
      BY <2>1 DEF Serving, NothingYet, IInv, LoopKept, Looping
    <2> QED
      BY <2>1, <2>7, <2>8 DEF Serving
  <1>3. ASSUME NEW ok \in BOOLEAN, StartBrowser(ok) PROVE Serving'
    <2>1. /\ main = "start" /\ main' = "run"
          /\ UNCHANGED << reported, resolvers, failures, devices, sections >>
      BY <1>3 DEF StartBrowser, manager
    <2>2. reported = {} /\ DOMAIN resolvers = {} /\ DOMAIN devices = {}
      BY <2>1 DEF Serving, NothingYet, Players, StaticsKept
    <2>3. TrackersThere' /\ AllManned'
      BY <2>1, <2>2 DEF TrackersThere, AllManned
    <2>4. NothingYet'
      BY <2>1 DEF NothingYet
    <2> QED
      BY <2>1, <2>3, <2>4 DEF Serving
  <1>4. ASSUME Stop PROVE Serving'
    BY <1>4, ServingSame DEF Stop, manager, browser, Onward, Looping
  <1>5. ASSUME Joined PROVE Serving'
    <2>1. /\ main' = "done" /\ ~Looping'
          /\ UNCHANGED << failures, sections >>
      BY <1>5 DEF Joined, browser, Looping
    <2> QED
      BY <2>1 DEF Serving, NothingYet
  <1> QED
    BY <1>1, <1>2, <1>3, <1>4, <1>5 DEF Main

LEMMA OthersKeepServing ==
    ASSUME IInv, Serving, Teardown \/ (\E key \in DOMAIN sessions : Play(key))
                    \/ (\E s \in Services, a \in Addresses : Power(s, a)) \/ UNCHANGED vars
    PROVE  Serving'
  <1>1. ASSUME Teardown PROVE Serving'
    <2>1. loop = "run" /\ loop' = "ended" /\ UNCHANGED << failures, main, sections >>
      BY <1>1 DEF Teardown, manager
    <2>2. NothingYet' /\ ~Looping'
      BY <2>1 DEF NothingYet, IInv, LoopKept, Looping
    <2> QED
      BY <2>1, <2>2 DEF Serving
  <1>2. ASSUME NEW key \in DOMAIN sessions, Play(key) PROVE Serving'
    BY <1>2, ServingSame DEF Play, browser, control, Onward, Looping
  <1>3. ASSUME NEW s, NEW a, Power(s, a) PROVE Serving'
    BY <1>3, ServingSame DEF Power, browser, control, manager, Onward, Looping
  <1>4. ASSUME UNCHANGED vars PROVE Serving'
    BY <1>4, ServingSame DEF vars, browser, control, manager, Onward, Looping
  <1> QED
    BY <1>1, <1>2, <1>3, <1>4

-----------------------------------------------------------------------------
(* The theorems.                                                            *)

\* The inductive invariant: a tracker and its questions agree, nothing is
\* asked outside the life of the loop thread, every section has its MAC.
THEOREM ReceiversInvariance == Spec => []IInv
  <1>1. Init => IInv
    BY Begins
  <1>2. IInv /\ [Next]_vars => IInv'
    <2> SUFFICES ASSUME IInv, [Next]_vars PROVE IInv'
      OBVIOUS
    <2>1. ASSUME NEW s \in Services, Callback(s) PROVE IInv'
      <3>1. ASSUME NEW question \in Kinds, Answer(s, question) PROVE IInv'
        BY <3>1, AnswerKeeps
      <3> QED
        BY <2>1, <3>1, BrowseAddKeeps, BrowseRemoveKeeps DEF Callback, Kinds
    <2> QED
      BY <2>1, MainKeeps, OthersKeep DEF Next
  <1> QED
    BY <1>1, <1>2, PTL DEF Spec

\* A question the library has always points at a live tracker, whichever way
\* callbacks, refused questions, removals and the teardown interleave.
THEOREM QuestionsAreOwned == Spec => []NoDanglingQuestion
  <1>1. IInv => NoDanglingQuestion
    BY AsksAll DEF IInv, LoopKept, NoDanglingQuestion
  <1> QED
    BY <1>1, ReceiversInvariance, PTL

\* No two players share a virtual MAC, for every set of written sections,
\* hash, and order in which receivers come and go.
THEOREM MacsStayDistinct == Spec => []MacsDistinct
  <1>1. IInv => MacsDistinct
    <2> SUFFICES ASSUME IInv, Len(sections) <= 256, NEW i \in DOMAIN sections,
                        NEW j \in DOMAIN sections, i # j
                 PROVE  sections[i].mac # sections[j].mac
      BY DEF MacsDistinct
    <2>1. i \in 1 .. Len(sections) /\ j \in 1 .. Len(sections)
      BY DEF IInv, Assigned, Ready, Sections
    <2>2. sections[i].mac # NoMac /\ Unrepeated(sections)
      BY <2>1 DEF IInv, Assigned, Ready, Apart, HaveMacs
    <2> QED
      BY <2>1, <2>2 DEF Unrepeated
  <1> QED
    BY <1>1, ReceiversInvariance, PTL

\* The inductive invariant of the players: every device of the registry is one
\* that a service announces, sections are named right, and a session belongs to
\* a section and follows a device of its own.
THEOREM PlayersInvariance == Spec => [](Typed /\ Players)
  <1> DEFINE Inv == IInv /\ Typed /\ Players
  <1>1. Init => Inv
    BY Begins, TypedBegin, PlayersBegin
  <1>2. Inv /\ IInv' /\ [Next]_vars => Inv'
    <2> SUFFICES ASSUME IInv, Typed, Players, [Next]_vars PROVE Typed' /\ Players'
      OBVIOUS
    <2>1. ASSUME NEW s \in Services, Callback(s) PROVE Typed' /\ Players'
      BY <2>1, CallbackKeepsTyped, CallbackKeepsPlayers
    <2>2. ASSUME Main PROVE Typed' /\ Players'
      BY <2>2, OthersKeepTyped, MainKeepsPlayers
    <2> QED
      BY <2>1, <2>2, OthersKeepTyped, OthersKeepPlayers DEF Next
  <1>3. Inv => Typed /\ Players
    OBVIOUS
  <1> QED
    BY <1>1, <1>2, <1>3, ReceiversInvariance, PTL DEF Spec

\* Every variable keeps its type, and a player session belongs to a section,
\* whichever way receivers come, go and change.
THEOREM ReceiversTypes == Spec => []TypeOK
  <1>1. IInv /\ Typed /\ Players => TypeOK
    <2> SUFFICES ASSUME IInv, Typed, Players PROVE TypeOK
      OBVIOUS
    <2>1. ASSUME NEW key \in DOMAIN sessions
          PROVE  \E i \in DOMAIN sections : KeyOf(sections[i]) = key
      <3>1. PICK i \in 1 .. Len(sections) : KeyOf(sections[i]) = key
        BY Zenon DEF Players, PlayersKept
      <3>2. DOMAIN sections = 1 .. Len(sections)
        BY DEF IInv, Assigned, Ready, Sections
      <3> QED
        BY <3>1, <3>2
    <2>2. DOMAIN resolvers \subseteq Services /\ addr \in [Receivers -> Addresses]
      BY DEF IInv, Trackers
    <2> QED
      BY <2>1, <2>2 DEF Typed, TypeOK
  <1> QED
    BY <1>1, ReceiversInvariance, PlayersInvariance, PTL

\* A session never keeps the target of a device that is gone, of an address a
\* receiver had, or of a transport it no longer offers: for every set of
\* services, written sections and order of their records, a session that
\* follows the registry has the target its device has now, save for audio in
\* flight.
THEOREM TargetsStayCurrent == Spec => []TargetsCurrent
  <1>1. Players => TargetsCurrent
    BY DEF Players
  <1> QED
    BY <1>1, PlayersInvariance, PTL

\* The inductive invariant of those who wait for a player: no section is
\* claimed by two receivers, each tracker still asks for what it has not got,
\* and each device of the registry has its player.
THEOREM ServingInvariance == Spec => []Serving
  <1> DEFINE Inv == IInv /\ Typed /\ Players
  <1>1. Init => Serving
    BY ServingBegins
  <1>2. Inv /\ Serving /\ [Next]_vars => Serving'
    <2> SUFFICES ASSUME IInv, Typed, Players, Serving, [Next]_vars PROVE Serving'
      OBVIOUS
    <2>1. ASSUME NEW s \in Services, Callback(s) PROVE Serving'
      <3>1. ASSUME NEW question \in Kinds, Answer(s, question) PROVE Serving'
        BY <3>1, AnswerServes
      <3> QED
        BY <2>1, <3>1, BrowseAddServes, BrowseRemoveServes DEF Callback, Kinds
    <2> QED
      BY <2>1, MainServes, OthersKeepServing DEF Next
  <1>3. Spec => []Inv
    BY ReceiversInvariance, PlayersInvariance, PTL
  <1> QED
    BY <1>1, <1>2, <1>3, PTL DEF Spec

\* Whatever was written before, and in whichever order records, their answers
\* and the removals of earlier ones came: when the library has reported every
\* change and no question is left, each receiver that is there has its player.
THEOREM SettledAreServed == Spec => []SettledIsServed
  <1>1. IInv /\ Serving => SettledIsServed
    <2> SUFFICES ASSUME IInv, Serving, Looping, reported = up, asked = {}, failures = 0,
                        AutoRegister, NEW s \in up, s.port
                 PROVE  HasPlayer(DeviceOf(s))
      BY DEF SettledIsServed
    <2> DEFINE k == DeviceKey(s)
    <2>1. TrackersThere /\ AllManned /\ Sections(sections)
      BY DEF Serving, IInv, Assigned, Ready
    <2>2. s \in DOMAIN resolvers /\ s \in Services /\ OnItsWay(devices, s, resolvers[s])
      BY <2>1 DEF TrackersThere, IInv, Trackers
    <2>3. resolvers[s].active = {}
      BY <2>2 DEF IInv, Asks, Trackers, TrackerRec
    <2>4. k \in DOMAIN devices
      BY <2>2, <2>3 DEF OnItsWay, Seen
    <2>5. Who(k, devices[k]) \in Whole /\ Manned(sections, sessions, Who(k, devices[k]))
      BY <2>1, <2>4 DEF AllManned
    <2>6. Who(k, devices[k]) = DeviceOf(s)
      <3>1. PICK t \in Services : Who(k, devices[k]) = DeviceOf(t)
        BY <2>5 DEF Whole
      <3>2. DeviceKey(t) = k /\ devices[k].name = t.name
        BY <3>1 DEF DeviceOf, Who
      <3>3. KeysOf(s) \cap KeysOf(t) # {}
        BY <3>2 DEF KeysOf
      <3>4. s.name = t.name
        BY <2>2, <3>3, NamesAssumption, Zenon
      <3> QED
        BY <3>2, <3>4 DEF DeviceOf, Who
    <2> QED
      BY <2>1, <2>5, <2>6, HasPlayerIs
  <1> QED
    BY <1>1, ReceiversInvariance, ServingInvariance, PTL
=============================================================================
