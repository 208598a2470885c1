--------------------------- MODULE PlayerSections ---------------------------
(* The [player] sections of the config and state file as Persistence keeps  *)
(* them in memory: how a device finds its section, how a section is created *)
(* and how it gets its virtual MAC.  Operators only; the modules that keep  *)
(* sections in a variable extend this one.                                  *)
(*                                                                          *)
(* Ids, names and header names are compared case-insensitively by the code: *)
(* the values here stand for their lower-case forms.  "" is an absent one.  *)
EXTENDS Naturals, Sequences, FiniteSets, FiniteSetsExt, SequencesExt

CONSTANTS
    HexIds,     \* the device ids that are twelve hex digits
    HashOf      \* HashOf[k]: the MAC base fakeMacFor() derives from key k

\* No virtual MAC has been assigned yet: hasMac is false.
NoMac == << >>

\* A virtual MAC: four hash bytes, and the last byte, which is 1 at first.
fakeMacFor(key) == << HashOf[key], 1 >>

NoCreds == ""

\* struct Section: `shown` is config.name, `renamed` hasNameOverride and
\* `auto` autoRegistered.
NewSection(name, auto) ==
    [name |-> name, id |-> "", mac |-> NoMac, creds |-> NoCreds,
     shown |-> name, renamed |-> FALSE, auto |-> auto]

\* Sections are a sequence, and each has the fields of struct Section.
Shaped(sec) ==
    sec = [name |-> sec.name, id |-> sec.id, mac |-> sec.mac, creds |-> sec.creds,
           shown |-> sec.shown, renamed |-> sec.renamed, auto |-> sec.auto]
Sections(secs) ==
    /\ Len(secs) \in Nat
    /\ secs = [i \in 1 .. Len(secs) |-> secs[i]]
    /\ \A i \in 1 .. Len(secs) : Shaped(secs[i])

\* No MAC that was assigned is there twice.
Unrepeated(secs) ==
    \A i, j \in 1 .. Len(secs) :
        i # j /\ secs[i].mac # NoMac => secs[i].mac # secs[j].mac

\* The first of a set of positions, 0 when there is none.
FirstOf(S) == IF S = {} THEN 0 ELSE Min(S)

\* findSection(): by id, then by header name; 0 when there is none.
findSection(secs, key) ==
    LET byId   == { i \in DOMAIN secs : secs[i].id # "" /\ secs[i].id = key }
        byName == { i \in DOMAIN secs : secs[i].name = key }
    IN  IF byId # {} THEN Min(byId) ELSE FirstOf(byName)

\* ensureSection(): the sections with one for `key`.
ensureSection(secs, key, name, auto) ==
    IF findSection(secs, key) # 0
    THEN secs
    ELSE Append(secs, NewSection(IF name = "" THEN key ELSE name, auto))

\* Mutant: the hashed MAC is taken as it is.
assignMac_NoProbe(secs, i) ==
    IF secs[i].mac # NoMac
    THEN secs
    ELSE [secs EXCEPT ![i].mac =
             fakeMacFor(IF secs[i].id # "" THEN secs[i].id ELSE secs[i].name)]

\* assignMacLocked(): the first MAC from the hashed one on that no other
\* section has.  Of the 256 tries no more than one per section can fail.
assignMac(secs, i) ==
    LET base  == fakeMacFor(IF secs[i].id # "" THEN secs[i].id ELSE secs[i].name)
        taken == { secs[j].mac : j \in DOMAIN secs \ {i} }
        Bumped(k) == << base[1], (base[2] + k) % 256 >>
        tries == { k \in 0 .. Len(secs) : Bumped(k) \notin taken }
    IN  IF secs[i].mac # NoMac
        THEN secs
        ELSE [secs EXCEPT ![i].mac = Bumped(Min(tries))]

\* The key finalizeSection() hands out: the id, or the header name.
KeyOf(sec) == IF sec.id # "" THEN sec.id ELSE sec.name

\* staticPlayers(): the sections the user wrote, as the devices runBridge()
\* announces them to the session manager.
StaticDevice(sec) == [id |-> KeyOf(sec), name |-> sec.shown]
staticPlayers(secs) ==
    FlattenSeq([i \in DOMAIN secs |->
                   IF secs[i].auto THEN << >> ELSE << StaticDevice(secs[i]) >>])

\* The match of resolve(): by id, then by the MAC the id would get, then by
\* the header name; 0 when no section matches.
Match(secs, dev) ==
    LET byId   == { i \in DOMAIN secs : dev.id # "" /\ secs[i].id = dev.id }
        byMac  == { i \in DOMAIN secs :
                      dev.id \in HexIds /\ secs[i].mac = fakeMacFor(dev.id) }
        byName == { i \in DOMAIN secs : dev.name # "" /\ secs[i].name = dev.name }
    IN  IF byId # {} THEN Min(byId)
        ELSE IF byMac # {} THEN Min(byMac)
        ELSE FirstOf(byName)

\* The section resolve() registers a device under when nothing matches: one
\* named after it, unless ensureSection() finds another under its id.
KeyFor(dev) == IF dev.id = "" THEN dev.name ELSE dev.id
Grown(secs, dev) ==
    ensureSection(secs, KeyFor(dev), IF dev.name = "" THEN KeyFor(dev) ELSE dev.name, TRUE)
CreatedAt(secs, dev) ==
    LET i == findSection(secs, KeyFor(dev)) IN IF i = 0 THEN Len(secs) + 1 ELSE i

Created(secs, dev) ==
    LET at    == CreatedAt(secs, dev)
        grown == Grown(secs, dev)
        named == [grown EXCEPT ![at].id = IF KeyFor(dev) \in HexIds THEN dev.id ELSE @,
                               ![at].shown = grown[at].name]
    IN  assignMac(named, at)

\* What resolve() makes of the sections when section i matches: the name the
\* device announces is shown unless LMS renamed the player.
Refreshed(secs, i, dev) ==
    [assignMac(secs, i) EXCEPT
        ![i].shown = IF ~secs[i].renamed /\ dev.name # "" THEN dev.name ELSE @]

\* resolve(): the sections it leaves.
resolve(secs, dev, autoRegister) ==
    LET i == Match(secs, dev)
    IN  IF i # 0 THEN Refreshed(secs, i, dev)
        ELSE IF autoRegister THEN Created(secs, dev)
        ELSE secs

\* The position of the section resolve() answers with, 0 for none.
ResolvedAt(secs, dev, autoRegister) ==
    LET i == Match(secs, dev)
    IN  IF i = 0 /\ autoRegister THEN CreatedAt(secs, dev) ELSE i

\* saveCreds() and savePlayerName() on the sections; a key nobody has and a
\* name that is already shown change nothing.
WithCreds(secs, key, creds) ==
    LET i == findSection(secs, key)
    IN  IF i = 0 THEN secs ELSE [secs EXCEPT ![i].creds = creds]

WithName(secs, key, name) ==
    LET i == findSection(secs, key)
    IN  IF i = 0 \/ name = "" \/ secs[i].shown = name
        THEN secs
        ELSE [secs EXCEPT ![i].shown = name, ![i].renamed = TRUE]

\* FoldLeft with every accumulator bound, so that TLC evaluates it once.
Folded(op(_, _), base, seq) ==
    LET upTo[n \in 0 .. Len(seq)] ==
            IF n = 0 THEN base
            ELSE CHOOSE next \in { op(acc, seq[n]) : acc \in {upTo[n - 1]} } : TRUE
    IN  upTo[Len(seq)]

\* The last loop of parse(): every section gets its MAC, in file order.
AssignAll(secs) == Folded(assignMac, secs, [i \in DOMAIN secs |-> i])

\* What of a section is on file: a shown name is, when it is an LMS rename.
OnFile(sec) == IF sec.renamed THEN sec ELSE [sec EXCEPT !.shown = sec.name]
Durable(secs) == FlattenSeq([i \in DOMAIN secs |-> << OnFile(secs[i]) >>])

=============================================================================
