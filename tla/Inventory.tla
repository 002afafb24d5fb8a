------------------------------ MODULE Inventory ------------------------------
(***************************************************************************)
(* The inventory tool: listings that an operator imports into a store of   *)
(* snapshots, and what is made of them: the activation log, a manifest, a  *)
(* queue with its sidecar, and the diff of two snapshots.                  *)
(*                                                                         *)
(* A command shows its work under a temporary name first, or appends one   *)
(* line, so each is one step, except the export of a queue: its sidecar is *)
(* created and then written, after the queue was linked into place. A      *)
(* digest is the contents themselves. A directory, a name and a path are   *)
(* sequences of segments, for a name may hold a slash; URLs are paths, as  *)
(* encode_segment() keeps paths apart. One operator runs one command at a  *)
(* time.                                                                   *)
(***************************************************************************)
EXTENDS Integers, Sequences, SequencesExt, FiniteSets

CONSTANTS
    None,
    Blank,         \* an empty line
    Broken,        \* a line that is too long or not UTF-8
    Texts,         \* all other lines
    HeadOf,        \* by text: the directory it names if it is read as a header, or None
    EntryOf,       \* by text: kind, size and name if it is read as an entry, or None
    Listings,      \* the files an operator imports, line by line
    UnsafeNames,   \* segments that unsafe_path_reason() refuses
    Form,          \* by path: the path after NFC normalization
    Rules,         \* of the policy, in order: the paths that match, and a disposition
    Default,       \* disposition of everything else
    BaseHasData,   \* does the base URL end in /data?
    MaxIssues,     \* --max-issues
    MaxLines,      \* bound: lines of all imported listings
    MaxCommands,   \* bound: commands the operator gives
    MaxDamages     \* bound: files that change behind the tool's back

Lines == Texts \cup {Blank, Broken}
Dispositions == <<"priority", "deferred", "rejected">>
Names == {EntryOf[t].name : t \in {u \in Texts : EntryOf[u] # None}}
Dirs  == {HeadOf[t] : t \in Texts} \ {None}
ASSUME TextAssumption ==
    /\ Texts \subseteq DOMAIN HeadOf /\ Texts \subseteq DOMAIN EntryOf
    /\ \A t \in Texts : EntryOf[t] # None => EntryOf[t].kind \in {"d", "-"} /\ EntryOf[t].size \in Nat
    /\ \A d \in Dirs, n \in Names : d \o n \in DOMAIN Form
    /\ Listings \subseteq Seq(Lines) /\ Blank # Broken /\ {Blank, Broken} \cap Texts = {}
ASSUME PolicyAssumption ==
    /\ Default \in ToSet(Dispositions)
    /\ Rules \in Seq([covers : SUBSET DOMAIN Form, disposition : ToSet(Dispositions)])
ASSUME BoundsAssumption ==
    {MaxIssues, MaxLines, MaxCommands, MaxDamages} \subseteq Nat /\ BaseHasData \in BOOLEAN
Filed == [line : Nat, path : DOMAIN Form, size : Nat, disposition : ToSet(Dispositions),
          rank : 1..Len(Rules) + 2]
ASSUME NoneAssumption ==
    /\ None \notin Nat
    /\ None \notin [snapshot : Seq(Lines), items : Seq(Filed), sha : Seq(Filed)]

VARIABLES
    store,      \* snapshots in the order of their import, accepted and rejected ones
    log,        \* activations.jsonl
    manifest,   \* the manifest directory, None until it is written
    queue,      \* the queue file, None until it is linked into place
    sidecar,    \* its .provenance.json: None, or what is written in it
    report,     \* the diff directory
    exporting,  \* the sidecar that command_queue() has still to write
    commands, damages

vars == <<store, log, manifest, queue, sidecar, report, exporting, commands, damages>>

-----------------------------------------------------------------------------
(* ListingParser. A line is classified by its position, never by its text.  *)

Start == [dir |-> None, expect |-> TRUE, after |-> FALSE, entries |-> <<>>, issues |-> 0,
          number |-> 0]

BrokenLine(p) ==
    [p EXCEPT !.issues = @ + 1, !.dir = IF p.expect THEN None ELSE @, !.expect = FALSE]
\* The blank line after a header only separates it from its entries.
BlankLine(p) == IF p.after THEN [p EXCEPT !.after = FALSE] ELSE [p EXCEPT !.expect = TRUE]
HeaderLine(p, l) ==
    [p EXCEPT !.dir = HeadOf[l], !.expect = FALSE, !.after = HeadOf[l] # None,
              !.issues = IF HeadOf[l] = None THEN @ + 1 ELSE @]
EntryLine(p, l) ==
    LET e == EntryOf[l] IN
    IF e = None \/ p.dir = None THEN [p EXCEPT !.after = FALSE, !.issues = @ + 1]
    ELSE [p EXCEPT !.after = FALSE,
                   !.entries = IF e.kind = "d" THEN @
                               ELSE Append(@, [line |-> p.number, size |-> e.size,
                                               name |-> e.name, path |-> p.dir \o e.name])]

Fault_ByText(p, l) == HeadOf[l] # None
IsHeader(p, l) == p.expect

Numbered(p) == [p EXCEPT !.number = @ + 1]
ParseLine(p, l) ==
    CASE l = Broken -> BrokenLine(Numbered(p))
      [] l = Blank  -> BlankLine(Numbered(p))
      [] OTHER      -> IF IsHeader(p, l) THEN HeaderLine(Numbered(p), l)
                       ELSE EntryLine(Numbered(p), l)
\* The parser after each line, and at the end.
States(text) ==
    LET p[n \in 0..Len(text)] == IF n = 0 THEN Start ELSE ParseLine(p[n - 1], text[n]) IN p
Parse(text) == States(text)[Len(text)]

-----------------------------------------------------------------------------
(* The snapshot store.                                                      *)

\* The next command, once the last one is over.
Command == exporting = None /\ commands < MaxCommands /\ commands' = commands + 1

\* A name with a slash is unsafe, although its path may be another entry's as well.
Unsafe(e) == Len(e.name) > 1 \/ ToSet(e.path) \cap UnsafeNames # {}
Listing   == <<"ALL_FILES">>

Accepted(text) == LET p == Parse(text) IN p.issues <= MaxIssues /\ p.entries # <<>>
ListingsUpTo == [n \in 0..MaxLines |-> {text \in Listings : Len(text) <= n}]
LinesUsed == FoldLeft(LAMBDA n, s : n + Len(s.sha), 0, store)

\* command_snapshot(): the copy is parsed; bytes that are there already are refused.
Snapshot ==
    /\ Command
    /\ \E n \in 0..MaxLines : n = MaxLines - LinesUsed /\ \E text \in ListingsUpTo[n] :
         /\ \A k \in DOMAIN store : store[k].sha # text
         /\ store' = Append(store, [raw |-> text, sha |-> text, accepted |-> Accepted(text)])
    /\ UNCHANGED <<log, manifest, queue, sidecar, report, exporting, damages>>

\* load_snapshot(): accepted, and raw.txt still has its recorded digest.
Fault_AnySnapshot(k) == store[k].raw = store[k].sha
Loads(k) == store[k].accepted /\ store[k].raw = store[k].sha
EntriesOf(k) == Parse(store[k].raw).entries

Activate(k) ==
    /\ Command /\ Loads(k)
    /\ log' = Append(log, [snapshot |-> k,
                           previous |-> IF log = <<>> THEN None ELSE Last(log).snapshot])
    /\ UNCHANGED <<store, manifest, queue, sidecar, report, exporting, damages>>

-----------------------------------------------------------------------------
(* _write_manifest(): every entry in the order of the listing.              *)

\* The first rule that matches decides; the rank of the default is the last.
RankOf(path) ==
    LET k == SelectInSeq(Rules, LAMBDA r : path \in r.covers) IN
    IF k = 0 THEN Len(Rules) + 1 ELSE k
Classify(path) == IF RankOf(path) > Len(Rules) THEN Default ELSE Rules[RankOf(path)].disposition

Seen(entries, k) == \E j \in 1..k - 1 : entries[j].path = entries[k].path
BuiltIn(entries, k) ==
    Unsafe(entries[k]) \/ entries[k].path = Listing \/ Seen(entries, k)

Items(entries) ==
    [k \in DOMAIN entries |->
        LET e == entries[k] IN
        [line |-> e.line, path |-> e.path, size |-> e.size,
         disposition |-> IF BuiltIn(entries, k) THEN "rejected" ELSE Classify(e.path),
         rank |-> IF BuiltIn(entries, k) THEN Len(Rules) + 2 ELSE RankOf(e.path)]]

\* The members of the set S in the order R.
InOrder(S, R) ==
    [n \in 1..Cardinality(S) |->
        CHOOSE x \in S : Cardinality({y \in S : <<y, x>> \in R}) = n - 1]

\* One file for each disposition and rank, joined in order.
Turn(d) == CHOOSE n \in DOMAIN Dispositions : Dispositions[n] = d
BucketOrder(items) ==
    LET turn(k) == Turn(items[k].disposition)
        Before(j, k) == \/ turn(j) < turn(k)
                        \/ /\ turn(j) = turn(k)
                           /\ \/ items[j].rank < items[k].rank
                              \/ items[j].rank = items[k].rank /\ j < k
    IN {p \in (DOMAIN items) \X (DOMAIN items) : Before(p[1], p[2])}
Ordered(items) ==
    [n \in DOMAIN items |-> items[InOrder(DOMAIN items, BucketOrder(items))[n]]]

WriteManifest(k) ==
    /\ Command /\ manifest = None /\ Loads(k)
    /\ LET items == Ordered(Items(EntriesOf(k))) IN
       manifest' = [snapshot |-> store[k].sha, items |-> items, sha |-> items]
    /\ UNCHANGED <<store, log, queue, sidecar, report, exporting, damages>>

-----------------------------------------------------------------------------
(* command_queue(): the manifest is verified, the queue is linked into      *)
(* place, then its sidecar is created and written.                          *)

Fault_Unverified == TRUE
Verified == manifest.items = manifest.sha

\* check_queue_url(): data/ALL_FILES below the collection, and any URL twice.
Refused(rows) ==
    \/ ~BaseHasData /\ \E k \in DOMAIN rows : rows[k].path = <<"data", "ALL_FILES">>
    \/ \E j, k \in DOMAIN rows : j # k /\ rows[j].path = rows[k].path

\* The URLs of one disposition, in the order of the manifest.
Rows(items, disposition) ==
    LET chosen == {k \in DOMAIN items : items[k].disposition = disposition}
        places == InOrder(chosen, {p \in chosen \X chosen : p[1] < p[2]})
    IN [n \in DOMAIN places |-> [path |-> items[places[n]].path, size |-> items[places[n]].size]]

LinkQueue(disposition) ==
    /\ Command /\ manifest # None /\ queue = None /\ sidecar = None
    /\ disposition \in {"priority", "deferred"} /\ Verified
    /\ LET rows == Rows(manifest.items, disposition) IN
       /\ ~Refused(rows)
       /\ queue' = [manifest |-> manifest.sha, disposition |-> disposition, rows |-> rows]
    /\ exporting' = queue'
    /\ UNCHANGED <<store, log, manifest, sidecar, report, damages>>

\* write_new() opens the final name; what it writes follows. Until all of it is
\* there, the sidecar counts as empty.
CreateSidecar ==
    /\ exporting # None /\ sidecar = None /\ sidecar' = <<>>
    /\ UNCHANGED <<commands, store, log, manifest, queue, report, exporting, damages>>
WriteSidecar ==
    /\ exporting # None /\ sidecar # None
    /\ sidecar' = <<exporting>> /\ exporting' = None
    /\ UNCHANGED <<commands, store, log, manifest, queue, report, damages>>

\* A kill at any other point leaves temporary names, which no command reads, or an
\* activation log without a line, which counts for none.
Kill ==
    /\ exporting # None /\ exporting' = None
    /\ UNCHANGED <<commands, store, log, manifest, queue, sidecar, report, damages>>

-----------------------------------------------------------------------------
(* _load_sizes() and diff_snapshots().                                      *)

PathsOf(entries) == {entries[k].path : k \in DOMAIN entries} \ {Listing}
At(entries, path) == {k \in DOMAIN entries : entries[k].path = path}
Dups(entries)  == {p \in PathsOf(entries) : Cardinality(At(entries, p)) > 1}
\* The first entry of a path says what its size is and whether it is unsafe.
FirstOf(entries, path) ==
    entries[CHOOSE k \in At(entries, path) : \A j \in At(entries, path) : k <= j]
UnsafeIn(entries, path) == path \in PathsOf(entries) /\ Unsafe(FirstOf(entries, path))
SizeIn(entries, path) ==
    IF path \notin PathsOf(entries) THEN None ELSE FirstOf(entries, path).size

Category(old, new, path) ==
    LET before == SizeIn(old, path)
        after  == SizeIn(new, path) IN
    CASE \E side \in {old, new} : path \in Dups(side) \/ UnsafeIn(side, path) -> "ambiguous"
      [] OTHER -> IF before = None THEN "added"
                  ELSE IF after = None THEN "removed"
                  ELSE IF before # after THEN "metadata_changed" ELSE "unchanged"

\* A name that only changed its normalization is no addition and no removal.
Fault_AddedOnly(first, path) ==
    first[path] = "added" /\ \E p \in DOMAIN first : first[p] = "removed" /\ Form[p] = Form[path]
Twin(first, path) ==
    \E p \in DOMAIN first : /\ {first[p], first[path]} = {"added", "removed"}
                            /\ Form[p] = Form[path]
Diff(old, new) ==
    LET paths == PathsOf(old) \cup PathsOf(new)
        first == [p \in paths |-> Category(old, new, p)] IN
    [p \in paths |-> IF Twin(first, p) THEN "ambiguous" ELSE first[p]]

WriteDiff(j, k) ==
    /\ Command /\ report = None /\ Loads(j) /\ Loads(k)
    /\ report' = [old |-> store[j].sha, new |-> store[k].sha,
                  categories |-> Diff(EntriesOf(j), EntriesOf(k))]
    /\ UNCHANGED <<store, log, manifest, queue, sidecar, exporting, damages>>

-----------------------------------------------------------------------------
(* The environment: a file of a snapshot or manifest loses its first line.  *)

DamageSnapshot(k) ==
    /\ damages < MaxDamages /\ damages' = damages + 1 /\ store[k].raw # <<>>
    /\ store' = [store EXCEPT ![k].raw = Tail(@)]
    /\ UNCHANGED <<commands, log, manifest, queue, sidecar, report, exporting>>
DamageManifest ==
    /\ damages < MaxDamages /\ damages' = damages + 1
    /\ manifest # None /\ manifest.items # <<>>
    /\ manifest' = [manifest EXCEPT !.items = Tail(@)]
    /\ UNCHANGED <<commands, store, log, queue, sidecar, report, exporting>>

Init ==
    /\ store = <<>> /\ log = <<>> /\ manifest = None /\ queue = None /\ sidecar = None
    /\ report = None /\ exporting = None /\ commands = 0 /\ damages = 0

Next ==
    \/ Snapshot
    \/ \E k \in DOMAIN store : Activate(k) \/ WriteManifest(k) \/ DamageSnapshot(k)
    \/ \E j, k \in DOMAIN store : WriteDiff(j, k)
    \/ \E d \in ToSet(Dispositions) : LinkQueue(d)
    \/ CreateSidecar \/ WriteSidecar \/ Kill \/ DamageManifest
Spec == Init /\ [][Next]_vars

-----------------------------------------------------------------------------
(* Properties.                                                              *)

\* Type invariant.
Entry == [line : Nat, size : {EntryOf[t].size : t \in {u \in Texts : EntryOf[u] # None}},
          name : Names, path : DOMAIN Form]
TypeOK ==
    /\ store \in Seq([raw : Seq(Lines), sha : Seq(Lines), accepted : BOOLEAN])
    /\ \A k \in DOMAIN store : EntriesOf(k) \in Seq(Entry)
    /\ \A k \in DOMAIN log : log[k].snapshot \in DOMAIN store /\ store[log[k].snapshot].accepted
    /\ commands \in 0..MaxCommands /\ damages \in 0..MaxDamages /\ exporting \in {None, queue}
    /\ report # None => \A p \in DOMAIN report.categories :
           report.categories[p] \in {"added", "removed", "metadata_changed", "ambiguous",
                                     "unchanged"}

\* Where a header must stand: the first line of the file that is not empty, and
\* the first such line after an empty one that does not merely separate a
\* header from its entries.
Named(line) == line \in Texts /\ HeadOf[line] # None
Opens(text, n, headers) ==
    LET above == {j \in 1..n : text[j] # Blank}
        last  == CHOOSE j \in above : \A i \in above : i <= j IN
    \/ above = {}
    \/ last < n /\ ~(last = n - 1 /\ last \in headers /\ Named(text[last]))
HeadersUpTo(text) ==
    LET upTo[n \in 0..Len(text)] ==
            IF n = 0 THEN {}
            ELSE LET headers == upTo[n - 1] IN
                 headers \cup {k \in {n} : text[k] # Blank /\ Opens(text, k - 1, headers)}
    IN upTo
Headers(text) == HeadersUpTo(text)[Len(text)]

\* An entry belongs to the last header above it, if that names a directory.
HeaderOf(text, k) == CHOOSE h \in Headers(text) : h < k /\ \A j \in Headers(text) : j < k => j <= h
IsEntry(text, k) ==
    /\ k \notin Headers(text) /\ text[k] \in Texts /\ EntryOf[text[k]] # None
    /\ Named(text[HeaderOf(text, k)])
FileAt(text, k) ==
    [line |-> k, size |-> EntryOf[text[k]].size,
     name |-> EntryOf[text[k]].name,
     path |-> HeadOf[text[HeaderOf(text, k)]] \o EntryOf[text[k]].name]
FilesOf(text) ==
    {FileAt(text, k) :
        k \in {j \in 1..Len(text) : IsEntry(text, j) /\ EntryOf[text[j]].kind = "-"}}
Faults(text) == {k \in 1..Len(text) : /\ text[k] # Blank /\ ~IsEntry(text, k)
                                      /\ ~(k \in Headers(text) /\ Named(text[k]))}

\* Every file of a listing is found under the directory whose section it stands
\* in, and every line that does not fit is an issue, whatever the lines look
\* like (ListingParser.parse()). A line directly after a header that is too long
\* or undecodable is excepted: the parser then takes the next empty line for the
\* separator and reads the header after it as an entry.
Skewed(text) == \E k \in Headers(text) : Named(text[k]) /\ k < Len(text) /\ text[k + 1] = Broken
ParsedByPosition ==
    \A k \in DOMAIN store :
        LET p == Parse(store[k].sha) IN
        ~Skewed(store[k].sha) => /\ ToSet(p.entries) = FilesOf(store[k].sha)
                                 /\ p.issues = Cardinality(Faults(store[k].sha))

\* A queue holds each file that the policy gives its disposition once, by rank
\* and then in the order of the listing, with the size of its first entry, and
\* nothing whose first entry is unsafe, nor the listing itself: of an accepted
\* snapshot as it was imported, although files change in between. Its sidecar may
\* be missing or unfinished after a kill, but what it says is about this queue
\* (command_manifest(), command_queue()).
QueueFaithful ==
    queue # None =>
        LET rows    == queue.rows
            entries == Parse(manifest.snapshot).entries
            line(k) == FirstOf(entries, rows[k].path).line IN
        /\ \E k \in DOMAIN store : store[k].sha = manifest.snapshot /\ store[k].accepted
        /\ {rows[k].path : k \in DOMAIN rows} =
               {p \in PathsOf(entries) :
                    ~Unsafe(FirstOf(entries, p)) /\ Classify(p) = queue.disposition}
        /\ \A k \in DOMAIN rows : rows[k].size = FirstOf(entries, rows[k].path).size
        /\ \A j, k \in DOMAIN rows : j < k =>
               \/ RankOf(rows[j].path) < RankOf(rows[k].path)
               \/ RankOf(rows[j].path) = RankOf(rows[k].path) /\ line(j) < line(k)
        /\ sidecar \in {None, <<>>, <<queue>>}

\* A diff puts every path of two accepted listings into the one category that
\* their entries call for. A path is ambiguous if an entry of it is unsafe or not the
\* only one, or if it is on one side only and a variant of its name, safe and listed
\* once, is on the other side only. If there are variants, but each is unsafe or listed
\* twice, it may be ambiguous as well as added or removed: the specification asks for
\* the one, the code does the other (diff_snapshots()).
OnlyIn(these, those, p) == p \in PathsOf(these) /\ p \notin PathsOf(those)
Doubtful(old, new, p) ==
    \E side \in {old, new} : \/ \E k \in At(side, p) : Unsafe(side[k])
                             \/ Cardinality(At(side, p)) > 1
Variants(old, new, p) ==
    {q \in DOMAIN Form : /\ Form[q] = Form[p]
                         /\ \/ OnlyIn(old, new, p) /\ OnlyIn(new, old, q)
                            \/ OnlyIn(new, old, p) /\ OnlyIn(old, new, q)}
Ambiguous(old, new, p) ==
    Doubtful(old, new, p) \/ \E q \in Variants(old, new, p) : ~Doubtful(old, new, q)
SameSize(old, new, p) ==
    \E e \in ToSet(old), f \in ToSet(new) : e.path = p /\ f.path = p /\ e.size = f.size
DiffRight ==
    report # None =>
        LET old == Parse(report.old).entries
            new == Parse(report.new).entries
            category == report.categories IN
        /\ DOMAIN category = PathsOf(old) \cup PathsOf(new)
        /\ \A p \in DOMAIN category :
               /\ Ambiguous(old, new, p) => category[p] = "ambiguous"
               /\ category[p] = "ambiguous" =>
                      Ambiguous(old, new, p) \/ Variants(old, new, p) # {}
               /\ category[p] # "ambiguous" =>
                      /\ category[p] = "added" <=> OnlyIn(new, old, p)
                      /\ category[p] = "removed" <=> OnlyIn(old, new, p)
                      /\ category[p] = "unchanged" <=> SameSize(old, new, p)
==============================================================================
