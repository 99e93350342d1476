----------------------------- MODULE Projection -----------------------------
(***************************************************************************)
(* The knowledge directory: project_events (project.py), which publishes   *)
(* what the journal says as a generation, the unbounded projection of the  *)
(* command line, which writes the same files in place, and the readers of  *)
(* the index (index.py).                                                   *)
(*                                                                         *)
(* A state of the journal is a number.  A generation is a directory named  *)
(* by its content, here by the number it was projected from; it is written *)
(* file by file behind an ownership record.  The root's index.json is the  *)
(* only authority on which generation is current.                          *)
(***************************************************************************)
EXTENDS Naturals, FiniteSets, Sequences

CONSTANTS Publishers,   \* maintenance, drains: processes that project with a budget
          Readers,      \* recalls, hooks, the curator
          MaxVersion,   \* bound: states of the journal
          MaxCli,       \* bound: unbounded projections from the command line
          MaxFaults     \* bound: budgets that end and processes that die

VARIABLES journal,   \* the newest state of the journal
          gens,      \* [1..MaxVersion -> the generation directory]
          index,     \* root/index.json: kind "none", "list" (no generation) or "pointer"
          pages,     \* root/: the files and the manifest of an unbounded projection
          mirror,    \* root/index.md: a "list" of pages or a "link" to a generation
          lock,      \* .projection-publish: its holder (flock, so a death frees it)
          pub, rd, cli, runs, faults
vars == <<journal, gens, index, pages, mirror, lock, pub, rd, cli, runs, faults>>

Versions == 1..MaxVersion
Docs == <<"page", "index", "manifest">>     \* the order in which they are written
Files == {Docs[i] : i \in 1..Len(Docs)}
NoGen == [dir |-> FALSE, owner |-> FALSE, files |-> {}, mixed |-> FALSE]
\* A generation frozen from pages of different projections is mixed: its files
\* are the ones its record lists, but the index in it does not fit them.
Whole(g) == gens[g].dir /\ Files \subseteq gens[g].files /\ ~gens[g].mixed
Dirs == {g \in Versions : gens[g].dir}
Rest == [pc |-> "idle", want |-> 0, cur |-> 0, prev |-> 0, freeze |-> FALSE,
         mixed |-> FALSE, g |-> 0]
Shut == [pc |-> "idle", doc |-> [kind |-> "none", cur |-> 0, prev |-> 0], h |-> 0,
         since |-> {}, got |-> 0]

Init == /\ journal = 1
        /\ gens = [g \in Versions |-> NoGen]
        /\ index = Shut.doc
        /\ pages = [page |-> 0, manifest |-> 0]
        /\ mirror = [kind |-> "none", v |-> 0]
        /\ lock = "free"
        /\ pub = [p \in Publishers |-> Rest]
        /\ rd = [r \in Readers |-> Shut]
        /\ cli = [pc |-> "idle", v |-> 0]
        /\ runs = 0 /\ faults = 0

Grow == /\ journal < MaxVersion /\ journal' = journal + 1
        /\ UNCHANGED <<gens, index, pages, mirror, lock, pub, rd, cli, runs, faults>>

\* Every reader at work has seen what becomes current now.
Seen(v) == [r \in Readers |-> IF rd[r].pc = "idle" THEN rd[r]
                              ELSE [rd[r] EXCEPT !.since = @ \cup {v}]]

(* build_index on the root: the document, the files it lists and, without a *)
(* generation, the manifest that was written last.                          *)
ListIsWhole(doc) == /\ pages.page = doc.cur /\ pages.manifest = doc.cur
                    /\ mirror = [kind |-> "list", v |-> doc.cur]
_resolve_generation(doc, g) == /\ doc.prev # 0 => gens[doc.prev].dir
                               /\ {"manifest", "index"} \subseteq gens[g].files
IndexIsValid == CASE index.kind = "none" -> TRUE
                  [] index.kind = "list" -> ListIsWhole(index)
                  [] OTHER -> _resolve_generation(index, index.cur) /\ Whole(index.cur)
\* _inspect_generation: the owner record is there and lists every file.
_inspect_generation(g) == gens[g].owner /\ gens[g].files \subseteq Files

(* project_events with a budget.  The events were read before the lock.     *)
Go(p, pc) == pub' = [pub EXCEPT ![p].pc = pc]
Fail(p) == pub' = [pub EXCEPT ![p] = Rest] /\ lock' = "free"
ReadEvents(p) == /\ pub[p].pc = "idle"
                 /\ pub' = [pub EXCEPT ![p] = [Rest EXCEPT !.pc = "wait", !.want = journal]]
                 /\ UNCHANGED <<journal, gens, index, pages, mirror, lock, rd, cli, runs, faults>>
Begin(p) ==
    /\ pub[p].pc = "wait" /\ lock = "free"
    /\ IF ~IndexIsValid THEN Fail(p)
       ELSE /\ lock' = p
            /\ pub' = [pub EXCEPT ![p].pc = CASE index.kind = "pointer" -> "repair"
                                             [] index.kind = "list" -> "freeze"
                                             [] OTHER -> "clean",
                         ![p].cur = index.cur, ![p].prev = index.prev]
    /\ UNCHANGED <<journal, gens, index, pages, mirror, rd, cli, runs, faults>>
\* Mutant: the mirror is led to the generation that is about to be written.
RepairEarly(p) == /\ pub[p].pc = "repair" /\ Go(p, "clean")
                  /\ mirror' = [kind |-> "link", v |-> pub[p].want]
                  /\ UNCHANGED <<journal, gens, index, pages, lock, rd, cli, runs, faults>>
_repair_mirror(p) == /\ pub[p].pc = "repair" /\ Go(p, "clean")
                     /\ mirror' = [kind |-> "link", v |-> pub[p].cur]
                     /\ UNCHANGED <<journal, gens, index, pages, lock, rd, cli, runs, faults>>
\* The first list is frozen too, so that its readers can go on; it is read while
\* another unbounded projection may be writing.
Freeze(p) == /\ pub[p].pc = "freeze"
             /\ pub' = [pub EXCEPT ![p].pc = "clean", ![p].freeze = TRUE, ![p].cur = pages.manifest,
                          ![p].mixed = ~(index.kind = "list" /\ index.cur = pages.manifest
                                         /\ ListIsWhole(index))]
             /\ UNCHANGED <<journal, gens, index, pages, mirror, lock, rd, cli, runs, faults>>

Keep(p) == {pub[p].cur, pub[p].prev, pub[p].want}
\* What the generation at hand is to hold: the frozen list, or what is wanted.
Target(p) == IF pub[p].freeze THEN pub[p].cur ELSE pub[p].want
\* _cleanup_generations: all are inspected, then the others go: the
\* files, the record, the directory.
Clean(p) ==
    /\ pub[p].pc = "clean"
    /\ IF \E g \in Dirs : ~_inspect_generation(g) THEN Fail(p)
       ELSE /\ \/ Dirs \subseteq Keep(p) /\ Go(p, "prepare")
               \/ \E g \in Dirs \ Keep(p) : pub' = [pub EXCEPT ![p].pc = "remove", ![p].g = g]
            /\ UNCHANGED lock
    /\ UNCHANGED <<journal, gens, index, pages, mirror, rd, cli, runs, faults>>
Remove(p) ==
    /\ pub[p].pc = "remove"
    /\ LET g == pub[p].g
       IN \/ /\ gens[g].files # {}
             /\ gens' = [gens EXCEPT ![g].files = {}] /\ UNCHANGED pub
          \/ /\ gens[g].files = {} /\ gens[g].owner
             /\ gens' = [gens EXCEPT ![g].owner = FALSE] /\ UNCHANGED pub
          \/ /\ ~gens[g].owner
             /\ gens' = [gens EXCEPT ![g] = NoGen] /\ Go(p, "clean")
    /\ UNCHANGED <<journal, index, pages, mirror, lock, rd, cli, runs, faults>>

\* _prepare_generation: a directory that is there is resumed, a new one needs
\* room for a third.  The pages that are frozen are read where they are.
Prepare(p) ==
    /\ pub[p].pc = "prepare"
    /\ LET g == Target(p)
       IN IF gens[g].dir
          THEN IF _inspect_generation(g) /\ ~gens[g].mixed /\ ~(pub[p].freeze /\ pub[p].mixed)
               THEN Go(p, "write") /\ UNCHANGED <<gens, lock>>
               ELSE Fail(p) /\ UNCHANGED gens
          ELSE IF Cardinality(Dirs) >= 3 THEN Fail(p) /\ UNCHANGED gens
          ELSE gens' = [gens EXCEPT ![g].dir = TRUE] /\ Go(p, "own") /\ UNCHANGED lock
    /\ UNCHANGED <<journal, index, pages, mirror, rd, cli, runs, faults>>
_owner_document(p) == /\ pub[p].pc = "own" /\ Go(p, "write")
                      /\ gens' = [gens EXCEPT ![Target(p)].owner = TRUE,
                                               ![Target(p)].mixed = pub[p].freeze /\ pub[p].mixed]
                      /\ UNCHANGED <<journal, index, pages, mirror, lock, rd, cli, runs, faults>>
\* The last file is followed by build_index on the generation.
WriteFile(p) ==
    /\ pub[p].pc = "write"
    /\ LET g == Target(p)
           missing == {i \in 1..Len(Docs) : Docs[i] \notin gens[g].files}
       IN IF missing # {}
          THEN /\ \E i \in missing : /\ \A j \in missing : i <= j
                                     /\ gens' = [gens EXCEPT ![g].files = @ \cup {Docs[i]}]
               /\ UNCHANGED <<pub, lock>>
          ELSE IF gens[g].mixed THEN Fail(p) /\ UNCHANGED gens
          ELSE /\ UNCHANGED <<gens, lock>>
               /\ pub' = IF pub[p].freeze THEN [pub EXCEPT ![p].freeze = FALSE, ![p].pc = "clean"]
                         ELSE [pub EXCEPT ![p].pc = "publish"]
    /\ UNCHANGED <<journal, index, pages, mirror, rd, cli, runs, faults>>
Publish(p) ==
    /\ pub[p].pc = "publish" /\ Go(p, "mirror")
    /\ index' = [kind |-> "pointer", cur |-> pub[p].want,
                 prev |-> IF pub[p].cur = pub[p].want THEN pub[p].prev ELSE pub[p].cur]
    /\ rd' = Seen(pub[p].want)
    /\ UNCHANGED <<journal, gens, pages, mirror, lock, cli, runs, faults>>
WriteMirror(p) == /\ pub[p].pc = "mirror" /\ Fail(p)
                  /\ mirror' = [kind |-> "link", v |-> pub[p].want]
                  /\ UNCHANGED <<journal, gens, index, pages, rd, cli, runs, faults>>
\* The budget ends or the process dies.  A death in a write leaves the
\* temporary file of safe_atomic_write behind.
Stop(p) ==
    /\ pub[p].pc \notin {"idle", "wait"} /\ faults < MaxFaults /\ faults' = faults + 1
    /\ Fail(p)
    /\ \/ UNCHANGED gens
       \/ /\ pub[p].pc = "write"
          /\ gens' = [gens EXCEPT ![Target(p)].files = @ \cup {"temporary"}]
    /\ UNCHANGED <<journal, index, pages, mirror, rd, cli, runs>>

(* The unbounded projection takes no lock.  It writes in place, manifest    *)
(* last.                                                                    *)
_project_events_legacy ==
    /\ \/ /\ cli.pc = "idle" /\ runs < MaxCli
          /\ cli' = [pc |-> "page", v |-> journal] /\ runs' = runs + 1
          /\ UNCHANGED <<index, pages, mirror, rd>>
       \/ /\ cli.pc = "page" /\ cli' = [cli EXCEPT !.pc = "mirror"]
          /\ pages' = [pages EXCEPT !.page = cli.v] /\ UNCHANGED <<index, mirror, rd, runs>>
       \/ /\ cli.pc = "mirror" /\ cli' = [cli EXCEPT !.pc = "index"]
          /\ mirror' = [kind |-> "list", v |-> cli.v] /\ UNCHANGED <<index, pages, rd, runs>>
       \/ /\ cli.pc = "index" /\ cli' = [cli EXCEPT !.pc = "manifest"]
          /\ index' = [kind |-> "list", cur |-> cli.v, prev |-> 0]
          /\ rd' = Seen(cli.v) /\ UNCHANGED <<pages, mirror, runs>>
       \/ /\ cli.pc = "manifest" /\ cli' = [pc |-> "idle", v |-> 0]
          /\ pages' = [pages EXCEPT !.manifest = cli.v] /\ UNCHANGED <<index, mirror, rd, runs>>
    /\ UNCHANGED <<journal, gens, lock, pub, faults>>
CliDies == /\ cli.pc # "idle" /\ faults < MaxFaults /\ faults' = faults + 1
           /\ cli' = [pc |-> "idle", v |-> 0]
           /\ UNCHANGED <<journal, gens, index, pages, mirror, lock, pub, rd, runs>>

(* A reader: build_index on the root, then read_index_items with the handle. *)
Open(r) == /\ rd[r].pc = "idle" /\ index.kind # "none"
           /\ rd' = [rd EXCEPT ![r] = [Shut EXCEPT !.pc = "resolve", !.doc = index,
                                                   !.since = {index.cur}]]
           /\ UNCHANGED <<journal, gens, index, pages, mirror, lock, pub, cli, runs, faults>>
Answer(r, v) == rd' = [rd EXCEPT ![r] = [Shut EXCEPT !.got = v]]
Resolve(r) ==
    /\ rd[r].pc = "resolve"
    /\ LET doc == rd[r].doc
       IN IF doc.kind = "list" \/ _resolve_generation(doc, doc.cur)
          THEN rd' = [rd EXCEPT ![r].pc = "validate"] ELSE Answer(r, 0)
    /\ UNCHANGED <<journal, gens, index, pages, mirror, lock, pub, cli, runs, faults>>
_validate_projection_files(r) ==
    /\ rd[r].pc = "validate"
    /\ LET doc == rd[r].doc
       IN IF IF doc.kind = "list" THEN ListIsWhole(doc) ELSE Whole(doc.cur)
          THEN rd' = [rd EXCEPT ![r].pc = "handle", ![r].h = doc.cur] ELSE Answer(r, 0)
    /\ UNCHANGED <<journal, gens, index, pages, mirror, lock, pub, cli, runs, faults>>
\* _bound_document: a handle on a generation reads there; one on the root reads
\* index.json again and finds its own generation there, or another list.
\* Then the item itself, checked against the document.
_bound_document(r) ==
    /\ rd[r].pc = "handle"
    /\ LET h == rd[r].h
           doc == IF rd[r].doc.kind = "pointer" \/ index.kind = "pointer"
                  THEN [kind |-> "pointer", cur |-> h, prev |-> 0] ELSE index
           found == /\ rd[r].doc.kind = "list" /\ index.kind = "pointer" =>
                          h \in {index.cur, index.prev} /\ _resolve_generation(index, h)
                    /\ doc.kind = "pointer" => {"index", "manifest"} \subseteq gens[h].files
       IN IF found THEN rd' = [rd EXCEPT ![r].pc = "item", ![r].doc = doc] ELSE Answer(r, 0)
    /\ UNCHANGED <<journal, gens, index, pages, mirror, lock, pub, cli, runs, faults>>
\* Mutant: the item's digest is not compared.
ReadUnchecked(r) ==
    /\ rd[r].pc = "item"
    /\ LET doc == rd[r].doc
       IN IF doc.kind = "list" THEN Answer(r, pages.page)
          ELSE Answer(r, IF "page" \in gens[doc.cur].files THEN doc.cur ELSE 0)
    /\ UNCHANGED <<journal, gens, index, pages, mirror, lock, pub, cli, runs, faults>>
_read_item(r) ==
    /\ rd[r].pc = "item"
    /\ LET doc == rd[r].doc
       IN IF doc.kind = "list" THEN Answer(r, IF pages.page = doc.cur THEN doc.cur ELSE 0)
          ELSE Answer(r, IF "page" \in gens[doc.cur].files THEN doc.cur ELSE 0)
    /\ UNCHANGED <<journal, gens, index, pages, mirror, lock, pub, cli, runs, faults>>

Project(p) == \/ ReadEvents(p) \/ Begin(p) \/ _repair_mirror(p) \/ Freeze(p) \/ Clean(p) \/ Remove(p)
              \/ Prepare(p) \/ _owner_document(p) \/ WriteFile(p) \/ Publish(p) \/ WriteMirror(p)
Read(r) == Open(r) \/ Resolve(r) \/ _validate_projection_files(r) \/ _bound_document(r) \/ _read_item(r)
Next == \/ Grow \/ _project_events_legacy \/ CliDies
        \/ \E p \in Publishers : Project(p) \/ Stop(p)
        \/ \E r \in Readers : Read(r)
Spec == Init /\ [][Next]_vars
\* Maintenance projects again in every run; a command that runs ends.
FairSpec == /\ Spec /\ \A p \in Publishers : WF_vars(Project(p))
            /\ WF_vars(cli.pc # "idle" /\ _project_events_legacy)

----------------------------------------------------------------------------
\* Both generations the root's index names are on disk, complete, whatever
\* was interrupted: the one readers get now and the one they may still hold.
PointerIsComplete ==
    index.kind = "pointer" => \A g \in {index.cur, index.prev} \ {0} : Whole(g)

\* The page people open leads to a complete generation, or it is the list of an
\* unbounded projection.
MirrorIsReadable == mirror.kind = "link" => Whole(mirror.v)

\* What a reader is given was the published knowledge at some moment of its
\* read: never a mixture, never something from before.
ReadWasCurrent ==
    \A r \in Readers : rd'[r].got \notin {0, rd[r].got} => rd'[r].got \in rd[r].since

\* Nobody is at work, and what an interruption left will be refused for good.
Unowned == lock = "free" /\ \E g \in Dirs : ~_inspect_generation(g) \/ gens[g].mixed
Torn == cli.pc = "idle" /\ index.kind = "list" /\ ~IndexIsValid
\* The state of the journal is published in the end, however often that is
\* interrupted - unless an interruption left a generation without its record, or
\* half a list.
Published == index.cur = journal \/ Unowned \/ Torn

============================================================================
