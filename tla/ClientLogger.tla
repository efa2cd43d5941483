---- MODULE ClientLogger ----
(***************************************************************************)
(* client_logger: loggers share file streams through one global map from   *)
(* path to a reference count and a stream.  A refcounted_stream (a handle) *)
(* counts in the map under its path and caches a pointer to the stream     *)
(* once a logger has opened it.  The builder keeps handles of its own,     *)
(* which the loggers it builds copy.                                       *)
(*                                                                         *)
(* The severities only sort the handles of a logger into lists; a logger   *)
(* is modelled as the sequence of all its handles.                         *)
(***************************************************************************)
EXTENDS Integers, Sequences, FiniteSets

CONSTANTS Paths,        \* the paths given to add_file_stream
          Unopenable,   \* those a file cannot be opened under
          Slots,        \* the logger variables of the program
          MaxStreams,   \* handles in the builder
          Word          \* size_t counts modulo Word

NoPath == "no path"     \* the empty string a moved-from handle is left with

(* The paths are those of files: under the empty path the destructors of   *)
(* moved-from handles count, too.  There are fewer handles than a size_t   *)
(* can count.                                                              *)
ASSUME ClientLoggerAssumption ==
    /\ Unopenable \subseteq Paths
    /\ NoPath \notin Paths
    /\ IsFiniteSet(Slots)
    /\ MaxStreams \in Nat
    /\ Word \in Nat
    /\ Word > MaxStreams * (Cardinality(Slots) + 1)

VARIABLES global,       \* _global_streams: [count, open] by path
          builder,      \* the handles of client_logger_builder
          loggers       \* the handles of each logger, or NoLogger

vars == <<global, builder, loggers>>

Handle(p, opened) == [path |-> p, ptr |-> opened]
NoLogger == <<Handle("no logger", FALSE)>>

Init ==
    /\ global = [p \in {} |-> [count |-> 0, open |-> FALSE]]
    /\ builder = <<>>
    /\ loggers = [s \in Slots |-> NoLogger]

-----------------------------------------------------------------------------
(* The map, as operator[] makes entries and the handles count in it. *)

Entry(g, p) == IF p \in DOMAIN g THEN g[p] ELSE [count |-> 0, open |-> FALSE]
Store(g, p, e) == [q \in DOMAIN g \cup {p} |-> IF q = p THEN e ELSE g[q]]
Erase(g, p) == [q \in DOMAIN g \ {p} |-> g[q]]

(* The constructors: from a path, and the copy. *)
Acquire(g, h) == Store(g, h.path, [Entry(g, h.path) EXCEPT !.count = (@ + 1) % Word])

(* The destructor. *)
Release(g, h) ==
    LET left == (Entry(g, h.path).count + Word - 1) % Word
    IN  IF left = 0 THEN Erase(g, h.path)
        ELSE Store(g, h.path, [Entry(g, h.path) EXCEPT !.count = left])

(* A loop over a list of handles, in its order. *)
ForEach(step(_, _), g, hs) ==
    LET after[k \in 0..Len(hs)] == IF k = 0 THEN g ELSE step(after[k - 1], hs[k])
    IN  after[Len(hs)]

AcquireAll(g, hs) == ForEach(Acquire, g, hs)
ReleaseAll(g, hs) == ForEach(Release, g, hs)

(* open(): nothing for a handle with a pointer; otherwise the stream is    *)
(* opened unless it is open already.                                       *)
CanOpen(g, h) == h.ptr \/ Entry(g, h.path).open \/ h.path \notin Unopenable
Open(g, h) == IF h.ptr THEN g ELSE Store(g, h.path, [Entry(g, h.path) EXCEPT !.open = TRUE])
OpenAll(g, hs) == ForEach(Open, g, hs)
Opened(hs) == [k \in DOMAIN hs |-> [hs[k] EXCEPT !.ptr = TRUE]]

Alive == {s \in Slots : loggers[s] # NoLogger}

-----------------------------------------------------------------------------
(* The handle is moved into the list out of a temporary, whose destructor  *)
(* then counts down under the empty path.                                  *)
AddFileStream ==
    /\ Len(builder) < MaxStreams
    /\ \E p \in Paths :
          /\ builder' = <<Handle(p, FALSE)>> \o builder
          /\ global' = Release(Acquire(global, Handle(p, FALSE)), Handle(NoPath, FALSE))
    /\ UNCHANGED loggers

Clear ==
    /\ builder' = <<>>
    /\ global' = ReleaseAll(global, builder)
    /\ UNCHANGED loggers

Build(s) ==
    /\ s \notin Alive
    /\ LET g == AcquireAll(global, builder)
       IN  /\ \A k \in DOMAIN builder : CanOpen(g, builder[k])
           /\ global' = OpenAll(g, builder)
           /\ loggers' = [loggers EXCEPT ![s] = Opened(builder)]
    /\ UNCHANGED builder

(* open throws at the k-th handle: those before it were opened, and the    *)
(* copies are destroyed.                                                   *)
BuildThrows(s) ==
    /\ s \notin Alive
    /\ \E k \in DOMAIN builder :
          LET g      == AcquireAll(global, builder)
              before == SubSeq(builder, 1, k - 1)
          IN  /\ \A j \in 1..(k - 1) : CanOpen(g, builder[j])
              /\ ~ CanOpen(g, builder[k])
              /\ global' = ReleaseAll(OpenAll(g, before), builder)
    /\ UNCHANGED <<builder, loggers>>

(* Wrong: the copies share the pointers and are not counted. *)
CopyConstructShallow(s, from) ==
    /\ s \notin Alive /\ from \in Alive
    /\ loggers' = [loggers EXCEPT ![s] = loggers[from]]
    /\ UNCHANGED <<global, builder>>

CopyConstruct(s, from) ==
    /\ s \notin Alive /\ from \in Alive
    /\ loggers' = [loggers EXCEPT ![s] = loggers[from]]
    /\ global' = AcquireAll(global, loggers[from])
    /\ UNCHANGED builder

(* Wrong: the new elements are not counted. *)
CopyAssignShallow(s, from) ==
    /\ s # from /\ {s, from} \subseteq Alive
    /\ loggers' = [loggers EXCEPT ![s] = loggers[from]]
    /\ global' = ReleaseAll(global, loggers[s])
    /\ UNCHANGED builder

(* The map of lists is assigned: its old elements are destroyed, the new   *)
(* ones copied.                                                            *)
CopyAssign(s, from) ==
    /\ s # from /\ {s, from} \subseteq Alive
    /\ loggers' = [loggers EXCEPT ![s] = loggers[from]]
    /\ global' = AcquireAll(ReleaseAll(global, loggers[s]), loggers[from])
    /\ UNCHANGED builder

MoveConstruct(s, from) ==
    /\ s \notin Alive /\ from \in Alive
    /\ loggers' = [loggers EXCEPT ![s] = loggers[from], ![from] = <<>>]
    /\ UNCHANGED <<global, builder>>

(* Wrong: what the target held is forgotten. *)
MoveAssignLeaks(s, from) ==
    /\ s # from /\ {s, from} \subseteq Alive
    /\ loggers' = [loggers EXCEPT ![s] = loggers[from], ![from] = <<>>]
    /\ UNCHANGED <<global, builder>>

MoveAssign(s, from) ==
    /\ s # from /\ {s, from} \subseteq Alive
    /\ loggers' = [loggers EXCEPT ![s] = loggers[from], ![from] = <<>>]
    /\ global' = ReleaseAll(global, loggers[s])
    /\ UNCHANGED builder

Destroy(s) ==
    /\ s \in Alive
    /\ loggers' = [loggers EXCEPT ![s] = NoLogger]
    /\ global' = ReleaseAll(global, loggers[s])
    /\ UNCHANGED builder

Next ==
    \/ AddFileStream \/ Clear
    \/ \E s \in Slots : Build(s) \/ BuildThrows(s) \/ Destroy(s)
    \/ \E s, from \in Slots : CopyConstruct(s, from) \/ CopyAssign(s, from)
                              \/ MoveConstruct(s, from) \/ MoveAssign(s, from)

Spec == Init /\ [][Next]_vars

-----------------------------------------------------------------------------
On(hs, p) == {k \in DOMAIN hs : hs[k].path = p}
Places(p) == {x \in Alive \X (1..MaxStreams) : x[2] \in On(loggers[x[1]], p)}
References(p) == Cardinality(On(builder, p)) + Cardinality(Places(p))

(* Types of the map and of the handles *)
TypeOK ==
    /\ DOMAIN global \subseteq Paths \cup {NoPath}
    /\ \A p \in DOMAIN global : global[p] \in [count : 0..(Word - 1), open : BOOLEAN]
    /\ builder \in Seq([path : Paths, ptr : {FALSE}])
    /\ \A s \in Alive : loggers[s] \in Seq([path : Paths, ptr : {TRUE}])

(* The count of a path is the number of handles on it, through every       *)
(* sequence of builds, copies, moves and destructions, and a path without  *)
(* a handle has no entry (so its file is closed); the count of the empty   *)
(* path wraps and nothing else does.                                       *)
CountsExact ==
    /\ TypeOK
    /\ \A p \in Paths :
        /\ Entry(global, p).count = References(p)
        /\ p \in DOMAIN global => References(p) > 0

(* log() never writes through a pointer to a stream that was closed: what  *)
(* one logger destroys never closes what another one writes to.            *)
LoggersWritable ==
    \A s \in Alive : \A k \in DOMAIN loggers[s] :
        LET h == loggers[s][k] IN h.ptr /\ Entry(global, h.path).open

(* Opening truncates the file: it happens only while no logger writes to   *)
(* that path.                                                              *)
NoTruncation ==
    [][ \A p \in Paths :
          ~ Entry(global, p).open /\ Entry(global', p).open =>
              \A s \in Alive : On(loggers[s], p) = {} ]_vars
====
