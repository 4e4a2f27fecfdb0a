------------------------------- MODULE JsHeap -------------------------------
(***************************************************************************)
(* Memory management of the JavaScript engine                              *)
(* (src/c_src/quickjs_ng/quickjs.c): reference counts, the removal of      *)
(* cycles, and the weak references that must be undone when their target   *)
(* goes: WeakRef, WeakMap and FinalizationRegistry.                        *)
(*                                                                         *)
(* A script starts with the objects of one population.  Properties   *)
(* of plain objects are a set of references.  The order in which dead      *)
(* objects are processed is left open; shapes, strings and other values    *)
(* that take part in no cycle are left out.                                *)
(***************************************************************************)
EXTENDS Integers, Sequences, FiniteSets, SequencesExt

CONSTANTS
  Populations,           \* what a script has made when it starts: sequences of objects, each
                         \* with its kind and, of a WeakRef or a registry, target or callback
  MaxLinks, MaxRecords   \* bounds: properties, records of WeakMaps and registries at a time

HeapBounds == {MaxLinks, MaxRecords} \subseteq Nat

Kinds == {"plain", "weakref", "map", "registry"}
PopulationsAssumption ==
  /\ Populations \subseteq Seq([kind : Kinds, of : Nat])
  /\ \A p \in Populations : \A o \in DOMAIN p :
       p[o].of \in (IF p[o].kind \in {"weakref", "registry"} THEN DOMAIN p ELSE {0})

VARIABLES
  kind,      \* of each object: "plain", "weakref", "map" (a WeakMap), "registry"
  mem,       \* "object", "zombie" (freed, but its memory is still referred to), "freed"
  rc,        \* ref_count
  roots,     \* the objects running JavaScript holds, one reference each
  links,     \* the properties of each plain object
  target,    \* of a WeakRef: its target, or Gone (js_weakref_sentinel)
  callback,  \* of a registry: its callback
  entries,   \* JSFinRecEntry: what the registries wait for
  records,   \* JSMapRecord of the WeakMaps
  jobs,      \* the callbacks to run (js_finrec_job)
  phase,     \* gc_phase: "run" (JS_GC_PHASE_NONE), "free" (DECREF), "sweep" (REMOVE_CYCLES)
  pending,   \* gc_zero_ref_count_list in "free", tmp_obj_list in "sweep"
  garbage    \* the objects of this sweep: those whose mark is set

vars == <<kind, mem, rc, roots, links, target, callback, entries, records, jobs, phase,
          pending, garbage>>

Objs == DOMAIN kind
None == 0
Gone == -1

Live == {o \in Objs : mem[o] = "object"}

\* js_weakref_constructor, js_finrec_constructor, js_map_constructor: JavaScript holds what
\* it made, and a registry its callback.
Init ==
  \E p \in Populations :
    /\ kind = [o \in DOMAIN p |-> p[o].kind]
    /\ mem = [o \in DOMAIN p |-> "object"]
    /\ target = [o \in DOMAIN p |-> IF p[o].kind = "weakref" THEN p[o].of ELSE None]
    /\ callback = [o \in DOMAIN p |-> IF p[o].kind = "registry" THEN p[o].of ELSE None]
    /\ roots = DOMAIN p
    /\ rc = [o \in DOMAIN p |-> 1 + Cardinality({f \in DOMAIN p : callback[f] = o})]
    /\ links = [o \in DOMAIN p |-> {}]
    /\ entries = {} /\ records = {} /\ jobs = <<>>
    /\ phase = "run" /\ pending = {} /\ garbage = {}

-----------------------------------------------------------------------------
(* What holds references to x, one counting operator per holder. *)

FromLinks(S, x) == Cardinality({o \in S : x \in links[o]})
FromRecords(R, x) == Cardinality({r \in R : r.value = x})
FromEntries(E, x) ==
  Cardinality({e \in E : e.held = x}) + Cardinality({e \in E : e.token = x})
    + Cardinality({e \in E : callback[e.registry] = x})
FromCallbacks(S, x) == Cardinality({o \in S : callback[o] = x})
FromJobs(js, x) ==
  Cardinality({i \in DOMAIN js : js[i].callback = x}) + Cardinality({i \in DOMAIN js : js[i].held = x})

\* Mutant of MarkChildren: the values of WeakMaps are not marked through their keys.
MarkWithoutValues(S, x) ==
  FromLinks(S, x) + FromEntries({e \in entries : e.registry \in S}, x) + FromCallbacks(S, x)

\* mark_children with js_finrec_mark and mark_weak_map_value: how often the objects of S refer
\* to x.  The value of a record of a WeakMap is a child of its key.
MarkChildren(S, x) ==
  FromLinks(S, x) + FromRecords({r \in records : r.key \in S}, x)
    + FromEntries({e \in entries : e.registry \in S}, x) + FromCallbacks(S, x)

\* JS_FreeValueRT, several times: the objects whose count falls to zero are freed at once.
FreeValues(count) ==
  /\ rc' = count
  /\ pending' = {x \in Objs : count[x] = 0 /\ rc[x] > 0}
  /\ phase' = IF pending' = {} THEN "run" ELSE "free"

Runs == phase = "run"
Dup(x) == [rc EXCEPT ![x] = IF x \in roots THEN @ ELSE @ + 1]

-----------------------------------------------------------------------------
(* JavaScript.  It names only the objects it holds. *)

Link(a, b) ==
  /\ Runs /\ {a, b} \subseteq roots /\ kind[a] = "plain" /\ b \notin links[a]
  /\ Cardinality({p \in Objs \X Objs : p[2] \in links[p[1]]}) < MaxLinks
  /\ links' = [links EXCEPT ![a] = @ \union {b}]
  /\ rc' = [rc EXCEPT ![b] = @ + 1]
  /\ UNCHANGED <<kind, mem, roots, target, callback, entries, records, jobs, phase, pending, garbage>>

Unlink(a, b) ==
  /\ Runs /\ a \in roots /\ b \in links[a]
  /\ links' = [links EXCEPT ![a] = @ \ {b}]
  /\ FreeValues([rc EXCEPT ![b] = @ - 1])
  /\ UNCHANGED <<kind, mem, roots, target, callback, entries, records, jobs, garbage>>

\* A read of a property, of a WeakMap (js_map_get) or of a WeakRef (js_weakref_deref).
Load(a, b) ==
  /\ Runs /\ a \in roots /\ b \in Objs \ roots
  /\ \/ b \in links[a]
     \/ target[a] = b
     \/ \E r \in records : r.map = a /\ r.key \in roots /\ r.value = b
  /\ roots' = roots \union {b}
  /\ rc' = Dup(b)
  /\ UNCHANGED <<kind, mem, links, target, callback, entries, records, jobs, phase, pending, garbage>>

Forget(o) ==
  /\ Runs /\ o \in roots
  /\ roots' = roots \ {o}
  /\ FreeValues([rc EXCEPT ![o] = @ - 1])
  /\ UNCHANGED <<kind, mem, links, target, callback, entries, records, jobs, garbage>>

CanRecord == Cardinality(records) + Cardinality(entries) < MaxRecords

\* js_map_set of a WeakMap; a key that is there already has its value replaced.
MapSet(m, k, v) ==
  LET old == {r \in records : r.map = m /\ r.key = k} IN
  /\ Runs /\ {m, k, v} \subseteq roots /\ kind[m] = "map"
  /\ old # {} \/ CanRecord
  /\ records' = (records \ old) \union {[map |-> m, key |-> k, value |-> v]}
  /\ FreeValues([x \in Objs |-> rc[x] - FromRecords(old, x) + (IF x = v THEN 1 ELSE 0)])
  /\ UNCHANGED <<kind, mem, roots, links, target, callback, entries, jobs, garbage>>

\* js_map_delete, map_delete_record
MapDelete(r) ==
  /\ Runs /\ {r.map, r.key} \subseteq roots
  /\ records' = records \ {r}
  /\ FreeValues([x \in Objs |-> rc[x] - FromRecords({r}, x)])
  /\ UNCHANGED <<kind, mem, roots, links, target, callback, entries, jobs, garbage>>

\* js_finrec_register; the target may be its own token, but not the value held for it.
Register(e) ==
  /\ Runs /\ {e.registry, e.target, e.held, e.token} \ {None} \subseteq roots
  /\ kind[e.registry] = "registry" /\ e.target \notin {e.registry, e.held}
  /\ CanRecord /\ e \notin entries
  /\ entries' = entries \union {e}
  /\ rc' = [x \in Objs |-> rc[x] + FromEntries({e}, x)]
  /\ UNCHANGED <<kind, mem, roots, links, target, callback, records, jobs, phase, pending, garbage>>

\* js_finrec_unregister
Unregister(f, t) ==
  LET old == {e \in entries : e.registry = f /\ e.token = t} IN
  /\ Runs /\ {f, t} \subseteq roots /\ old # {}
  /\ entries' = entries \ old
  /\ FreeValues([x \in Objs |-> rc[x] - FromEntries(old, x)])
  /\ UNCHANGED <<kind, mem, roots, links, target, callback, records, jobs, garbage>>

\* js_finrec_job: the callback may keep what was held for it.
RunJob(keep) ==
  /\ Runs /\ jobs # <<>>
  /\ LET h == Head(jobs).held
         kept == IF keep /\ h # None THEN {h} \ roots ELSE {} IN
     /\ roots' = roots \union kept
     /\ FreeValues([x \in Objs |-> rc[x] - FromJobs(<<Head(jobs)>>, x) + (IF x \in kept THEN 1 ELSE 0)])
  /\ jobs' = Tail(jobs)
  /\ UNCHANGED <<kind, mem, links, target, callback, entries, records, garbage>>

-----------------------------------------------------------------------------
(* Freeing. *)

\* gc_decref: what is left of a count without the references among objects.
Outer == {x \in Live : rc[x] > MarkChildren(Live, x)}

\* gc_scan: the objects with such a rest are kept, with all that they refer to.
Kept ==
  {x \in Live : \A S \in SUBSET Live :
     Outer \subseteq S /\ (\A o \in S : \A y \in Live : MarkChildren({o}, y) > 0 => y \in S) => x \in S}

\* JS_RunGC up to gc_free_cycles; the allocation of any object may start it.
RunGC ==
  /\ Runs
  /\ phase' = "sweep"
  /\ garbage' = Live \ Kept
  /\ pending' = garbage'
  /\ UNCHANGED <<kind, mem, rc, roots, links, target, callback, entries, records, jobs>>

\* Mutant of Dying: only what has been freed already counts.
DyingFreedOnly(x) == x # None /\ mem[x] # "object"

\* The test of reset_weak_ref: x has been freed (free_mark), or is about to be (mark).
Dying(x) == x # None /\ (mem[x] # "object" \/ (phase = "sweep" /\ x \in garbage))

\* js_finrec_job of each entry.
Jobs(es) == [i \in DOMAIN es |-> [callback |-> callback[es[i].registry], held |-> es[i].held]]

\* Mutant of FreeObject: the references of WeakRefs to o are left as they are.
FreeObjectKeepsRefs(o) ==
  LET fires == {e \in entries : e.target = o /\ ~Dying(e.held) /\ ~Dying(callback[e.registry])}
      newJobs == Jobs(SetToSeq(fires))
      oldEntries == {e \in entries : o \in {e.target, e.registry}}
      oldRecords == {r \in records : o \in {r.key, r.map}}
      count == [x \in Objs |-> rc[x] - FromLinks({o}, x) - FromRecords(oldRecords, x)
                  - FromEntries(oldEntries, x) - FromCallbacks({o}, x) + FromJobs(newJobs, x)] IN
  /\ rc' = count
  /\ jobs' = jobs \o newJobs
  /\ entries' = entries \ oldEntries
  /\ records' = records \ oldRecords
  /\ links' = [links EXCEPT ![o] = {}]
  /\ callback' = [callback EXCEPT ![o] = None]
  /\ target' = [target EXCEPT ![o] = None]
  /\ mem' = [mem EXCEPT ![o] = IF phase = "sweep" /\ count[o] # 0 THEN "zombie" ELSE "freed"]
  /\ pending' = (pending \ {o})
       \union (IF phase = "free" THEN {x \in Objs : count[x] = 0 /\ rc[x] > 0} ELSE {})

\* free_object, reset_weak_ref and the finalizers: the properties are freed, the weak
\* references to o are undone, those of o as a WeakRef, WeakMap or registry are deleted.
\* While cycles are removed nothing else is freed, and o stays a zombie if it is referred to.
FreeObject(o) ==
  LET fires == {e \in entries : e.target = o /\ ~Dying(e.held) /\ ~Dying(callback[e.registry])}
      newJobs == Jobs(SetToSeq(fires))
      oldEntries == {e \in entries : o \in {e.target, e.registry}}
      oldRecords == {r \in records : o \in {r.key, r.map}}
      count == [x \in Objs |-> rc[x] - FromLinks({o}, x) - FromRecords(oldRecords, x)
                  - FromEntries(oldEntries, x) - FromCallbacks({o}, x) + FromJobs(newJobs, x)] IN
  /\ rc' = count
  /\ jobs' = jobs \o newJobs
  /\ entries' = entries \ oldEntries
  /\ records' = records \ oldRecords
  /\ links' = [links EXCEPT ![o] = {}]
  /\ callback' = [callback EXCEPT ![o] = None]
  /\ target' = [w \in Objs |-> IF w = o THEN None ELSE IF target[w] = o THEN Gone ELSE target[w]]
  /\ mem' = [mem EXCEPT ![o] = IF phase = "sweep" /\ count[o] # 0 THEN "zombie" ELSE "freed"]
  /\ pending' = (pending \ {o})
       \union (IF phase = "free" THEN {x \in Objs : count[x] = 0 /\ rc[x] > 0} ELSE {})

\* free_zero_refcount
FreeZeroRefcount(o) ==
  /\ phase = "free" /\ o \in pending
  /\ FreeObject(o)
  /\ phase' = IF pending' = {} THEN "run" ELSE "free"
  /\ UNCHANGED <<kind, roots, garbage>>

\* gc_free_cycles
FreeCycles(o) ==
  /\ phase = "sweep" /\ o \in pending
  /\ FreeObject(o)
  /\ UNCHANGED <<kind, roots, phase, garbage>>

\* gc_free_cycles, at its end: the zombies' memory is freed.
EndSweep ==
  /\ phase = "sweep" /\ pending = {}
  /\ phase' = "run"
  /\ mem' = [o \in Objs |-> IF mem[o] = "zombie" THEN "freed" ELSE mem[o]]
  /\ garbage' = {}
  /\ UNCHANGED <<kind, rc, roots, links, target, callback, entries, records, jobs, pending>>

Script ==
  \/ \E a, b \in Objs : Link(a, b) \/ Unlink(a, b) \/ Load(a, b)
  \/ \E o \in Objs : Forget(o)
  \/ \E m, k, v \in roots : MapSet(m, k, v)
  \/ \E r \in records : MapDelete(r)
  \/ \E f, t \in roots, h, k \in roots \union {None} :
       Register([registry |-> f, target |-> t, held |-> h, token |-> k])
  \/ \E f, t \in roots : Unregister(f, t)
  \/ \E keep \in BOOLEAN : RunJob(keep)

Next ==
  \/ Script \/ RunGC \/ EndSweep
  \/ \E o \in Objs : FreeZeroRefcount(o) \/ FreeCycles(o)

Spec == Init /\ [][Next]_vars

-----------------------------------------------------------------------------
TypeOK ==
  /\ \A o \in Objs : kind[o] \in Kinds
  /\ \A o \in Objs : mem[o] \in {"object", "zombie", "freed"}
  /\ rc \in [Objs -> Nat]
  /\ roots \subseteq Objs /\ pending \subseteq Objs /\ garbage \subseteq Objs
  /\ phase \in {"run", "free", "sweep"}

\* All that is there to refer to x.
Refs(x) ==
  (IF x \in roots THEN 1 ELSE 0) + FromLinks(Objs, x) + FromRecords(records, x)
    + FromEntries(entries, x) + FromCallbacks(Objs, x) + FromJobs(jobs, x)

\* JavaScript, and the engine's own tables, never refer to memory that has been freed: every
\* count is the number of references there are, zombies included, and what a WeakRef, a
\* WeakMap or a registry points at is an object until the reference has been undone.
NothingDangles ==
  /\ \A x \in Objs : mem[x] # "freed" => rc[x] = Refs(x)
  /\ \A x \in Objs : mem[x] = "freed" => Refs(x) = 0
  /\ \A w \in Objs : target[w] \in Objs => mem[target[w]] = "object"
  /\ \A r \in records : mem[r.key] = "object" /\ mem[r.map] = "object"
  /\ \A e \in entries : mem[e.target] = "object" /\ mem[e.registry] = "object"
  /\ phase = "run" => \A x \in Objs : mem[x] # "zombie" /\ (Refs(x) > 0 => mem[x] = "object")

\* What JavaScript can still get at: the values of WeakMaps through their keys.
RefersTo(o, x) ==
  \/ x \in links[o] \/ callback[o] = x
  \/ \E r \in records : r.key = o /\ r.value = x
  \/ \E e \in entries : e.registry = o /\ x \in {e.held, e.token}
Reachable ==
  {x \in Objs : \A S \in SUBSET Objs :
     /\ \A o \in Objs : o \in roots \/ FromJobs(jobs, o) > 0 => o \in S
     /\ \A o \in S, y \in Objs : RefersTo(o, y) => y \in S
     => x \in S}

\* A collection takes exactly what JavaScript cannot get at any more, and nothing is taken
\* otherwise before its last use.  (What only the sweep itself makes unreachable, the value
\* of a WeakMap that died or the token of an entry whose target died, is left to the next.)
Collects ==
  /\ \A o \in Reachable : mem'[o] = "object" \/ o \notin Reachable'
  /\ (phase = "run" /\ phase' = "sweep") => garbage' = Live \ Reachable
  /\ (phase = "sweep" /\ phase' = "run") => \A o \in garbage : mem'[o] = "freed"
CollectsGarbage == [][Collects]_vars

\* A registry that outlives a target it was asked to watch has its callback queued, once,
\* with a value that is still there, also when both die near each other in one collection.
TellsRegistry ==
  /\ \A e \in entries \ entries' :
       (mem'[e.target] # "object" /\ e.registry \in Live' \ garbage) => Len(jobs') > Len(jobs)
  /\ \A i \in DOMAIN jobs' : \A x \in {jobs'[i].callback, jobs'[i].held} \ {None} :
       mem'[x] = "object" /\ x \notin garbage
CallbackDue == [][TellsRegistry]_vars
=============================================================================
