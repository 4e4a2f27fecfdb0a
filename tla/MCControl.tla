------------------------------ MODULE MCControl ------------------------------
(* Instances of EngineControl for TLC. *)
EXTENDS EngineControl, TLC

CONSTANTS f1, r1, r2, r3, s1, s2, a1, k1, k2, k3, k4

\* A buffer of four bytes that becomes longer and shorter, and views of six shapes on it.
MCFirstBytes == <<1, 0, 1, 1>>
Shape(size, offset, length, dv) ==
  [size |-> size, offset |-> offset, length |-> length, dv |-> dv]
MCShapes ==
  {Shape(1, 1, 1000, FALSE), Shape(1, 1, 2, FALSE), Shape(2, 0, 1000, FALSE),
   Shape(2, 2, 1, FALSE), Shape(1, 1, 1000, TRUE), Shape(1, 1, 2, TRUE)}
MCSpells ==
  [does : {"nothing", "detach"}, to : {0}] \union [does : {"resize"}, to : {1, 3, 5}]
MCInts == {-1, 0, 1, 2}

\* Four keys, two of which share a bucket before and after the table grows.
MCHash == k1 :> 0 @@ k2 :> 1 @@ k3 :> 4 @@ k4 :> 1

\* Two objects with a registry, a map or a weak reference.
Object(k, of) == [kind |-> k, of |-> of]
MCPopulations ==
  {<<Object("plain", 0), Object("plain", 0), Object("registry", 1)>>,
   <<Object("plain", 0), Object("plain", 0), Object("map", 0)>>,
   <<Object("plain", 0), Object("plain", 0), Object("weakref", 1)>>}
=============================================================================
