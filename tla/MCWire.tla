------------------------------- MODULE MCWire -------------------------------
(***************************************************************************)
(* Instances of Wire: every message type, with the values that matter.     *)
(***************************************************************************)
EXTENDS Wire

(* Values on both sides of every length: one and two bytes of a number, the*)
(* largest and the smallest of a width, text of one to four bytes a        *)
(* character and half of a surrogate pair.                                 *)
Values ==
  [string |-> {<<97>>, <<233, 8364>>, <<55357, 56832, 97>>, <<56832, 55357>>},
   bytes |-> {<<0>>, <<255, 8>>},
   bool |-> {TRUE},
   uint32 |-> {127, 128, 2 ^ Bits32 - 1},
   int32 |-> {2 ^ (Bits32 - 1) - 1, -1, -(2 ^ (Bits32 - 1))},
   uint64 |-> {127, 128, 2 ^ Bits64 - 1},
   int64 |-> {128, 2 ^ (Bits64 - 1) - 1, -1, -(2 ^ (Bits64 - 1))}]

Few == [k \in DOMAIN Values |-> {CHOOSE v \in Values[k] : TRUE}]

(* The values of a field; in a list one, or two and an empty one.          *)
RECURSIVE Singles(_, _)
FieldValues(f, scalars) ==
  LET vs == IF f.kind \in DOMAIN scalars THEN scalars[f.kind]
            ELSE Singles(f.kind, Few)
      any == CHOOSE v \in vs : TRUE
      zero == IF f.kind \in DOMAIN scalars THEN Default([f EXCEPT !.label = "one"])
              ELSE Empty(f.kind)
  IN  IF f.label # "one" THEN {<<v>> : v \in vs} \cup {<<zero, any>>}
      ELSE IF f.kind \in DOMAIN scalars THEN vs ELSE {<<v>> : v \in vs}

(* Messages with at most one field set.                                    *)
Singles(type, scalars) ==
  {Empty(type)} \cup
  UNION {{[Empty(type) EXCEPT ![f.num] = v] : v \in FieldValues(f, scalars)} :
           f \in Schema[type]}

MCFew == [type \in DOMAIN Schema |-> Singles(type, Few)]

(* A field of every wire type, a group with a field inside among them.     *)
NewerFields ==
  {[wire |-> 0, bytes |-> <<200, 1>>], [wire |-> 1, bytes |-> [i \in 1 .. 8 |-> 255]],
   [wire |-> 2, bytes |-> <<2, 8, 1>>], [wire |-> 3, bytes |-> <<8, 128, 1, 12>>],
   [wire |-> 5, bytes |-> [i \in 1 .. 4 |-> 10]]}

(* Every value alone, every new field alone, and a few values with a new   *)
(* group.                                                                  *)
With(messages, fields) ==
  {[fields |-> m, newer |-> more] : m \in messages, more \in {<<>>} \cup {<<f>> : f \in fields}}
MCMessages ==
  [type \in DOMAIN Schema |->
     With(Singles(type, Values), {}) \cup With({Empty(type)}, NewerFields)
       \cup With(MCFew[type], {f \in NewerFields : f.wire = 3})]
=============================================================================
