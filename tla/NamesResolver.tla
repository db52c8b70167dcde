---- MODULE NamesResolver ----
(***************************************************************************)
(* Names and their numbers: src/src/game_description/names_resolver.h.     *)
(* A resolver keeps names in a vector and numbers, from 0, in a map.       *)
(***************************************************************************)
EXTENDS Naturals, Sequences

AddName(r, name) ==
  IF name \in DOMAIN r.ids THEN r
  ELSE [names |-> Append(r.names, name),
        ids   |-> [n \in DOMAIN r.ids \cup {name} |->
                     IF n = name THEN Len(r.names) ELSE r.ids[n]]]

NoNames == [names |-> <<>>, ids |-> [n \in {} |-> 0]]

Id(r, name)       == r.ids[name]
Name(r, id)       == r.names[id + 1]
HasName(r, name)  == name \in DOMAIN r.ids
Ids(r)            == 0 .. Len(r.names) - 1
====
