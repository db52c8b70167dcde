---- MODULE RulePrinters ----
(***************************************************************************)
(* The printers with which the dots tools write a game's rules back:       *)
(* DotsMoverPrinter (move_illegal_dots), DeterminedDotsEraserPrinter       *)
(* (remove_redundant_dots) and Printer (add_dots).  They print text; here  *)
(* a printed text is a sequence of rules as in RuleCompiler, and of        *)
(* asterisks.  Indentation and comments are left out.                      *)
(*                                                                         *)
(* An asterisk belongs to the item before it, whoever printed that.  A     *)
(* list in which nothing is printed, or an asterisk first, cannot be       *)
(* parsed: it is a concatenation that is empty or begins with an asterisk. *)
(***************************************************************************)
EXTENDS Naturals, Sequences, SequencesExt

Cat(args) == [k |-> "cat", args |-> args]
Sum(args) == [k |-> "sum", args |-> args]
Star(arg) == [k |-> "star", arg |-> arg]
Dot       == [k |-> "move", act |-> [type |-> "noop"]]

Asterisk  == [k |-> "asterisk"]

\* What a parser reads from a text.
ReadNext(items, item) ==
  IF item = Asterisk /\ items # <<>> THEN Append(Front(items), Star(Last(items)))
  ELSE Append(items, item)
ReadItems(text) == FoldLeft(ReadNext, <<>>, text)

List(text)   == Cat(ReadItems(text))
AsRule(text) == IF Len(ReadItems(text)) = 1 THEN ReadItems(text)[1] ELSE List(text)

Starred(text)    == Append(text, Asterisk)
Asking(rule, text) == <<[rule EXCEPT !.arg = AsRule(text)]>>
DotIf(condition) == IF condition THEN <<Dot>> ELSE <<>>

RECURSIVE Parses(_)
Parses(rule) ==
  CASE rule.k = "move"            -> TRUE
    [] rule.k = "asterisk"        -> FALSE
    [] rule.k \in {"sum", "cat"}  -> rule.args # <<>> /\ \A i \in DOMAIN rule.args : Parses(rule.args[i])
    [] rule.k \in {"star", "check"} -> Parses(rule.arg)

\* The parser makes a new move for every dot: here known by where it stands.
RECURSIVE Placed(_, _)
Placed(rule, place) ==
  CASE rule.k = "move" ->
         IF rule.act.type = "noop" THEN [rule EXCEPT !.act = [type |-> "noop", place |-> place]]
         ELSE rule
    [] rule.k = "asterisk" -> rule
    [] rule.k \in {"sum", "cat"} ->
         [rule EXCEPT !.args = [i \in DOMAIN rule.args |-> Placed(rule.args[i], Append(place, i))]]
    [] rule.k \in {"star", "check"} ->
         [rule EXCEPT !.arg = Placed(rule.arg, Append(place, 1))]

ParseGame(text) == Placed(AsRule(text), <<>>)

IsDotOf(rule, dots) == rule.act.type = "noop" /\ rule.act.place \in dots

----
(***************************************************************************)
(* DotsMoverPrinter: a dot to move is left out and asked for after the     *)
(* next item that is printed, outside the star or the sum it stands in.    *)
(***************************************************************************)

\* Mutant: an item that asks for a dot is taken for one that printed nothing.
HastyIsPending(moved) == moved.insert

\* Nothing was printed to put the dot behind.
IsPending(moved) == moved.insert /\ moved.text = <<>>

\* The next item of a list: `done' is what the list has printed so far, its
\* `insert' says that a dot waits for an item.
NextPrinted(done, moved) ==
  IF IsPending(moved)
  THEN [done EXCEPT !.insert = TRUE]
  ELSE [text   |-> done.text \o moved.text \o DotIf(moved.insert \/ done.insert),
        insert |-> FALSE]

\* Mutant: a dot is put back inside the star.
StarInside(moved) == [text |-> Starred(<<List(moved.text \o DotIf(moved.insert))>>), insert |-> FALSE]

MovedStar(moved) == [text |-> Starred(moved.text) \o DotIf(moved.insert), insert |-> FALSE]

RECURSIVE DotsMoved(_, _)
DotsMoved(rule, dots) ==
  LET args == [i \in DOMAIN rule.args |-> DotsMoved(rule.args[i], dots)]
      list == FoldLeft(NextPrinted, [text |-> <<>>, insert |-> FALSE], args)
      arg  == DotsMoved(rule.arg, dots)
  IN  CASE rule.k = "move" ->
             IF IsDotOf(rule, dots) THEN [text |-> <<>>, insert |-> TRUE]
             ELSE [text |-> <<rule>>, insert |-> FALSE]
        [] rule.k \in {"sum", "cat"} /\ Len(rule.args) = 1 -> args[1]
        [] rule.k = "sum" /\ Len(rule.args) # 1 ->
             [text   |-> <<Sum([i \in DOMAIN args |-> AsRule(args[i].text)])>>,
              insert |-> \E i \in DOMAIN args : args[i].insert]
        [] rule.k = "cat" /\ Len(rule.args) # 1 ->
             [text |-> <<List(list.text)>>, insert |-> list.insert]
        [] rule.k = "star"  -> MovedStar(arg)
        [] rule.k = "check" -> [text |-> Asking(rule, arg.text), insert |-> FALSE]

----
(***************************************************************************)
(* DeterminedDotsEraserPrinter: the rules without some of their dots.      *)
(***************************************************************************)
RECURSIVE DotsErased(_, _)
DotsErased(rule, dots) ==
  LET args == [i \in DOMAIN rule.args |-> DotsErased(rule.args[i], dots)]
  IN  CASE rule.k = "move" -> IF IsDotOf(rule, dots) THEN <<>> ELSE <<rule>>
        [] rule.k \in {"sum", "cat"} /\ Len(rule.args) = 1 -> args[1]
        [] rule.k = "sum" /\ Len(rule.args) # 1 -> <<Sum([i \in DOMAIN args |-> AsRule(args[i])])>>
        [] rule.k = "cat" /\ Len(rule.args) # 1 -> <<List(FlattenSeq(args))>>
        [] rule.k = "star"  -> Starred(DotsErased(rule.arg, dots))
        [] rule.k = "check" -> Asking(rule, DotsErased(rule.arg, dots))

----
(***************************************************************************)
(* add_dots.  Its options are a record: inSums, inStars, afterSums,        *)
(* afterStars and inTables, which is "whatever", "exclusively" or          *)
(* "exclude" and speaks of shift tables.                                   *)
(***************************************************************************)
RECURSIVE ContainsOnlyShifts(_)
ContainsOnlyShifts(rule) ==
  CASE rule.k = "move"             -> rule.act.type \in {"shift", "noop"}
    [] rule.k \in {"sum", "cat"}   -> \A i \in DOMAIN rule.args : ContainsOnlyShifts(rule.args[i])
    [] rule.k \in {"star", "check"} -> ContainsOnlyShifts(rule.arg)

AddDotAfterSegment(rule, options) ==
  \/ rule.k = "star" /\ options.afterStars
  \/ rule.k = "sum" /\ options.afterSums

Allowed(isTable, options) ==
  /\ options.inTables # "exclude" \/ ~isTable
  /\ options.inTables # "exclusively" \/ isTable

\* What a star repeats is put in parentheses when dots are added.
StarText(before, text, after) ==
  IF before \/ after THEN Starred(<<List(DotIf(before) \o text \o DotIf(after))>>)
  ELSE Starred(text)

RECURSIVE DotsAdded(_, _)
DotsAdded(rule, options) ==
  LET isTable == ContainsOnlyShifts(rule)
      args == [i \in DOMAIN rule.args |-> DotsAdded(rule.args[i], options)]
      After(i) == AddDotAfterSegment(rule.args[i], options)
      Alternative(i) == DotIf(options.inSums /\ Allowed(isTable, options)) \o args[i]
                          \o DotIf(After(i) /\ Allowed(isTable, options))
      InTable(i) == /\ ContainsOnlyShifts(rule.args[i])
                    /\ i < Len(rule.args) /\ ContainsOnlyShifts(rule.args[i + 1])
      Segment(i) == args[i] \o DotIf(After(i) /\ Allowed(InTable(i), options))
  IN  CASE rule.k = "move" -> <<rule>>
        [] rule.k \in {"sum", "cat"} /\ Len(rule.args) = 1 -> args[1]
        [] rule.k = "sum" /\ Len(rule.args) # 1 ->
             <<Sum([i \in DOMAIN args |-> AsRule(Alternative(i))])>>
        [] rule.k = "cat" /\ Len(rule.args) # 1 ->
             <<List(FlattenSeq([i \in DOMAIN args |-> Segment(i)]))>>
        [] rule.k = "star" ->
             StarText(options.inStars /\ (options.inTables # "exclude" \/ ~isTable),
                      DotsAdded(rule.arg, options),
                      AddDotAfterSegment(rule.arg, options) /\ Allowed(isTable, options))
        [] rule.k = "check" -> <<rule>>
====
