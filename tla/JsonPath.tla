------------------------------ MODULE JsonPath ------------------------------
(***************************************************************************)
(* The selectors of queries: a path such as $.pool.assets[1] into the JSON *)
(* document that a contract answers.  A document is a scalar, an object (a *)
(* function of the texts of its fields), or an array.  A path is a         *)
(* sequence of tokens: the marks $ . [ ] and the names and numbers between *)
(* them.  A result is a set: empty where the code returns an error, or a   *)
(* reference to nothing, which every caller turns into an error.           *)
(***************************************************************************)
EXTENDS Integers, SequencesExt

Num(n) == [num |-> n]      \* an integer in decimal digits
Word(w) == [word |-> w]     \* ASCII text, as long in bytes as in characters
Wide(w) == [wide |-> w]     \* a text with characters of several bytes
Mark(c) == [mark |-> c]

Scalar(kind, text) == [json |-> kind, text |-> text]
Object(fields) == [json |-> "object", fields |-> fields]
Array(items) == [json |-> "array", items |-> items]

-----------------------------------------------------------------------------
(* References into a document *)

\* Ref::get.
Get(found, key) ==
  {doc.fields[key] : doc \in {d \in found : d.json = "object" /\ key \in DOMAIN d.fields}}

\* Ref::at; arrays count from 0.
At(found, i) ==
  {doc.items[i + 1] : doc \in {d \in found : d.json = "array" /\ i + 1 \in DOMAIN d.items}}

-----------------------------------------------------------------------------
(* resolve_path *)

\* The field collected so far, if there is one.
Collected(walk) == IF walk.curr = <<>> THEN walk.found ELSE Get(walk.found, walk.curr)

\* Variant: what is collected at the end of the path is left.
WalkToLastPoint(r, path) ==
  FoldLeft(LAMBDA walk, c :
             CASE c = Mark("$") -> walk
               [] c = Mark(".") -> [found |-> Collected(walk), curr |-> <<>>]
               [] OTHER -> [walk EXCEPT !.curr = Append(@, c)],
           [found |-> {r}, curr |-> <<>>], path).found

\* The fields of a path, or of the part before its first bracket.
Walk(r, path) ==
  Collected(FoldLeft(LAMBDA walk, c :
                       CASE c = Mark("$") -> walk
                         [] c = Mark(".") -> [found |-> Collected(walk), curr |-> <<>>]
                         [] OTHER -> [walk EXCEPT !.curr = Append(@, c)],
                     [found |-> {r}, curr |-> <<>>], path))

Positions(c, path) == {i \in DOMAIN path : path[i] = Mark(c)}

\* What stands from there to the closing bracket, if that is a number.
ReadArrayIndex(path, from) ==
  LET closing == {i \in Positions("]", path) : i >= from} IN
  IF closing = {} THEN {}
  ELSE LET curr == SubSeq(path, from, Min(closing) - 1) IN
       {c.num : c \in {c \in Range(curr) : Len(curr) = 1 /\ DOMAIN c = {"num"}}}

\* The position is a number of characters, and its bound the number of bytes:
\* the walk to the end of such a path runs out of characters, an error.
OutOfCharacters(path) == \E c \in Range(path) : DOMAIN c = {"wide"}

\* The walk ends with the first index: what follows it is not read, and the end
\* of the path not reached.
ResolvePath(r, path) ==
  LET opening == Positions("[", path) IN
  IF opening # {}
  THEN UNION {At(Walk(r, SubSeq(path, 1, Min(opening) - 1)), i) :
                i \in ReadArrayIndex(path, Min(opening) + 1)}
  ELSE IF OutOfCharacters(path) THEN {}
  ELSE Walk(r, path)

-----------------------------------------------------------------------------
(* What a path means: its fields and indices one after the other. *)

Field(key) == [field |-> key]
Index(i) == [index |-> i]

Written(step) ==
  IF DOMAIN step = {"field"} THEN <<Mark(".")>> \o step.field
  ELSE <<Mark("["), Num(step.index), Mark("]")>>

\* $.field1.field2[0].field3 for the steps field1, field2, 0, field3.
PathOf(steps) == <<Mark("$")>> \o FlattenSeq([i \in DOMAIN steps |-> Written(steps[i])])

Meant(r, steps) ==
  FoldLeft(LAMBDA found, step :
             IF DOMAIN step = {"field"} THEN Get(found, step.field) ELSE At(found, step.index),
           {r}, steps)
=============================================================================
