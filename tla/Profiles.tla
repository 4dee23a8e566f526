-------------------------------- MODULE Profiles --------------------------------
(***************************************************************************)
(* The texts in which the thermal and the refresh rate settings keep what  *)
(* the user chose for each application: one text for each mode, in which   *)
(* the names of its applications stand one behind the other, each with a   *)
(* comma behind it.  A name is a sequence of words, and so is a text.      *)
(*                                                                         *)
(* An application is looked for as a part of the text, so that a name is   *)
(* found, and removed, where a longer name ends with it.                   *)
(***************************************************************************)
EXTENDS Integers, FiniteSets, SequencesExt

Entry(name) == Append(name, ",")
Starts(text, name) ==
  {i \in 1 .. Len(text) - Len(name) : SubSeq(text, i, i + Len(name)) = Entry(name)}
NamedIn(text, name) == Starts(text, name) # {}

\* Two entries do not overlap: each has one comma, which is its end.
Removed(text, name) ==
  LET gone == UNION {i .. i + Len(name) : i \in Starts(text, name)}
      kept == SetToSortSeq((1 .. Len(text)) \ gone, <) IN
  [k \in DOMAIN kept |-> text[kept[k]]]

\* A slip: the name stays in the text of the mode it had.
WritePackage_Keeps(texts, name, mode) ==
  [m \in DOMAIN texts |-> IF m = mode THEN texts[m] \o Entry(name) ELSE texts[m]]
\* writePackage: a mode that has no text is not written.
WritePackage(texts, name, mode) ==
  [m \in DOMAIN texts |->
     LET rest == Removed(texts[m], name) IN IF m = mode THEN rest \o Entry(name) ELSE rest]

\* getStateForPackage: the first mode that names the application.
Named(texts, name) == {m \in DOMAIN texts : NamedIn(texts[m], name)}
StateForPackage(texts, name, otherwise) ==
  IF Named(texts, name) = {} THEN otherwise
  ELSE CHOOSE m \in Named(texts, name) : \A other \in Named(texts, name) : m <= other

\* A name that does not end another, and is not ended by another.
Apart(name, names) ==
  \A other \in names \ {name} : ~IsSuffix(name, other) /\ ~IsSuffix(other, name)

=============================================================================
