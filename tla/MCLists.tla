------------------------------ MODULE MCLists ------------------------------
(* Lists, with ListText, on a small instance.                              *)
EXTENDS Lists, TLC

MCSorted == <<"HOME", "main">>

\* Only selects what SelectSeq does.
ASSUME OnlySelects ==
  \A text \in Texts, kept \in SUBSET Lines :
    Only(Lines, text, kept) = SelectSeq(text, LAMBDA line : line \in kept)
=============================================================================
