------------------------------ MODULE MCParser ------------------------------
(***************************************************************************)
(* Files for Parser: every short one of a few characters each, and longer  *)
(* ones put together of pieces of a configuration file.                    *)
(***************************************************************************)
EXTENDS Parser

\* Characters that meet in a number, in a word and in a string.
Numbers == {"+", "0", "1", "8", ".", "e", "x", "a", " "}
Punctuation == {"(", ")", "\"", "'", ";", "nl", "nul", " ", "g", "?"}
Short(chars, n) == UNION {[1 .. k -> chars] : k \in 0 .. n}

\* Rows of two names, an attribute, and what is out of place.
Pieces == {<<"(", "g", "(", "i", " ", "1", ")", ")">>,
           <<"(", "\"", "(", "G", "\"", "(", "i", " ", "0", "x", "1", ")", ")">>,
           <<"(", "g", "(", "i", " ", "0", "1", ")", "(", "i", " ", "-", "8", ")", ")">>,
           <<"(", "a", "(", "i", " ", "1", ")", ")">>,
           <<"(", "g", "(">>, <<")">>, <<"1", "nl">>}
Rows == {FlattenSeq(p) : p \in Short(Pieces, 4)}

Files == Short(Numbers, 4) \cup Short(Punctuation, 4) \cup Rows
FilterG == <<"g">>

-----------------------------------------------------------------------------

\* The characters a list was written with.
RECURSIVE Written(_)
Written(items) ==
    FlattenSeq([i \in 1 .. Len(items) |->
        IF items[i].kind = "LIST" THEN <<"(">> \o Written(items[i].items) \o <<")">>
        ELSE items[i].symbol])

\* Nothing of a file is lost, doubled or put elsewhere: the list that is read, written
\* out, is the file without its blanks.  That is for files with matching brackets and
\* without strings, comments and zeros.
NothingLost ==
    /\ status = "done" /\ Balance(tokens, Len(tokens)) = 0 /\ Last(tokens) = "END"
    /\ \A i \in 1 .. Len(text) : text[i] \notin Quotes \cup {";", "nul"}
    => Written(top) = SelectSeq(text, LAMBDA c : c \notin {" ", "nl"})

=============================================================================
