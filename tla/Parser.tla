------------------------------- MODULE Parser -------------------------------
(***************************************************************************)
(* core/processor: XParser cuts the text of a configuration file into      *)
(* tokens (GetToken, a jump at a time) and builds lists of them, either    *)
(* with Load, by recursion, or with ParseList, on a stack of its own;      *)
(* db_object::load takes the rows of the list into a map by their index.   *)
(*                                                                         *)
(* A character stands for its class: "1" for the digits 1 to 7, "8" for 8  *)
(* and 9, "x" for x and X, "e" and "d" for the letters of an exponent, "a" *)
(* for the other hexadecimal letters, "g", "G" and "i" for the others.     *)
(***************************************************************************)
EXTENDS Integers, Sequences, FiniteSets, SequencesExt

CONSTANTS Texts,   \* the files, sequences of characters
          Filter   \* name_filter, <<>> when there is none

VARIABLES text,    \* the file
          mode,    \* the function that reads it: "Load" or "ParseList"
          view,    \* m_pView: the next character
          label,   \* where GetToken is
          symbol,  \* m_strSymbol
          token,   \* what GetToken has answered, "none" while it runs
          depth,   \* m_nDepth
          top,     \* the list that is built
          stack,   \* the lists around it
          status,  \* "running", "done" or "error"
          rows,    \* rows of the list db_object::load has gone through
          db,      \* its map: the row of an index
          tokens   \* history: every token that was answered

lexer == <<view, label, symbol>>
lists == <<top, stack>>
parserVars == <<text, mode, lexer, token, depth, lists, status, rows, db, tokens>>

-----------------------------------------------------------------------------
(* GetToken: characters and jumps. *)

Octal == {"0", "1"}
Digit == Octal \cup {"8"}
HexDigit == Digit \cup {"a", "d", "e"}
Alnum == HexDigit \cup {"x", "g", "G", "i"}
Quotes == {"\"", "'"}

\* The first character of a word or a number.
Starts == {<<{"+", "-"}, "sign">>, <<{"0"}, "zero">>, <<{"."}, "dot">>,
           <<Digit \ {"0"}, "digit">>, <<(Alnum \ Digit) \cup {"*", "/", "_"}, "string">>}

\* The characters that go on, and where, of every label.
Words == [string |-> {<<Alnum \cup {"+", "-", "*", "/", ".", "_"}, "string">>}]

Whole == [sign  |-> {<<{"0"}, "zero">>, <<{"."}, "dot">>, <<Digit \ {"0"}, "digit">>},
          zero  |-> {<<{"x"}, "hexa">>, <<{"."}, "dot">>, <<Octal, "octal">>},
          octal |-> {<<Octal, "octal">>},
          hexa  |-> {<<HexDigit, "hexa">>},
          digit |-> {<<{"."}, "dot">>, <<{"d", "e"}, "exp">>, <<Digit, "digit">>}]

Fraction == [dot       |-> {<<Digit, "dot_digit">>},
             dot_digit |-> {<<{"d", "e"}, "exp">>, <<Digit, "dot_digit">>},
             exp       |-> {<<{"+", "-"}, "exp_sign">>, <<Digit, "exp_digit">>},
             exp_sign  |-> {<<Digit, "exp_digit">>},
             exp_digit |-> {<<Digit, "exp_digit">>}]

Jumps(from) == IF from \in DOMAIN Words THEN Words[from]
               ELSE IF from \in DOMAIN Whole THEN Whole[from] ELSE Fraction[from]

\* What a symbol is that ends here.
Ended(from) == CASE from \in {"string", "sign"} -> "STRING"
                 [] from \in {"zero", "octal", "hexa", "digit"} -> "INTEGER"
                 [] from \in {"dot_digit", "exp_digit"} -> "FLOAT"
                 [] from \in {"dot", "exp", "exp_sign"} -> "ERROR"

Targets(moves, ch) == {m[2] : m \in {move \in moves : ch \in move[1]}}

-----------------------------------------------------------------------------
(* GetToken: its steps. *)

Char == IF view > Len(text) THEN "end" ELSE text[view]
Scanning(at) == status = "running" /\ token = "none" /\ label = at

Answer(t) == /\ token' = t
             /\ tokens' = Append(tokens, t)
             /\ label' = "start"

GoTo(l) == label' = l /\ UNCHANGED <<token, tokens>>

Outside == <<text, mode, lists, status, rows, db>>

\* A file ends with its last character or with a zero.
End ==
    /\ Scanning("start")
    /\ Char \in {"end", "nul"}
    /\ Answer("END")
    /\ UNCHANGED <<view, symbol, depth, Outside>>

Skip ==
    /\ Scanning("start") /\ Char \in {" ", "nl", ";"}
    /\ view' = view + 1
    /\ GoTo(IF Char = ";" THEN "comment" ELSE "start")
    /\ UNCHANGED <<symbol, depth, Outside>>

\* A version of Comment whose line never ends: the jump to the start is missing.
CommentOpen ==
    /\ Scanning("comment")
    /\ IF Char = "end" THEN Answer("END") /\ view' = view
       ELSE GoTo("comment") /\ view' = IF Char \in {"nul", "nl"} THEN view ELSE view + 1
    /\ UNCHANGED <<symbol, depth, Outside>>

\* The end of the line is left for the start.
Comment ==
    /\ Scanning("comment")
    /\ IF Char = "end" THEN Answer("END") /\ view' = view
       ELSE IF Char \in {"nul", "nl"} THEN GoTo("start") /\ view' = view
       ELSE GoTo("comment") /\ view' = view + 1
    /\ UNCHANGED <<symbol, depth, Outside>>

\* A version of Bracket that only counts what is opened.
BracketOpened ==
    /\ Scanning("start") /\ Char \in {"(", ")"}
    /\ view' = view + 1
    /\ depth' = IF Char = "(" THEN depth + 1 ELSE depth
    /\ Answer(IF Char = "(" THEN "OPEN" ELSE "CLOSE")
    /\ UNCHANGED <<symbol, Outside>>

Bracket ==
    /\ Scanning("start") /\ Char \in {"(", ")"}
    /\ view' = view + 1
    /\ depth' = IF Char = "(" THEN depth + 1 ELSE depth - 1
    /\ Answer(IF Char = "(" THEN "OPEN" ELSE "CLOSE")
    /\ UNCHANGED <<symbol, Outside>>

Quote ==
    /\ Scanning("start") /\ Char \in Quotes
    /\ view' = view + 1
    /\ symbol' = <<>>
    /\ GoTo(Char)
    /\ UNCHANGED <<depth, Outside>>

\* A quote that another follows belongs to the string; the other one is read again.
Quoted ==
    /\ label \in Quotes /\ Scanning(label)
    /\ IF Char \in {"end", "nul", "nl"} THEN Answer("ERROR") /\ UNCHANGED <<view, symbol>>
       ELSE /\ view' = view + 1
            /\ IF Char = label /\ (view = Len(text) \/ text[view + 1] # label)
               THEN Answer("STRING") /\ symbol' = symbol
               ELSE GoTo(label) /\ symbol' = Append(symbol, Char)
    /\ UNCHANGED <<depth, Outside>>

\* A version of Begin that does not clear the symbol.
BeginKept ==
    /\ Scanning("start")
    /\ \E to \in Targets(Starts, Char) : symbol' = Append(symbol, Char) /\ GoTo(to)
    /\ view' = view + 1
    /\ UNCHANGED <<depth, Outside>>

Begin ==
    /\ Scanning("start")
    /\ \E to \in Targets(Starts, Char) : symbol' = <<Char>> /\ GoTo(to)
    /\ view' = view + 1
    /\ UNCHANGED <<depth, Outside>>

Unknown ==
    /\ Scanning("start")
    /\ Char \notin {"end", "nul", " ", "nl", ";", "(", ")"} \cup Quotes
    /\ Targets(Starts, Char) = {}
    /\ view' = view + 1
    /\ Answer("ERROR")
    /\ UNCHANGED <<symbol, depth, Outside>>

\* A letter or digit that cannot go on is an error, anything else is left for the
\* next token.
Continue ==
    /\ label \notin {"start", "comment"} \cup Quotes /\ Scanning(label)
    /\ IF Char = "end" THEN Answer(Ended(label)) /\ UNCHANGED <<view, symbol>>
       ELSE LET targets == Targets(Jumps(label), Char)
                wrong == Char \in Alnum /\ Ended(label) # "ERROR"
            IN  IF targets # {}
                THEN /\ \E to \in targets : GoTo(to)
                     /\ symbol' = Append(symbol, Char)
                     /\ view' = view + 1
                ELSE /\ Answer(IF wrong THEN "ERROR" ELSE Ended(label))
                     /\ view' = IF wrong THEN view + 1 ELSE view
                     /\ symbol' = symbol
    /\ UNCHANGED <<depth, Outside>>

GetToken == End \/ Skip \/ Comment \/ Bracket \/ Quote \/ Quoted \/ Begin \/ Unknown \/ Continue

-----------------------------------------------------------------------------
(* The lists.  An element is an atom with its symbol or a list. *)

Atoms == {"STRING", "INTEGER", "FLOAT"}
Atom == [kind |-> token, symbol |-> symbol, items |-> <<>>]
List(items) == [kind |-> "LIST", symbol |-> <<>>, items |-> items]

Got(m, ts) == mode = m /\ status = "running" /\ token \in ts
Inside == <<text, mode, lexer, rows, db, tokens>>

LoadAtom ==
    /\ Got("Load", Atoms)
    /\ top' = Append(top, Atom)
    /\ token' = "none"
    /\ UNCHANGED <<stack, depth, status, Inside>>

\* OnLoad calls itself.
LoadOpen ==
    /\ Got("Load", {"OPEN"})
    /\ stack' = Append(stack, top)
    /\ top' = <<>>
    /\ token' = "none"
    /\ UNCHANGED <<depth, status, Inside>>

\* OnLoad returns its list, to itself or to Load, at an end as at a bracket.
LoadReturn ==
    /\ Got("Load", {"END", "CLOSE"})
    /\ IF stack = <<>> THEN status' = "done" /\ UNCHANGED lists
       ELSE /\ top' = Append(Last(stack), List(top))
            /\ stack' = Front(stack)
            /\ status' = status
    /\ token' = "none"
    /\ UNCHANGED <<depth, Inside>>

\* The lists built so far are destroyed, in every call.
LoadError ==
    /\ Got("Load", {"ERROR"})
    /\ top' = <<>> /\ stack' = <<>>
    /\ status' = "error"
    /\ token' = "none"
    /\ UNCHANGED <<depth, Inside>>

\* ParseList puts elements in front and turns the list round when it is complete.
ParseAtom ==
    /\ Got("ParseList", Atoms)
    /\ top' = <<Atom>> \o top
    /\ token' = "none"
    /\ UNCHANGED <<stack, depth, status, Inside>>

ParseOpen ==
    /\ Got("ParseList", {"OPEN"})
    /\ stack' = <<top>> \o stack
    /\ top' = <<>>
    /\ token' = "none"
    /\ UNCHANGED <<depth, status, Inside>>

ParseClose ==
    /\ Got("ParseList", {"CLOSE"})
    /\ IF stack # <<>>
       THEN /\ top' = <<List(Reverse(top))>> \o Head(stack)
            /\ stack' = Tail(stack)
            /\ UNCHANGED <<depth, status>>
       ELSE /\ status' = IF depth < 0 THEN "error" ELSE "done"
            /\ top' = IF depth < 0 THEN <<>> ELSE Reverse(top)
            /\ depth' = IF depth < 0 THEN 0 ELSE depth
            /\ stack' = stack
    /\ token' = "none"
    /\ UNCHANGED Inside

\* A version of ParseEnd that does not look at the depth.
ParseEndOpen ==
    /\ Got("ParseList", {"END", "ERROR"})
    /\ status' = IF token = "ERROR" THEN "error" ELSE "done"
    /\ top' = IF status' = "error" THEN <<>> ELSE Reverse(top)
    /\ token' = "none"
    /\ UNCHANGED <<stack, depth, Inside>>

ParseEnd ==
    /\ Got("ParseList", {"END", "ERROR"})
    /\ status' = IF token = "ERROR" \/ depth # 0 THEN "error" ELSE "done"
    /\ top' = IF status' = "error" THEN <<>> ELSE Reverse(top)
    /\ token' = "none"
    /\ UNCHANGED <<stack, depth, Inside>>

-----------------------------------------------------------------------------
(* db_object::load. *)

DigitValue == [c \in HexDigit |-> CASE c = "0" -> 0 [] c = "1" -> 1 [] c = "8" -> 8
                                    [] c = "a" -> 10 [] c = "d" -> 13 [] c = "e" -> 14]

\* strtol with base 0: the longest number in front.
Strtol(s) ==
    LET body == IF s # <<>> /\ s[1] \in {"+", "-"} THEN Tail(s) ELSE s
        hex == Len(body) >= 3 /\ body[1] = "0" /\ body[2] = "x" /\ body[3] \in HexDigit
        octal == ~hex /\ body # <<>> /\ body[1] = "0"
        digits == IF hex THEN SubSeq(body, 3, Len(body)) ELSE body
        allowed == IF hex THEN HexDigit ELSE IF octal THEN Octal ELSE Digit
        base == IF hex THEN 16 ELSE IF octal THEN 8 ELSE 10
        front == SelectInSeq(digits, LAMBDA c : c \notin allowed)
        number == IF front = 0 THEN digits ELSE SubSeq(digits, 1, front - 1)
        value == FoldLeft(LAMBDA n, c : base * n + DigitValue[c], 0, number)
    IN  IF s # <<>> /\ s[1] = "-" THEN 0 - value ELSE value

\* A list gives its first elements to pop, anything else gives nil.
Element(item, n) == IF item.kind = "LIST" /\ Len(item.items) >= n THEN item.items[n]
                                                                  ELSE List(<<>>)

\* GetString and GetInteger of an element.  A float is never an index.
Text(item) == IF item.kind = "STRING" THEN item.symbol ELSE <<>>
Number(item) == IF item.kind \in {"STRING", "INTEGER"} THEN Strtol(item.symbol) ELSE 0

\* The filter ignores brackets and case.
Lower(ch) == IF ch = "G" THEN "g" ELSE ch
Plain(name) == LET kept == SelectSeq(name, LAMBDA c : c \notin {"(", ")"})
               IN  [i \in 1 .. Len(kept) |-> Lower(kept[i])]
Wanted(row) == Filter = <<>> \/ Plain(Text(Element(row, 1))) = Filter

\* The index a row gets: the last attribute of that name sets it.
IndexName == <<"i">>
Index(row) ==
    FoldLeft(LAMBDA n, attribute : IF Text(Element(attribute, 1)) = IndexName
                                   THEN Number(Element(attribute, 2)) ELSE n,
             0, IF Len(row.items) > 1 THEN Tail(row.items) ELSE <<>>)

\* A version of LoadRow whose map takes every row: the last one of an index stays.
LoadRowAgain ==
    /\ mode = "Load" /\ status = "done" /\ rows < Len(top)
    /\ rows' = rows + 1
    /\ LET index == Index(top[rows'])
       IN  db' = IF ~Wanted(top[rows']) THEN db
                 ELSE [i \in DOMAIN db \cup {index} |-> IF i = index THEN rows' ELSE db[i]]
    /\ UNCHANGED <<text, mode, lexer, token, depth, lists, status, tokens>>

\* The first row of an index stays.
LoadRow ==
    /\ mode = "Load" /\ status = "done" /\ rows < Len(top)
    /\ rows' = rows + 1
    /\ LET index == Index(top[rows'])
       IN  db' = IF ~Wanted(top[rows']) \/ index \in DOMAIN db THEN db
                 ELSE [i \in DOMAIN db \cup {index} |-> IF i = index THEN rows' ELSE db[i]]
    /\ UNCHANGED <<text, mode, lexer, token, depth, lists, status, tokens>>

-----------------------------------------------------------------------------

\* Open: a parser is used for one file.
ParserInit ==
    /\ text \in Texts
    /\ mode \in {"Load", "ParseList"}
    /\ view = 1 /\ label = "start" /\ symbol = <<>>
    /\ token = "none" /\ tokens = <<>>
    /\ depth = 0
    /\ top = <<>> /\ stack = <<>>
    /\ status = "running"
    /\ rows = 0 /\ db = <<>>

Load == LoadAtom \/ LoadOpen \/ LoadReturn \/ LoadError
ParseList == ParseAtom \/ ParseOpen \/ ParseClose \/ ParseEnd

ParserNext == GetToken \/ Load \/ ParseList \/ LoadRow

ParserSpec == ParserInit /\ [][ParserNext]_parserVars

\* The thread that reads a file does nothing else.
ParserFairSpec == ParserSpec /\ WF_parserVars(ParserNext)

-----------------------------------------------------------------------------
(* Properties. *)

\* Brackets opened and not closed by the first n of some tokens.
Balance(s, n) == LET of(t) == Cardinality({i \in 1 .. n : s[i] = t}) IN of("OPEN") - of("CLOSE")

\* The number of unclosed brackets that GetToken counts is the number of lists on the
\* stack of ParseList, whose assertion at the end of the file (parser.cpp:425) and
\* whose test for an unmatched bracket rest on that.  A token on its way is counted
\* already.
DepthIsStack ==
    mode = "ParseList" /\ status = "running" =>
        depth = Len(stack) + (CASE token = "OPEN" -> 1 [] token = "CLOSE" -> 0 - 1 [] OTHER -> 0)

\* ParseList answers an error exactly when a token is wrong or the brackets do not
\* match, wherever in the file that is.
UnmatchedFound ==
    mode = "ParseList" /\ status # "running" =>
        (status = "error" <=> \/ Last(tokens) = "ERROR"
                              \/ Balance(tokens, Len(tokens)) # 0
                              \/ \E n \in 1 .. Len(tokens) : Balance(tokens, n) < 0)

\* db_object::load finds a row for every index that a wanted row has, and of the rows
\* with one index the first: what Find answers does not depend on what follows in the
\* file.
FirstRowStays ==
    /\ \A i \in DOMAIN db :
          /\ Wanted(top[db[i]]) /\ Index(top[db[i]]) = i
          /\ \A r \in 1 .. rows : Wanted(top[r]) /\ Index(top[r]) = i => db[i] <= r
    /\ \A r \in 1 .. rows : Wanted(top[r]) => Index(top[r]) \in DOMAIN db

\* Every file is read to a result, by both functions: no jump of GetToken that leaves
\* a character for later leaves it for itself.
Terminates == <>(status # "running")

=============================================================================
