------------------------------- MODULE LuaPatterns -----------------------------
(***************************************************************************)
(* Pattern matching of the string library (lstrlib.c): the backtracking     *)
(* matcher over the text of the pattern, with the captures it does and      *)
(* undoes and its limit of recursion, and find, gmatch and gsub upon it.    *)
(* A string is a sequence of characters; the place after its last one reads *)
(* as NUL.  A matching state ms has the captures begun so far, and x the    *)
(* subject and the pattern.                                                 *)
(***************************************************************************)
EXTENDS Integers, Sequences, SequencesExt

CONSTANTS
  Chars,          \* the characters in use, in their order, NUL the first
  CType,          \* the members of each class: isalpha under "a", ...
  Upper,          \* the pairs of a capital and its small letter
  MAXCCALLS,      \* limit of recursion
  LUA_MAXCAPTURES

NUL == Chars[1]
Code(c) == CHOOSE i \in DOMAIN Chars : Chars[i] = c
Ch(str, i) == IF i \in DOMAIN str THEN str[i] ELSE NUL
Slice(str, i, len) == SubSeq(str, i, i + len - 1)

UNFINISHED == -1
POSITION == -2
NULL == 0
Yes(ms, s) == [ms |-> ms, s |-> s]
No(ms) == Yes(ms, NULL)
Raise(ms, what) == No([ms EXCEPT !.err = what])

\* classend: where the item that begins at p ends; 0 when it does not.
RECURSIVE BracketEnd(_, _)
BracketEnd(pat, q) ==
  LET next == IF pat[q] = "%" /\ q + 1 <= Len(pat) THEN q + 2 ELSE q + 1
  IN  IF q > Len(pat) THEN 0
      ELSE IF Ch(pat, next) = "]" THEN next + 1 ELSE BracketEnd(pat, next)
ClassEnd(pat, p) ==
  CASE pat[p] = "%" -> IF p = Len(pat) THEN 0 ELSE p + 2
    [] pat[p] = "[" -> BracketEnd(pat, IF Ch(pat, p + 1) = "^" THEN p + 2 ELSE p + 1)
    [] OTHER -> p + 1
BadClass(pat, p) ==
  IF pat[p] = "%" THEN "malformed pattern (ends with '%')" ELSE "malformed pattern (missing ']')"

\* match_class: a capital letter is the complement of the class.
MatchClass(c, cl) ==
  LET small == { u[2] : u \in { u \in Upper : u[1] = cl } }
  IN  IF cl \in DOMAIN CType THEN c \in CType[cl]
      ELSE IF \E l \in small : l \in DOMAIN CType
      THEN \A l \in small : c \notin CType[l]
      ELSE c = cl

\* matchbracketclass: the set from q to its end at ec.
RECURSIVE InBracket(_, _, _, _)
InBracket(c, pat, q, ec) ==
  IF q >= ec THEN FALSE
  ELSE IF pat[q] = "%" THEN MatchClass(c, pat[q + 1]) \/ InBracket(c, pat, q + 2, ec)
  ELSE IF pat[q + 1] = "-" /\ q + 2 < ec
  THEN (Code(pat[q]) <= Code(c) /\ Code(c) <= Code(pat[q + 2])) \/ InBracket(c, pat, q + 3, ec)
  ELSE pat[q] = c \/ InBracket(c, pat, q + 1, ec)
MatchBracketClass(c, pat, p, ec) ==
  IF pat[p + 1] = "^" THEN ~InBracket(c, pat, p + 2, ec) ELSE InBracket(c, pat, p + 1, ec)

SingleMatch(x, s, p, ep) ==
  LET c == x.src[s]
  IN  /\ s <= Len(x.src)
      /\ CASE x.pat[p] = "." -> TRUE
           [] x.pat[p] = "%" -> MatchClass(c, x.pat[p + 1])
           [] x.pat[p] = "[" -> MatchBracketClass(c, x.pat, p, ep - 1)
           [] OTHER -> x.pat[p] = c

\* matchbalance: the end of the balanced string that begins at s, or NULL.
RECURSIVE Balance(_, _, _, _, _)
Balance(src, s, b, e, cont) ==
  IF s > Len(src) THEN NULL
  ELSE IF src[s] = e THEN IF cont = 1 THEN s + 1 ELSE Balance(src, s + 1, b, e, cont - 1)
  ELSE Balance(src, s + 1, b, e, IF src[s] = b THEN cont + 1 ELSE cont)
MatchBalance(x, s, p) ==
  IF Ch(x.src, s) # x.pat[p] THEN NULL
  ELSE Balance(x.src, s + 1, x.pat[p], x.pat[p + 1], 1)

\* check_capture: the capture of a digit, or 0.
Digits == <<"1", "2", "3", "4", "5", "6", "7", "8", "9">>
CheckCapture(ms, c) ==
  LET l == CHOOSE l \in 0..9 : IF l = 0 THEN c = "0" ELSE c = Digits[l]
  IN  IF l = 0 \/ l > Len(ms.cap) THEN 0 ELSE IF ms.cap[l].len = UNFINISHED THEN 0 ELSE l
\* capture_to_close: the innermost that is not finished, or 0.
CaptureToClose(ms) == SelectLastInSeq(ms.cap, LAMBDA c : c.len = UNFINISHED)
\* match_capture; the length of a position, as a size, is longer than any string.
MatchCapture(x, ms, s, l) ==
  LET c == ms.cap[l]
  IN  IF c.len # POSITION /\ Len(x.src) - s + 1 >= c.len
         /\ Slice(x.src, s, c.len) = Slice(x.src, c.init, c.len)
      THEN s + c.len ELSE NULL

(*--------------------------- the matcher -------------------------------*)
(* d is what is left of matchdepth.                                         *)

RECURSIVE Match(_, _, _, _, _), Items(_, _, _, _, _), Fewer(_, _, _, _, _, _),
  MinExpand(_, _, _, _, _, _), Run(_, _, _, _)

\* How often the item matches from s on.
Run(x, s, p, ep) == IF SingleMatch(x, s, p, ep) THEN 1 + Run(x, s + 1, p, ep) ELSE 0
\* max_expand: one repetition less until the rest matches.
Fewer(x, ms, s, i, ep, d) ==
  LET r == Match(x, ms, s + i, ep + 1, d)
  IN  IF r.s # NULL \/ r.ms.err # "" \/ i = 0 THEN r ELSE Fewer(x, r.ms, s, i - 1, ep, d)
MaxExpand(x, ms, s, p, ep, d) == Fewer(x, ms, s, Run(x, s, p, ep), ep, d)
\* min_expand
MinExpand(x, ms, s, p, ep, d) ==
  LET r == Match(x, ms, s, ep + 1, d)
  IN  IF r.s # NULL \/ r.ms.err # "" THEN r
      ELSE IF SingleMatch(x, s, p, ep) THEN MinExpand(x, r.ms, s + 1, p, ep, d)
      ELSE r

\* start_capture and end_capture undo theirs when the rest does not match.
StartCapture(x, ms, s, p, what, d) ==
  LET r == Match(x, [ms EXCEPT !.cap = Append(@, [init |-> s, len |-> what])], s, p, d)
  IN  IF Len(ms.cap) >= LUA_MAXCAPTURES THEN Raise(ms, "too many captures")
      ELSE IF r.s = NULL /\ r.ms.err = "" THEN No([r.ms EXCEPT !.cap = Front(@)])
      ELSE r
\* Mutant: a closed capture stays closed when the rest fails.
EndCaptureKept(x, ms, s, p, d) ==
  LET l == CaptureToClose(ms)
  IN  IF l = 0 THEN Raise(ms, "invalid pattern capture")
      ELSE Match(x, [ms EXCEPT !.cap[l].len = s - ms.cap[l].init], s, p, d)
EndCapture(x, ms, s, p, d) ==
  LET l == CaptureToClose(ms)
      r == Match(x, [ms EXCEPT !.cap[l].len = s - ms.cap[l].init], s, p, d)
  IN  IF l = 0 THEN Raise(ms, "invalid pattern capture")
      ELSE IF r.s = NULL /\ r.ms.err = "" THEN No([r.ms EXCEPT !.cap[l].len = UNFINISHED])
      ELSE r

\* The default of match: a class and what may follow it.
Suffixed(x, ms, s, p, d) ==
  LET ep == ClassEnd(x.pat, p)
      suffix == Ch(x.pat, ep)
      once == Match(x, ms, s + 1, ep + 1, d)
  IN  IF ep = 0 THEN Raise(ms, BadClass(x.pat, p))
      ELSE IF ~SingleMatch(x, s, p, ep)
      THEN IF suffix \in {"*", "?", "-"} THEN Items(x, ms, s, ep + 1, d) ELSE No(ms)
      ELSE CASE suffix = "?" -> IF once.s # NULL \/ once.ms.err # "" THEN once
                                ELSE Items(x, once.ms, s, ep + 1, d)
             [] suffix = "+" -> MaxExpand(x, ms, s + 1, p, ep, d)
             [] suffix = "*" -> MaxExpand(x, ms, s, p, ep, d)
             [] suffix = "-" -> MinExpand(x, ms, s, p, ep, d)
             [] OTHER -> Items(x, ms, s + 1, ep, d)

\* %f: between a character out of the set and one in it.
Frontier(x, ms, s, p, d) ==
  LET ep == ClassEnd(x.pat, p)
      in(c) == MatchBracketClass(c, x.pat, p, ep - 1)
  IN  IF Ch(x.pat, p) # "[" THEN Raise(ms, "missing '[' after '%f' in pattern")
      ELSE IF ep = 0 THEN Raise(ms, BadClass(x.pat, p))
      ELSE IF ~in(Ch(x.src, s - 1)) /\ in(Ch(x.src, s)) THEN Items(x, ms, s, ep, d)
      ELSE No(ms)
Escape(x, ms, s, p, d) ==
  LET c == Ch(x.pat, p + 1)
      l == CheckCapture(ms, c)
      e == IF c = "b" THEN MatchBalance(x, s, p + 2) ELSE MatchCapture(x, ms, s, l)
  IN  CASE c = "b" -> IF p + 3 > Len(x.pat)
                      THEN Raise(ms, "malformed pattern (missing arguments to '%b')")
                      ELSE IF e # NULL THEN Items(x, ms, e, p + 4, d) ELSE No(ms)
        [] c = "f" -> Frontier(x, ms, s, p + 2, d)
        [] c \in {"0"} \cup Range(Digits) ->
             IF l = 0 THEN Raise(ms, "invalid capture index")
             ELSE IF e # NULL THEN Items(x, ms, e, p + 2, d) ELSE No(ms)
        [] OTHER -> Suffixed(x, ms, s, p, d)

\* The loop of match, its gotos the calls of Items.
Items(x, ms, s, p, d) ==
  LET c == Ch(x.pat, p)
  IN  IF p > Len(x.pat) THEN Yes(ms, s)
      ELSE CASE c = "(" -> IF Ch(x.pat, p + 1) = ")"
                           THEN StartCapture(x, ms, s, p + 2, POSITION, d)
                           ELSE StartCapture(x, ms, s, p + 1, UNFINISHED, d)
             [] c = ")" -> EndCapture(x, ms, s, p + 1, d)
             [] c = "$" /\ p = Len(x.pat) -> IF s = Len(x.src) + 1 THEN Yes(ms, s) ELSE No(ms)
             [] c = "%" -> Escape(x, ms, s, p, d)
             [] OTHER -> Suffixed(x, ms, s, p, d)
Match(x, ms, s, p, d) ==
  IF d = 0 THEN Raise(ms, "pattern too complex") ELSE Items(x, ms, s, p, d - 1)

(*----------------------- find, gmatch and gsub -------------------------*)

Fresh == [cap |-> <<>>, err |-> ""]
MatchAt(x, s) == Match(x, Fresh, s, 1, MAXCCALLS)
X(src, pat) == [src |-> src, pat |-> pat]
Anchored(pat) == Ch(pat, 1) = "^"

\* get_onecapture of a match from s to e: a string, a position or an error.
GetOneCapture(x, ms, i, s, e) ==
  IF i > Len(ms.cap)
  THEN IF i # 1 THEN <<"error", "invalid capture index">> ELSE <<"str", SubSeq(x.src, s, e - 1)>>
  ELSE LET c == ms.cap[i]
       IN  CASE c.len = UNFINISHED -> <<"error", "unfinished capture">>
             [] c.len = POSITION -> <<"pos", c.init>>
             [] OTHER -> <<"str", Slice(x.src, c.init, c.len)>>
Failure(what) == [k |-> "error", err |-> what]
\* push_captures; 'whole' when a match without captures is its own.
PushCaptures(x, ms, s, e, whole) ==
  LET n == IF ms.cap = <<>> /\ whole THEN 1 ELSE Len(ms.cap)
      caps == [i \in 1..n |-> GetOneCapture(x, ms, i, s, e)]
      bad == SelectInSeq(caps, LAMBDA c : c[1] = "error")
  IN  IF bad # 0 THEN Failure(caps[bad][2]) ELSE [k |-> "match", s |-> s, e |-> e, caps |-> caps]

\* posrelatI
PosRelat(pos, len) ==
  IF pos > 0 THEN pos ELSE IF pos = 0 \/ pos < -len THEN 1 ELSE len + pos + 1

NotFound == [k |-> "nil"]
RECURSIVE Search(_, _, _)
\* The loop of str_find_aux.
Search(x, s, anchor) ==
  LET r == MatchAt(x, s)
  IN  IF r.ms.err # "" THEN Failure(r.ms.err)
      ELSE IF r.s # NULL THEN PushCaptures(x, r.ms, s, r.s, FALSE)
      ELSE IF s <= Len(x.src) /\ ~anchor THEN Search(x, s + 1, anchor)
      ELSE NotFound
\* lmemfind
RECURSIVE MemFind(_, _, _)
MemFind(src, s, what) ==
  IF s + Len(what) - 1 > Len(src) THEN NULL
  ELSE IF Slice(src, s, Len(what)) = what THEN s ELSE MemFind(src, s + 1, what)
Specials == {"^", "$", "*", "+", "?", ".", "(", "[", "%", "-"}
NoSpecials(pat) == Range(pat) \cap Specials = {}
\* string.find
StrFind(src, pat, pos) ==
  LET init == PosRelat(pos, Len(src))
      plain == MemFind(src, init, pat)
  IN  IF init > Len(src) + 1 THEN NotFound
      ELSE IF NoSpecials(pat)
      THEN IF plain = NULL THEN NotFound
           ELSE [k |-> "match", s |-> plain, e |-> plain + Len(pat), caps |-> <<>>]
      ELSE Search(X(src, IF Anchored(pat) THEN Tail(pat) ELSE pat), init, Anchored(pat))

\* string.gmatch: the matches of the iterator, from s on, the last ended at e.
RECURSIVE GMatch(_, _, _)
GMatch(x, s, lastmatch) ==
  LET r == MatchAt(x, s)
      got == PushCaptures(x, r.ms, s, r.s, TRUE)
  IN  IF s > Len(x.src) + 1 THEN <<>>
      ELSE IF r.ms.err # "" THEN <<Failure(r.ms.err)>>
      ELSE IF r.s # NULL /\ r.s # lastmatch
      THEN IF got.k = "error" THEN <<got>> ELSE <<got>> \o GMatch(x, r.s, r.s)
      ELSE GMatch(x, s + 1, lastmatch)

\* add_s: the replacement string, its % items replaced.
RECURSIVE AddS(_, _, _, _, _)
AddS(x, ms, s, e, news) ==
  LET c == Ch(news, 2)
      n == IF c \in Range(Digits) THEN CHOOSE i \in DOMAIN Digits : Digits[i] = c ELSE 0
      what == CASE c = "%" -> <<"str", <<"%">>>>
                [] c = "0" -> <<"str", SubSeq(x.src, s, e - 1)>>
                [] n > 0 -> GetOneCapture(x, ms, n, s, e)
                [] OTHER -> <<"error", "invalid use of '%' in replacement string">>
      rest == AddS(x, ms, s, e, SubSeq(news, 3, Len(news)))
  IN  IF news = <<>> THEN <<"str", <<>>>>
      ELSE IF Head(news) # "%"
      THEN LET t == AddS(x, ms, s, e, Tail(news))
           IN  IF t[1] = "error" THEN t ELSE <<"str", <<Head(news)>> \o t[2]>>
      ELSE IF what[1] = "error" THEN what
      ELSE IF rest[1] = "error" THEN rest
      ELSE <<"str", (IF what[1] = "pos" THEN <<Digits[what[2]]>> ELSE what[2]) \o rest[2]>>

\* string.gsub with a string: the result built so far is b, after n replacements.
RECURSIVE GSub(_, _, _, _, _, _, _)
GSub(x, s, lastmatch, news, anchor, b, n) ==
  LET r == MatchAt(x, s)
      hit == r.s # NULL /\ r.s # lastmatch
      add == AddS(x, r.ms, s, r.s, news)
      all(end, t, m) == [k |-> "str", str |-> t \o SubSeq(x.src, end, Len(x.src)), n |-> m]
  IN  IF r.ms.err # "" THEN Failure(r.ms.err)
      ELSE IF hit
      THEN IF add[1] = "error" THEN Failure(add[2])
           ELSE IF anchor THEN all(r.s, b \o add[2], n + 1)
           ELSE GSub(x, r.s, r.s, news, anchor, b \o add[2], n + 1)
      ELSE IF s <= Len(x.src) /\ ~anchor
      THEN GSub(x, s + 1, lastmatch, news, anchor, Append(b, x.src[s]), n)
      ELSE all(s, b, n)
StrGSub(src, pat, news) ==
  GSub(X(src, IF Anchored(pat) THEN Tail(pat) ELSE pat), 1, NULL, news, Anchored(pat), <<>>, 0)
=============================================================================
