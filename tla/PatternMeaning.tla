----------------------------- MODULE PatternMeaning ----------------------------
(***************************************************************************)
(* What a pattern means, as the reference manual tells it (6.4.1): a row of *)
(* items, each a set of characters with a repetition, a capture, a balanced *)
(* string or a frontier.  There is no backtracking here: all the ways to    *)
(* match at a place are listed, the preferred first, and a malformed item   *)
(* is an error when a match gets to it.                                     *)
(***************************************************************************)
EXTENDS LuaPatterns, FiniteSets

Alphabet == Range(Chars)
ClassOf(cl) ==
  IF cl \in DOMAIN CType THEN CType[cl]
  ELSE IF \E u \in Upper : u[1] = cl /\ u[2] \in DOMAIN CType
  THEN Alphabet \ CType[(CHOOSE u \in Upper : u[1] = cl)[2]] ELSE {cl}
Between(c1, c2) == { c \in Alphabet : Code(c1) <= Code(c) /\ Code(c) <= Code(c2) }

RECURSIVE Members(_)
\* What is between the brackets of a set.
Members(t) ==
  IF t = <<>> THEN {}
  ELSE IF Head(t) = "%" THEN ClassOf(t[2]) \cup Members(SubSeq(t, 3, Len(t)))
  ELSE IF Len(t) >= 3 /\ t[2] = "-" THEN Between(t[1], t[3]) \cup Members(SubSeq(t, 4, Len(t)))
  ELSE {Head(t)} \cup Members(Tail(t))

Bad(what) == [k |-> "bad", set |-> {}, len |-> 0, err |-> what]
Set(set, len) == [k |-> "set", set |-> set, len |-> len, err |-> ""]
\* The set at the head of a text, and how much of the text it takes.
SetItem(t) ==
  LET neg == Ch(t, 2) = "^"
      first == IF neg THEN 3 ELSE 2
      escaped(i) == LET run == { m \in first..i : \A l \in m..(i - 1) : t[l] = "%" }
                    IN  (i - CHOOSE m \in run : \A l \in run : m <= l) % 2 = 1
      ends == { i \in (first + 1)..Len(t) : t[i] = "]" /\ ~escaped(i) }
      end == CHOOSE i \in ends : \A m \in ends : i <= m
      members == Members(SubSeq(t, first, end - 1))
  IN  CASE t[1] = "." -> Set(Alphabet, 1)
        [] t[1] = "%" -> IF Len(t) = 1 THEN Bad("malformed pattern (ends with '%')")
                         ELSE Set(ClassOf(t[2]), 2)
        [] t[1] = "[" -> IF ends = {} THEN Bad("malformed pattern (missing ']')")
                         ELSE Set(IF neg THEN Alphabet \ members ELSE members, end)
        [] OTHER -> Set({t[1]}, 1)

Rest(t, n) == SubSeq(t, n + 1, Len(t))
Item(k, arg) == [k |-> k, arg |-> arg]
RECURSIVE Parse(_)
\* The items of a text.
Parse(t) ==
  LET set == SetItem(t)
      suffix == Ch(t, set.len + 1)
      reps == suffix \in {"*", "+", "-", "?"}
      front == SetItem(Rest(t, 2))
  IN  IF t = <<>> THEN <<>>
      ELSE IF t = <<"$">> THEN <<Item("end", 0)>>
      ELSE IF Len(t) >= 2 /\ t[1] = "(" /\ t[2] = ")"
      THEN <<Item("position", 0)>> \o Parse(Rest(t, 2))
      ELSE IF t[1] = "(" THEN <<Item("open", 0)>> \o Parse(Tail(t))
      ELSE IF t[1] = ")" THEN <<Item("close", 0)>> \o Parse(Tail(t))
      ELSE IF t[1] = "%" /\ Ch(t, 2) = "b"
      THEN IF Len(t) < 4 THEN <<Item("bad", "malformed pattern (missing arguments to '%b')")>>
           ELSE <<Item("balanced", <<t[3], t[4]>>)>> \o Parse(Rest(t, 4))
      ELSE IF t[1] = "%" /\ Ch(t, 2) = "f"
      THEN IF Ch(t, 3) # "[" THEN <<Item("bad", "missing '[' after '%f' in pattern")>>
           ELSE IF front.k = "bad" THEN <<Item("bad", front.err)>>
           ELSE <<Item("frontier", front.set)>> \o Parse(Rest(t, 2 + front.len))
      ELSE IF t[1] = "%" /\ Ch(t, 2) \in {"0"} \cup Range(Digits)
      THEN <<Item("back", SelectInSeq(Digits, LAMBDA c : c = t[2]))>> \o Parse(Rest(t, 2))
      ELSE IF set.k = "bad" THEN <<Item("bad", set.err)>>
      ELSE <<Item("set", <<set.set, IF reps THEN suffix ELSE "">>)>>
             \o Parse(Rest(t, set.len + IF reps THEN 1 ELSE 0))

\* Where a balanced string that begins at s ends: the first place with as many
\* closings as openings; an opening that is also the closing closes.
BalancedEnds(src, s, xy) ==
  LET opens(e) == Cardinality({ i \in s..e : src[i] = xy[1] /\ (i = s \/ xy[1] # xy[2]) })
      closes(e) == Cardinality({ i \in (s + 1)..e : src[i] = xy[2] })
      ends == { e \in (s + 1)..Len(src) : opens(e) = closes(e) }
  IN  IF s > Len(src) \/ ends = {} THEN {}
      ELSE IF src[s] # xy[1] THEN {} ELSE {CHOOSE e \in ends : \A f \in ends : e <= f}

\* caps are the captures so far: <<first, what or length>>.
RECURSIVE Ways(_, _, _, _)
\* The ways the items match from s on.
Ways(items, src, s, caps) ==
  LET it == Head(items)
      rest == Tail(items)
      on(e) == Ways(rest, src, e, caps)
      fits(n) == \A i \in s..(s + n - 1) : src[i] \in it.arg[1]
      most == CHOOSE n \in 0..(Len(src) - s + 1) :
                /\ fits(n)
                /\ n < Len(src) - s + 1 => ~fits(n + 1)
      most1 == IF most > 1 THEN 1 ELSE most
      times(lo, hi) == FlattenSeq([i \in 1..(hi - lo + 1) |-> on(s + lo + i - 1)])
      fewer(lo, hi) == FlattenSeq([i \in 1..(hi - lo + 1) |-> on(s + hi - i + 1)])
      open == { i \in DOMAIN caps : caps[i][2] = UNFINISHED }
      inner == CHOOSE i \in open : \A j \in open : j <= i
      c == caps[it.arg]
      at(i) == IF i \in DOMAIN src THEN src[i] ELSE NUL
      err(what) == << <<"error", what>> >>
  IN  IF items = <<>> THEN << <<"ok", s, caps>> >>
      ELSE CASE it.k = "bad" -> err(it.arg)
             [] it.k = "end" -> IF s = Len(src) + 1 THEN on(s) ELSE <<>>
             [] it.k \in {"open", "position"} /\ Len(caps) = LUA_MAXCAPTURES ->
                  err("too many captures")
             [] it.k = "open" -> Ways(rest, src, s, Append(caps, <<s, UNFINISHED>>))
             [] it.k = "position" -> Ways(rest, src, s, Append(caps, <<s, POSITION>>))
             [] it.k = "close" ->
                  IF open = {} THEN err("invalid pattern capture")
                  ELSE Ways(rest, src, s, [caps EXCEPT ![inner] = <<@[1], s - @[1]>>])
             [] it.k = "back" ->
                  IF it.arg \notin DOMAIN caps \ open THEN err("invalid capture index")
                  ELSE IF c[2] # POSITION /\ s + c[2] - 1 <= Len(src)
                          /\ \A i \in 0..(c[2] - 1) : src[s + i] = src[c[1] + i]
                  THEN on(s + c[2]) ELSE <<>>
             [] it.k = "balanced" ->
                  IF BalancedEnds(src, s, it.arg) = {} THEN <<>>
                  ELSE on(1 + CHOOSE e \in BalancedEnds(src, s, it.arg) : TRUE)
             [] it.k = "frontier" ->
                  IF at(s - 1) \notin it.arg /\ at(s) \in it.arg THEN on(s) ELSE <<>>
             [] it.k = "set" ->
                  CASE it.arg[2] = "" -> times(1, most1)
                    [] it.arg[2] = "?" -> fewer(0, most1)
                    [] it.arg[2] = "*" -> fewer(0, most)
                    [] it.arg[2] = "+" -> fewer(1, most)
                    [] it.arg[2] = "-" -> times(0, most)

\* The preferred match at s: none, an error or a match.
Way(items, src, s) ==
  LET w == Ways(items, src, s, <<>>) IN IF w = <<>> THEN <<"none">> ELSE Head(w)
Captures(w, src) ==
  [i \in DOMAIN w[3] |->
     LET c == w[3][i]
     IN  CASE c[2] = UNFINISHED -> <<"error", "unfinished capture">>
           [] c[2] = POSITION -> <<"pos", c[1]>>
           [] OTHER -> <<"str", SubSeq(src, c[1], c[1] + c[2] - 1)>>]
Outcome(w, src, s, whole) ==
  LET caps == IF whole /\ w[3] = <<>> THEN << <<"str", SubSeq(src, s, w[2] - 1)>> >>
              ELSE Captures(w, src)
      bad == { i \in DOMAIN caps : caps[i][1] = "error" }
  IN  IF w[1] = "error" THEN Failure(w[2])
      ELSE IF bad # {} THEN Failure("unfinished capture")
      ELSE [k |-> "match", s |-> s, e |-> w[2], caps |-> caps]

\* A text without magic characters stands for itself, even a stray ')'.
Literal(pat) == [i \in DOMAIN pat |-> Item("set", <<{pat[i]}, "">>)]
Magic == {"^", "$", "*", "+", "?", ".", "(", "[", "%", "-"}
Least(S) == CHOOSE i \in S : \A j \in S : i <= j
\* The leftmost match at a place; an anchor holds it there.
FirstOutcome(items, src, places) ==
  LET hits == { s \in places : Way(items, src, s) # <<"none">> }
      first == Least(hits)
  IN  IF hits = {} THEN NotFound ELSE Outcome(Way(items, src, first), src, first, FALSE)
FindFrom(src, pat, init) ==
  IF init > Len(src) + 1 THEN NotFound
  ELSE IF Anchored(pat) THEN FirstOutcome(Parse(Tail(pat)), src, {init})
  ELSE FirstOutcome(IF Range(pat) \cap Magic = {} THEN Literal(pat) ELSE Parse(pat),
                    src, init..(Len(src) + 1))
MeaningOfFind(src, pat, pos) ==
  FindFrom(src, pat, IF pos > 0 THEN pos ELSE IF pos = 0 \/ pos < -Len(src) THEN 1
                     ELSE Len(src) + 1 + pos)

\* The matches from s on, but for an empty one where the last one ended.
RECURSIVE AllMatches(_, _, _, _)
\* A match of way w at s, and those that follow.
AndNext(items, src, s, w) ==
  << <<s, w>> >> \o (IF w[1] = "error" THEN <<>> ELSE AllMatches(items, src, w[2], w[2]))
AllMatches(items, src, s, last) ==
  LET new(w) == w[1] = "error" \/ (w[1] = "ok" /\ w[2] # last)
      hits == { t \in s..(Len(src) + 1) : new(Way(items, src, t)) }
      first == Least(hits)
  IN  IF hits = {} THEN <<>> ELSE AndNext(items, src, first, Way(items, src, first))
\* The outcomes of some matches, up to the first that is an error.
Outcomes(outs) ==
  LET bad == { i \in DOMAIN outs : outs[i].k = "error" }
  IN  IF bad = {} THEN outs ELSE SubSeq(outs, 1, Least(bad))
MeaningOfGMatch(src, pat) ==
  LET all == AllMatches(Parse(pat), src, 1, 0)
  IN  Outcomes([i \in DOMAIN all |-> Outcome(all[i][2], src, all[i][1], TRUE)])

\* A replacement string for a match: %0 the whole of it, %1 its first capture or
\* the whole when it has none.
RECURSIVE Expand(_, _, _, _)
Piece(c, src, s, w) ==
  LET n == SelectInSeq(Digits, LAMBDA d : d = c)
      whole == <<"str", SubSeq(src, s, w[2] - 1)>>
      cap == IF n \in DOMAIN w[3] THEN Captures(w, src)[n]
             ELSE IF n = 1 THEN whole ELSE <<"error", "invalid capture index">>
  IN  CASE c = "%" -> <<"str", <<"%">>>>
        [] c = "0" -> whole
        [] n # 0 -> IF cap[1] = "pos" THEN <<"str", <<Digits[cap[2]]>>>> ELSE cap
        [] OTHER -> <<"error", "invalid use of '%' in replacement string">>
Joined(here, there) ==
  IF here[1] = "error" THEN here
  ELSE IF there[1] = "error" THEN there ELSE <<"str", here[2] \o there[2]>>
Expand(news, src, s, w) ==
  IF news = <<>> THEN <<"str", <<>>>>
  ELSE IF Head(news) # "%" THEN Joined(<<"str", <<Head(news)>>>>, Expand(Tail(news), src, s, w))
  ELSE Joined(Piece(Ch(news, 2), src, s, w), Expand(Rest(news, 2), src, s, w))
\* The subject with the text of its matches replaced.
Spliced(src, all, texts) ==
  LET n == Len(all)
      from(i) == IF i = 1 THEN 1 ELSE all[i - 1][2][2]
      parts == [i \in 1..n |-> SubSeq(src, from(i), all[i][1] - 1) \o texts[i][2]]
      bad == { i \in 1..n : texts[i][1] = "error" }
  IN  IF bad # {} THEN Failure(texts[Least(bad)][2])
      ELSE [k |-> "str", n |-> n, str |-> FlattenSeq(parts) \o SubSeq(src, from(n + 1), Len(src))]
Replaced(src, all, news) ==
  Spliced(src, all, [i \in DOMAIN all |-> IF all[i][2][1] = "error" THEN all[i][2]
                                          ELSE Expand(news, src, all[i][1], all[i][2])])
\* The subject with every match replaced, and their number.
MeaningOfGSub(src, pat, news) ==
  LET only == Way(Parse(Tail(pat)), src, 1)
  IN  Replaced(src, IF ~Anchored(pat) THEN AllMatches(Parse(pat), src, 1, 0)
                    ELSE IF only = <<"none">> THEN <<>> ELSE << <<1, only>> >>, news)
=============================================================================
