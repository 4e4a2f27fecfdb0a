------------------------------ MODULE JsRegExp ------------------------------
(***************************************************************************)
(* Regular expressions (libregexp.c): the compiler from a pattern to       *)
(* bytecode and the backtracking interpreter with its explicit stack of    *)
(* states.  A pattern is a tree (the parser's work up to that tree is left *)
(* out), an instruction a record, a jump a number of instructions.  A      *)
(* character is one element of the input: UTF-16 pairs are left out.       *)
(*                                                                         *)
(* The reference is Ways: all the ways in which a term matches, in order   *)
(* of preference.  The interpreter must end with the first of them.        *)
(*                                                                         *)
(* Patterns:                                                               *)
(*   [k |-> "char", c]  [k |-> "set", s]  [k |-> "dot"]                    *)
(*   [k |-> "bol"]  [k |-> "eol"]  [k |-> "word", neg]  [k |-> "ref", n]   *)
(*   [k |-> "seq", ts]  [k |-> "alt", ts]  [k |-> "group", n, t]           *)
(*   [k |-> "look", neg, back, t]  [k |-> "quant", t, min, max, greedy]    *)
(* where ts is a sequence of patterns and groups are numbered from 1 in    *)
(* the order of their parentheses.                                         *)
(***************************************************************************)
EXTENDS Integers, Sequences, SequencesExt, FiniteSets

CONSTANTS
  Patterns,     \* the patterns compiled
  Inputs,       \* the strings searched, sequences of characters
  Flags,        \* records [multiline, dotall, icase, sticky]
  Newline,      \* the characters that end a line
  Wordly,       \* the characters \b takes for those of a word
  Lower,        \* lre_canonicalize: a function on characters
  Infinity      \* INT32_MAX, the maximum of an open repetition

VARIABLES
  pattern, input, flags,   \* what is being matched; never changes
  code,      \* the bytecode, a sequence of instructions
  pc,        \* index of the next instruction
  cptr,      \* position in the input, from 0
  caps,      \* caps[i] = <<start, end>> of group i
  stack,     \* loop counters and positions
  states,    \* the backtracking states
  ret,       \* "run", or the result handed back: "match", "fail"
  result     \* "none" until the end, then "match" or "fail"

vars == <<pattern, input, flags, code, pc, cptr, caps, stack, states, ret, result>>
fixed == <<pattern, input, flags, code>>

NoPos == -1
Nothing == <<NoPos, NoPos>>
----------------------------------------------------------------------------
(* The groups of a pattern. *)

RECURSIVE Groups(_)
Groups(t) ==
  CASE t.k = "group"              -> {t.n} \cup Groups(t.t)
    [] t.k \in {"seq", "alt"}     -> UNION {Groups(t.ts[i]) : i \in DOMAIN t.ts}
    [] t.k \in {"look", "quant"}  -> Groups(t.t)
    [] OTHER                      -> {}

CaptureCount(t) == 1 + Cardinality(Groups(t))
----------------------------------------------------------------------------
(* The compiler. *)

Op(o) == [op |-> o]
OpN(o, n) == [op |-> o, n |-> n]

Canonical(f, c) == IF f.icase THEN Lower[c] ELSE c

\* Whether an atom, as compiled, may match without advancing.
CharOps == {"char", "range", "dot", "any"}
NoEffect == {"line_start", "line_end", "word", "push_i32", "push_char_pos", "drop", "prev",
             "save_start", "save_end", "save_reset", "back_ref", "back_ref_b"}

\* The code is read from the left: the first instruction whose effect is not
\* known ends the analysis.
NeedCheckAdvance(c) ==
  \/ \E i \in DOMAIN c : c[i].op \notin CharOps \cup NoEffect
  \/ \A i \in DOMAIN c : c[i].op \notin CharOps

\* The number of characters of an atom of characters and assertions only.
SimpleLength(c) ==
  IF \A i \in DOMAIN c : c[i].op \in CharOps \cup {"line_start", "line_end", "word"}
  THEN Len(SelectSeq(c, LAMBDA x : x.op \in CharOps)) ELSE -1

SplitFirst(greedy) == IF greedy THEN "split_next_first" ELSE "split_goto_first"

\* A quantified atom, by its bounds.
Simple(atom, min, max) ==
  <<[op |-> "greedy_quant", n |-> Len(atom) + 1, min |-> min, max |-> max,
     len |-> SimpleLength(atom)]>> \o atom \o <<Op("match")>>

\* The atom with the test that it advances, when that is not known.
Advancing(atom) ==
  IF NeedCheckAdvance(atom) THEN <<Op("push_char_pos")>> \o atom \o <<Op("check_advance")>>
  ELSE atom

Optional(atom, max, greedy) ==
  LET body == Advancing(atom)
  IN  CASE max = 0 -> <<>>
        [] max = 1 -> <<OpN(SplitFirst(greedy), Len(body))>> \o body
        [] max = Infinity ->
             <<OpN(SplitFirst(greedy), Len(body) + 1)>> \o body
               \o <<OpN("goto", -(Len(body) + 2))>>
        [] OTHER ->
             <<OpN("push_i32", max), OpN(SplitFirst(greedy), Len(body) + 1)>> \o body
               \o <<OpN("loop", -(Len(body) + 2)), Op("drop")>>

AtLeast(atom, min) ==
  IF min = 1 THEN atom
  ELSE <<OpN("push_i32", min)>> \o atom \o <<OpN("loop", -(Len(atom) + 1)), Op("drop")>>

Quantified(atom, groups, min, max, greedy) ==
  IF greedy /\ max > 0 /\ SimpleLength(atom) > 0 THEN Simple(atom, min, max)
  ELSE IF min = 0 THEN
    (IF groups = {} THEN <<>>
     ELSE <<[op |-> "save_reset", from |-> Min(groups), to |-> Max(groups)]>>)
      \o Optional(atom, max, greedy)
  ELSE IF min = 1 /\ max = Infinity /\ ~NeedCheckAdvance(atom) THEN
    atom \o <<OpN(IF greedy THEN "split_goto_first" ELSE "split_next_first", -(Len(atom) + 1))>>
  ELSE AtLeast(atom, min)
        \o (IF max = Infinity THEN Optional(atom, Infinity, greedy)
            ELSE IF max > min THEN
              \* the optional part counts, also when it runs once at most
              LET body == Advancing(atom)
              IN  <<OpN("push_i32", max - min), OpN(SplitFirst(greedy), Len(body) + 1)>>
                    \o body \o <<OpN("loop", -(Len(body) + 2)), Op("drop")>>
            ELSE <<>>)

\* One character, read backwards inside a lookbehind.
OneChar(o, back) == IF back THEN <<Op("prev"), o, Op("prev")>> ELSE <<o>>

\* A split before what was compiled so far, and a goto over what follows.
Alternative(before, after) ==
  <<OpN("split_next_first", Len(before) + 1)>> \o before
    \o <<OpN("goto", Len(after))>> \o after

RECURSIVE Compile(_, _, _)
Compile(t, back, f) ==
  CASE t.k = "char"  -> OneChar([op |-> "char", c |-> Canonical(f, t.c)], back)
    [] t.k = "set"   -> OneChar([op |-> "range", s |-> {Canonical(f, c) : c \in t.s}], back)
    [] t.k = "dot"   -> OneChar(Op(IF f.dotall THEN "any" ELSE "dot"), back)
    [] t.k = "bol"   -> <<Op("line_start")>>
    [] t.k = "eol"   -> <<Op("line_end")>>
    [] t.k = "word"  -> <<[op |-> "word", neg |-> t.neg]>>
    [] t.k = "ref"   -> <<OpN(IF back THEN "back_ref_b" ELSE "back_ref", t.n)>>
    [] t.k = "seq"   -> LET cs == [i \in DOMAIN t.ts |-> Compile(t.ts[i], back, f)]
                        IN  FlattenSeq(IF back THEN Reverse(cs) ELSE cs)
    [] t.k = "alt"   -> LET cs == [i \in DOMAIN t.ts |-> Compile(t.ts[i], back, f)]
                        IN  FoldLeft(Alternative, cs[1], Tail(cs))
    [] t.k = "group" -> <<OpN(IF back THEN "save_end" ELSE "save_start", t.n)>>
                          \o Compile(t.t, back, f)
                          \o <<OpN(IF back THEN "save_start" ELSE "save_end", t.n)>>
    [] t.k = "look"  -> LET c == Compile(t.t, t.back, f)
                        IN  <<[op |-> "look", neg |-> t.neg, n |-> Len(c) + 1]>>
                              \o c \o <<Op("match")>>
    [] t.k = "quant" -> Quantified(Compile(t.t, back, f), Groups(t.t), t.min, t.max, t.greedy)

\* The whole program: unless sticky, a lazy loop over the starting positions.
Program(t, f) ==
  (IF f.sticky THEN <<>> ELSE <<OpN("split_goto_first", 2), Op("any"), OpN("goto", -3)>>)
    \o <<OpN("save_start", 0)>> \o Compile(t, FALSE, f) \o <<OpN("save_end", 0), Op("match")>>

\* lre_compute_stack_size: the code is read once, from the left, jumps ignored.
StackSize(c) ==
  LET Depth[i \in 0..Len(c)] ==
        IF i = 0 THEN 0
        ELSE Depth[i - 1] + (CASE c[i].op \in {"push_i32", "push_char_pos"} -> 1
                               [] c[i].op \in {"drop", "check_advance"}     -> -1
                               [] OTHER                                     -> 0)
  IN  Max({Depth[i] : i \in 0..Len(c)})
----------------------------------------------------------------------------
(* The interpreter. *)

End == Len(input)
At(p) == input[p + 1]
IsWord(p) == p \in 0..(End - 1) /\ At(p) \in Wordly

\* Whether the character at p passes the test of instruction o.
Passes(o, p) ==
  /\ p < End
  /\ CASE o.op = "char"  -> Canonical(flags, At(p)) = o.c
       [] o.op = "range" -> Canonical(flags, At(p)) \in o.s
       [] o.op = "dot"   -> At(p) \notin Newline
       [] o.op = "any"   -> TRUE

\* Whether the assertion o holds at position p.
Asserts(o, p) ==
  CASE o.op = "line_start" -> p = 0 \/ (flags.multiline /\ At(p - 1) \in Newline)
    [] o.op = "line_end"   -> p = End \/ (flags.multiline /\ At(p) \in Newline)
    [] o.op = "word"       -> (IsWord(p - 1) # IsWord(p)) # o.neg

Init ==
  /\ pattern \in Patterns /\ input \in Inputs /\ flags \in Flags
  /\ code = Program(pattern, flags)
  /\ pc = 1 /\ cptr = 0 /\ stack = <<>> /\ states = <<>>
  /\ caps = [i \in 0..(CaptureCount(pattern) - 1) |-> Nothing]
  /\ ret = "run" /\ result = "none"

I == code[pc]
Running(ops) == result = "none" /\ ret = "run" /\ I.op \in ops

\* Go on at instruction p; or give up what is being tried.
Next1(p) == pc' = p /\ UNCHANGED ret
NoMatch == ret' = "fail" /\ UNCHANGED pc

Saved(kind, at, count) ==
  [kind |-> kind, pc |-> at, cptr |-> cptr, caps |-> caps, stack |-> stack, count |-> count]

TestChar ==
  /\ Running(CharOps)
  /\ IF Passes(I, cptr) THEN Next1(pc + 1) /\ cptr' = cptr + 1
     ELSE NoMatch /\ UNCHANGED cptr
  /\ UNCHANGED <<fixed, caps, stack, states, result>>

Prev ==
  /\ Running({"prev"})
  /\ IF cptr = 0 THEN NoMatch /\ UNCHANGED cptr ELSE Next1(pc + 1) /\ cptr' = cptr - 1
  /\ UNCHANGED <<fixed, caps, stack, states, result>>

Assertion ==
  /\ Running({"line_start", "line_end", "word"})
  /\ IF Asserts(I, cptr) THEN Next1(pc + 1) ELSE NoMatch
  /\ UNCHANGED <<fixed, cptr, caps, stack, states, result>>

Split ==
  /\ Running({"split_goto_first", "split_next_first"})
  /\ LET there == pc + 1 + I.n
         first == IF I.op = "split_next_first" THEN pc + 1 ELSE there
         other == IF I.op = "split_next_first" THEN there ELSE pc + 1
     IN  Next1(first) /\ states' = Append(states, Saved("split", other, 0))
  /\ UNCHANGED <<fixed, cptr, caps, stack, result>>

Look ==
  /\ Running({"look"})
  /\ states' = Append(states, Saved(IF I.neg THEN "neg" ELSE "look", pc + 1 + I.n, 0))
  /\ Next1(pc + 1)
  /\ UNCHANGED <<fixed, cptr, caps, stack, result>>

Goto ==
  /\ Running({"goto"})
  /\ Next1(pc + 1 + I.n)
  /\ UNCHANGED <<fixed, cptr, caps, stack, states, result>>

Save ==
  /\ Running({"save_start", "save_end"})
  /\ caps' = [caps EXCEPT ![I.n][IF I.op = "save_start" THEN 1 ELSE 2] = cptr]
  /\ Next1(pc + 1)
  /\ UNCHANGED <<fixed, cptr, stack, states, result>>

SaveReset ==
  /\ Running({"save_reset"})
  /\ caps' = [i \in DOMAIN caps |-> IF i \in I.from..I.to THEN Nothing ELSE caps[i]]
  /\ Next1(pc + 1)
  /\ UNCHANGED <<fixed, cptr, stack, states, result>>

Push ==
  /\ Running({"push_i32", "push_char_pos"})
  /\ stack' = Append(stack, IF I.op = "push_i32" THEN I.n ELSE cptr)
  /\ Next1(pc + 1)
  /\ UNCHANGED <<fixed, cptr, caps, states, result>>

Drop ==
  /\ Running({"drop"})
  /\ stack' = Front(stack)
  /\ Next1(pc + 1)
  /\ UNCHANGED <<fixed, cptr, caps, states, result>>

Loop ==
  /\ Running({"loop"})
  /\ stack' = [stack EXCEPT ![Len(stack)] = @ - 1]
  /\ Next1(IF Last(stack) - 1 # 0 THEN pc + 1 + I.n ELSE pc + 1)
  /\ UNCHANGED <<fixed, cptr, caps, states, result>>

CheckAdvance ==
  /\ Running({"check_advance"})
  /\ stack' = Front(stack)
  /\ IF Last(stack) = cptr THEN NoMatch ELSE Next1(pc + 1)
  /\ UNCHANGED <<fixed, cptr, caps, states, result>>

\* A back reference to a group without both ends matches the empty string.
BackRef ==
  /\ Running({"back_ref", "back_ref_b"})
  /\ LET from == caps[I.n][1]
         to   == caps[I.n][2]
         len  == IF NoPos \in {from, to} \/ to < from THEN 0 ELSE to - from
         at   == IF I.op = "back_ref" THEN cptr ELSE cptr - len
     IN  IF /\ at >= 0 /\ at + len <= End
            /\ \A i \in 0..(len - 1) :
                 Canonical(flags, At(from + i)) = Canonical(flags, At(at + i))
         THEN Next1(pc + 1) /\ cptr' = (IF I.op = "back_ref" THEN at + len ELSE at)
         ELSE NoMatch /\ UNCHANGED cptr
  /\ UNCHANGED <<fixed, caps, stack, states, result>>

\* One round of a simple atom (the interpreter called without backtracking):
\* the position after it, or NoPos.
RECURSIVE Round(_, _)
Round(at, p) ==
  LET o == code[at]
  IN  CASE o.op = "match"     -> p
        [] o.op \in CharOps   -> IF Passes(o, p) THEN Round(at + 1, p + 1) ELSE NoPos
        [] OTHER              -> IF Asserts(o, p) THEN Round(at + 1, p) ELSE NoPos

\* The positions after 1, 2, ... rounds, at most max of them.
RECURSIVE Rounds(_, _, _)
Rounds(at, p, max) ==
  LET q == IF max = 0 THEN NoPos ELSE Round(at, p)
  IN  IF q = NoPos THEN <<>>
      ELSE <<q>> \o Rounds(at, q, IF max = Infinity THEN max ELSE max - 1)

\* As many rounds as possible; the state kept counts those that may be undone.
GreedyQuant ==
  /\ Running({"greedy_quant"})
  /\ LET ends == Rounds(pc + 1, cptr, I.max)
         q    == Len(ends)
         p    == IF q = 0 THEN cptr ELSE Last(ends)
     IN  IF q < I.min THEN NoMatch /\ UNCHANGED states /\ cptr' = p
         ELSE /\ Next1(pc + 1 + I.n)
              /\ cptr' = p
              /\ states' = IF q > I.min
                           THEN Append(states, [Saved("quant", pc, q - I.min) EXCEPT !.cptr = p])
                           ELSE states
  /\ UNCHANGED <<fixed, caps, stack, result>>

Match ==
  /\ Running({"match"})
  /\ ret' = "match"
  /\ UNCHANGED <<fixed, pc, cptr, caps, stack, states, result>>

\* The states popped on a result, one at a time.
Finish ==
  /\ states = <<>>
  /\ result' = ret
  /\ UNCHANGED <<fixed, pc, cptr, caps, stack, states, ret>>

\* Mutant of Resume: the captures of the way that failed stay.
ResumeKeepsCaptures(s, captures) ==
  /\ pc' = s.pc /\ cptr' = s.cptr /\ stack' = s.stack /\ UNCHANGED caps
  /\ states' = Front(states) /\ ret' = "run"
  /\ UNCHANGED <<fixed, result>>

\* A positive lookahead that succeeds keeps its captures.
Resume(s, captures) ==
  /\ pc' = s.pc /\ cptr' = s.cptr /\ stack' = s.stack /\ caps' = captures
  /\ states' = Front(states) /\ ret' = "run"
  /\ UNCHANGED <<fixed, result>>

Discard(r) ==
  /\ states' = Front(states) /\ ret' = r
  /\ UNCHANGED <<fixed, pc, cptr, caps, stack, result>>

\* One round less, counted back from where the rounds ended.
Shorten(s) ==
  LET p == s.cptr - code[s.pc].len
  IN  /\ pc' = s.pc + 1 + code[s.pc].n /\ cptr' = p /\ stack' = s.stack /\ caps' = s.caps
      /\ states' = IF s.count = 1 THEN Front(states)
                   ELSE [states EXCEPT ![Len(states)] = [s EXCEPT !.cptr = p, !.count = @ - 1]]
      /\ ret' = "run"
      /\ UNCHANGED <<fixed, result>>

Backtrack ==
  /\ states # <<>>
  /\ LET s == Last(states)
     IN  CASE s.kind = "split" /\ ret = "fail" -> Resume(s, s.caps)
           [] s.kind = "quant" /\ ret = "fail" -> Shorten(s)
           [] s.kind = "look"  /\ ret = "match" -> Resume(s, caps)
           [] s.kind = "neg"   /\ ret = "fail" -> Resume(s, s.caps)
           [] s.kind = "neg"   /\ ret = "match" -> Discard("fail")
           [] OTHER -> Discard(ret)

HandBack == result = "none" /\ ret # "run" /\ (Finish \/ Backtrack)

Next ==
  \/ TestChar \/ Prev \/ Assertion \/ Split \/ Look \/ Goto \/ Save \/ SaveReset
  \/ Push \/ Drop \/ Loop \/ CheckAdvance \/ BackRef \/ GreedyQuant \/ Match \/ HandBack

Spec == Init /\ [][Next]_vars
----------------------------------------------------------------------------
(* The reference: how a term matches, from a position and captures. *)

\* One character, forwards or backwards.
Step1(o, back, st) ==
  LET p == IF back THEN st.pos - 1 ELSE st.pos
  IN  IF p >= 0 /\ Passes(o, p)
      THEN <<[st EXCEPT !.pos = IF back THEN p ELSE p + 1]>> ELSE <<>>

ForAll(ss, F(_)) == FlattenSeq([i \in DOMAIN ss |-> F(ss[i])])

RECURSIVE Ways(_, _, _)
RECURSIVE Chain(_, _, _)
RECURSIVE Repeat(_, _, _, _, _)

Chain(ts, back, st) ==
  IF ts = <<>> THEN <<st>>
  ELSE ForAll(Ways(Head(ts), back, st), LAMBDA s : Chain(Tail(ts), back, s))

\* Past the minimum, a round that does not advance does not count.
Repeat(t, back, min, max, st) ==
  LET once == SelectSeq(Ways(t.t, back, st), LAMBDA s : min > 0 \/ s.pos # st.pos)
      more == IF max = 0 THEN <<>>
              ELSE ForAll(once, LAMBDA s :
                     Repeat(t, back, IF min = 0 THEN 0 ELSE min - 1,
                            IF max = Infinity THEN max ELSE max - 1, s))
      stop == IF min = 0 THEN <<st>> ELSE <<>>
  IN  IF t.greedy THEN more \o stop ELSE stop \o more

Ways(t, back, st) ==
  CASE t.k = "char"  -> Step1([op |-> "char", c |-> Canonical(flags, t.c)], back, st)
    [] t.k = "set"   -> Step1([op |-> "range", s |-> {Canonical(flags, c) : c \in t.s}], back, st)
    [] t.k = "dot"   -> Step1(Op(IF flags.dotall THEN "any" ELSE "dot"), back, st)
    [] t.k = "bol"   -> IF Asserts(Op("line_start"), st.pos) THEN <<st>> ELSE <<>>
    [] t.k = "eol"   -> IF Asserts(Op("line_end"), st.pos) THEN <<st>> ELSE <<>>
    [] t.k = "word"  -> IF Asserts([op |-> "word", neg |-> t.neg], st.pos) THEN <<st>> ELSE <<>>
    [] t.k = "ref"   -> LET w == st.caps[t.n]
                            text == IF NoPos \in {w[1], w[2]} THEN <<>>
                                    ELSE [i \in 1..(w[2] - w[1]) |->
                                            [k |-> "char", c |-> At(w[1] + i - 1)]]
                        IN  Chain(IF back THEN Reverse(text) ELSE text, back, st)
    [] t.k = "seq"   -> Chain(IF back THEN Reverse(t.ts) ELSE t.ts, back, st)
    [] t.k = "alt"   -> ForAll(t.ts, LAMBDA u : Ways(u, back, st))
    [] t.k = "group" -> LET in  == IF back THEN 2 ELSE 1
                            out == 3 - in
                        IN  ForAll(Ways(t.t, back, [st EXCEPT !.caps[t.n][in] = st.pos]),
                                   LAMBDA s : <<[s EXCEPT !.caps[t.n][out] = s.pos]>>)
    [] t.k = "look"  -> LET ws == Ways(t.t, t.back, st)
                        IN  IF t.neg THEN IF ws = <<>> THEN <<st>> ELSE <<>>
                            ELSE IF ws = <<>> THEN <<>> ELSE <<[ws[1] EXCEPT !.pos = st.pos]>>
    [] t.k = "quant" -> LET forget == [i \in DOMAIN st.caps |->
                              IF t.min = 0 /\ i \in Groups(t.t) THEN Nothing ELSE st.caps[i]]
                        IN  Repeat(t, back, t.min, t.max, [st EXCEPT !.caps = forget])

\* The captures of the preferred match from each starting position in turn.
None == [i \in 0..(CaptureCount(pattern) - 1) |-> Nothing]
WaysFrom(p) == Ways(pattern, FALSE, [pos |-> p, caps |-> [None EXCEPT ![0][1] = p]])
Starts == {p \in (IF flags.sticky THEN {0} ELSE 0..End) : WaysFrom(p) # <<>>}
Expected ==
  IF Starts = {} THEN [result |-> "fail", caps |-> None]
  ELSE LET w == WaysFrom(Min(Starts))[1]
       IN  [result |-> "match", caps |-> [w.caps EXCEPT ![0][2] = w.pos]]
----------------------------------------------------------------------------
(* Types. *)
TypeOK ==
  /\ pc \in 1..Len(code)
  /\ cptr \in 0..End
  /\ \A i \in DOMAIN caps : caps[i] \in (NoPos..End) \X (NoPos..End)
  /\ ret \in {"run", "match", "fail"}
  /\ result \in {"none", "match", "fail"}

(* A search ends with the preferred match of the leftmost position that has  *)
(* one, or fails when there is none: lre_compile followed by                 *)
(* lre_exec_backtrack agrees with the reference, captures included.          *)
FindsTheMatch ==
  result # "none" =>
    /\ result = Expected.result
    /\ result = "match" => caps = Expected.caps

(* The memory for the stack of counters is laid out once, from a reading of  *)
(* the code that follows no jump (lre_compute_stack_size: "the control flow  *)
(* is recursive so the analysis can be linear"): the interpreter never needs *)
(* more, and never pops an empty stack.                                      *)
StackFits ==
  /\ Len(stack) <= StackSize(code)
  /\ result = "none" /\ ret = "run" /\ I.op \in {"drop", "loop", "check_advance"} => stack # <<>>
=============================================================================
