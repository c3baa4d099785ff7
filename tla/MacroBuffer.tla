----------------------------- MODULE MacroBuffer -----------------------------
(***************************************************************************)
(* The store of DEC macros (src/terminal/adapter/MacroBuffer.cpp): what a  *)
(* definition writes, how much it may hold, and when an invocation is      *)
(* allowed.  A buffer is a record; each operator is one member function.   *)
(* Characters are the tokens of StateMachine.tla.                          *)
(***************************************************************************)
EXTENDS Naturals, Sequences, SequencesExt, FiniteSetsExt

CONSTANTS
    MAX_SPACE,             \* characters all macros may hold together
    MAX_DEPTH,             \* 16 in InvokeMacro
    MAX_PARAMETER_VALUE,   \* where a number saturates
    MacroIds               \* 0..63

ASSUME MacroAssumption ==
    /\ MAX_SPACE \in Nat /\ MAX_DEPTH \in Nat /\ MAX_PARAMETER_VALUE \in Nat
    /\ MacroIds \subseteq Nat /\ 0 \in MacroIds

DigitValue == [c \in {"0", "1", "2", "3", "4", "5", "6", "7", "8", "9"} |->
    CASE c = "0" -> 0 [] c = "1" -> 1 [] c = "2" -> 2 [] c = "3" -> 3 [] c = "4" -> 4
      [] c = "5" -> 5 [] c = "6" -> 6 [] c = "7" -> 7 [] c = "8" -> 8 [] c = "9" -> 9]
Digits == DOMAIN DigitValue
HexDigits == Digits \cup {"A", "B"}

\* The character a pair of hexadecimal digits stands for.
HexChar(high, low) ==
    CASE <<high, low>> = <<"1", "B">> -> "ESC" [] <<high, low>> = <<"5", "B">> -> "["
      [] <<high, low>> = <<"2", "A">> -> "*"   [] <<high, low>> = <<"7", "A">> -> "z"
      [] <<high, low>> = <<"5", "0">> -> "P"   [] <<high, low>> = <<"2", "1">> -> "!"
      [] <<high, low>> = <<"6", "3">> -> "c"   [] OTHER -> "a"

\* _AccumulateTo of the parser, and the repeat count of a definition.
Accumulate(value, c) == Min({value * 10 + DigitValue[c], MAX_PARAMETER_VALUE})

EmptyMacros ==
    [macros |-> [i \in MacroIds |-> <<>>], active |-> 0, parse |-> "text", high |-> "0",
     repeatPending |-> FALSE, repeatCount |-> 0, repeatStart |-> 0,
     spaceUsed |-> 0, depth |-> 0, invoked |-> 0]

GetSpaceAvailable(m) == MAX_SPACE - m.spaceUsed

DeleteMacro(m, id) ==
    [m EXCEPT !.spaceUsed = @ - Len(m.macros[id]), !.macros[id] = <<>>]

\* InitParser: [ok, m].  A macro is not redefined while one is running.
InitParserAnyDepth(m, id, delete, encoding) ==
    LET ready == [m EXCEPT !.active = id, !.repeatPending = FALSE, !.high = "0",
                           !.parse = IF encoding = 1 THEN "hex" ELSE "text"]
    IN  [ok |-> TRUE, m |-> DeleteMacro(ready, id)]
InitParser(m, id, delete, encoding) ==
    LET chosen == [m EXCEPT !.active = id, !.repeatPending = FALSE, !.high = "0"]
        ready == [chosen EXCEPT !.parse = IF encoding = 1 THEN "hex" ELSE "text"]
    IN  CASE ~(id \in MacroIds /\ m.depth = 0) -> [ok |-> FALSE, m |-> m]
          [] id \in MacroIds /\ m.depth = 0 /\ encoding \notin {0, 1} ->
                 [ok |-> FALSE, m |-> chosen]
          [] id \in MacroIds /\ m.depth = 0 /\ encoding \in {0, 1} /\ delete = 0 ->
                 [ok |-> TRUE, m |-> DeleteMacro(ready, id)]
          [] id \in MacroIds /\ m.depth = 0 /\ encoding \in {0, 1} /\ delete = 1 ->
                 [ok |-> TRUE, m |-> [ready EXCEPT !.macros = [i \in MacroIds |-> <<>>],
                                                  !.spaceUsed = 0]]
          [] OTHER -> [ok |-> FALSE, m |-> ready]

AppendToActiveMacro(m, c) ==
    IF GetSpaceAvailable(m) > 0
    THEN [ok |-> TRUE, m |-> [m EXCEPT !.macros[m.active] = Append(@, c), !.spaceUsed = @ + 1]]
    ELSE [ok |-> FALSE, m |-> m]

\* The repeated part is already in the buffer once.
ApplyPendingRepeatUncounted(m) ==
    LET part == SubSeq(m.macros[m.active], m.repeatStart + 1, Len(m.macros[m.active]))
        more == FlattenSeq([i \in 1..(m.repeatCount - 1) |-> part])
    IN  [ok |-> TRUE, m |-> [m EXCEPT !.macros[m.active] = @ \o more,
                                      !.repeatPending = FALSE]]
ApplyPendingRepeat(m) ==
    LET part == SubSeq(m.macros[m.active], m.repeatStart + 1, Len(m.macros[m.active]))
        more == FlattenSeq([i \in 1..(m.repeatCount - 1) |-> part])
    IN  CASE m.repeatCount <= 1 -> [ok |-> TRUE, m |-> [m EXCEPT !.repeatPending = FALSE]]
          [] m.repeatCount > 1 /\ Len(more) > GetSpaceAvailable(m) -> [ok |-> FALSE, m |-> m]
          [] OTHER -> [ok |-> TRUE, m |->
                 [m EXCEPT !.macros[m.active] = @ \o more, !.spaceUsed = @ + Len(more),
                           !.repeatPending = FALSE]]

\* ParseDefinition: [ok, m]; a definition in error loses what it had written.
ParseCharacter(m, c) ==
    CASE m.parse = "text" -> AppendToActiveMacro(m, c)
      [] m.parse = "hex" /\ c \in HexDigits ->
             [ok |-> TRUE, m |-> [m EXCEPT !.high = c, !.parse = "second"]]
      [] m.parse = "hex" /\ c = "!" /\ ~m.repeatPending ->
             [ok |-> TRUE, m |-> [m EXCEPT !.parse = "count", !.repeatCount = 0]]
      [] m.parse = "hex" /\ c = ";" /\ m.repeatPending -> ApplyPendingRepeat(m)
      [] m.parse = "second" /\ c \in HexDigits ->
             AppendToActiveMacro([m EXCEPT !.parse = "hex"], HexChar(m.high, c))
      [] m.parse = "count" /\ c \in Digits ->
             [ok |-> TRUE, m |-> [m EXCEPT !.repeatCount = Accumulate(@, c)]]
      [] m.parse = "count" /\ c = ";" ->
             [ok |-> TRUE, m |-> [m EXCEPT !.repeatPending = TRUE, !.parse = "hex",
                                           !.repeatStart = Len(m.macros[m.active])]]
      [] OTHER -> [ok |-> FALSE, m |-> m]
OrDeleted(r) == IF r.ok THEN r ELSE [ok |-> FALSE, m |-> DeleteMacro(r.m, r.m.active)]
ParseDefinition(m, c, isControl) ==
    CASE c = "ESC" ->
             [ok |-> FALSE, m |-> IF m.repeatPending THEN OrDeleted(ApplyPendingRepeat(m)).m ELSE m]
      [] c # "ESC" /\ isControl -> [ok |-> TRUE, m |-> m]
      [] OTHER -> OrDeleted(ParseCharacter(m, c))

\* InvokeMacro: whether it runs, and the bookkeeping around the run.
MayInvokeUnmetered(m, id) == id \in MacroIds /\ m.depth < MAX_DEPTH
MayInvoke(m, id) ==
    /\ id \in MacroIds /\ m.depth < MAX_DEPTH
    /\ Len(m.macros[id]) < MAX_SPACE - m.invoked
EnterMacro(m, id) ==
    [m EXCEPT !.depth = @ + 1, !.invoked = @ + Len(m.macros[id])]
LeaveMacro(m) ==
    [m EXCEPT !.depth = @ - 1, !.invoked = IF m.depth = 1 THEN 0 ELSE @]

\* ClearMacrosIfInUse: the text is still being read, so it is only blanked.
ClearMacrosIfInUse(m) ==
    IF m.depth > 0
    THEN [m EXCEPT !.macros = [i \in MacroIds |-> [k \in 1..Len(@[i]) |-> "NUL"]]]
    ELSE m

\* Characters the macros hold.
SpaceHeld(m) == MapThenSumSet(LAMBDA i : Len(m.macros[i]), MacroIds)
=============================================================================
