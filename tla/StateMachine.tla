---------------------------- MODULE StateMachine ----------------------------
(***************************************************************************)
(* The VT parser with the output engine                                    *)
(* (src/terminal/parser/stateMachine.cpp, OutputStateMachineEngine.cpp):   *)
(* every state, what each character does in it, and what the engine is     *)
(* told.  The terminal is a record t: the parser's members, its two modes, *)
(* the macro buffer its engine owns, and what the engine has heard.  The   *)
(* operators take t and a character and give the next t.                   *)
(*                                                                         *)
(* A character is a token of a small alphabet with one or more members of  *)
(* every class the code distinguishes.                                     *)
(***************************************************************************)
EXTENDS MacroBuffer

CONSTANTS
    MAX_PARAMETER_COUNT,
    MAX_SUBPARAMETER_COUNT,
    MAX_INTERMEDIATES         \* 6 fit in VTIDBuilder's accumulator

ASSUME ParserAssumption ==
    /\ MAX_PARAMETER_COUNT \in Nat \ {0} /\ MAX_SUBPARAMETER_COUNT \in Nat \ {0}
    /\ MAX_INTERMEDIATES \in Nat

-----------------------------------------------------------------------------
\* The classes of characters: 0x00-0x1f without CAN, SUB and ESC; 0x20-0x2f;
\* 0x3c-0x3f; 0x80-0x9f.  What is in none of them ends a sequence.
C0 == {"NUL", "BEL", "LF"}
Intermediate == {" ", "!", "*", "$"}
PrivateMarker == {"?", "<"}
C1 == {"U+009B", "U+009C"}
C1To7Bit(c) == IF c = "U+009B" THEN "[" ELSE "\\"
FromAnywhere == {"CAN", "SUB"}
IntermediateInvalid == Digits \cup PrivateMarker \cup {";", ":"}
DcsPassThroughInvalid == {"DEL", "U+00DB", "U+26DB", "U+1B6DB", "U+FFFD"}

\* FindActionableControlCharacter: what ends a run of printed text.
ActionableFromGround == C0 \cup FromAnywhere \cup C1 \cup {"ESC", "DEL"}

\* Strings the engine supports after DCS, and the parameters it is given.
Handler(id) == CASE id = <<"!", "z">> -> "macro" [] id \in {<<"q">>, <<"$", "q">>} -> "string"
                 [] OTHER -> "none"

Omitted == MAX_PARAMETER_VALUE + 1    \* a parameter with no value
ValueOr(value, default) == IF value = Omitted THEN default ELSE value
ParameterAt(parameters, i) ==
    IF i <= Len(parameters) THEN ValueOr(parameters[i], 0) ELSE 0

FreshParser ==
    [state |-> "Ground", identifier |-> <<>>, spoiled |-> FALSE,
     parameters |-> <<>>, parameterLimitOverflowed |-> FALSE,
     subParameters |-> <<>>, subParameterRanges |-> <<>>,
     subParameterCounter |-> 0, subParameterLimitOverflowed |-> FALSE,
     oscString |-> <<>>, oscParameter |-> 0, handler |-> "none",
     ansi |-> TRUE, acceptC1 |-> FALSE, callback |-> Omitted,
     allocated |-> FALSE, buffer |-> EmptyMacros, heard |-> <<>>,
     dangling |-> FALSE, spent |-> 0, longest |-> 0]

Hear(t, event) == [t EXCEPT !.heard = Append(@, event)]
Enter(t, state) == [t EXCEPT !.state = state]
EnterGround(t) == Enter(t, "Ground")
Execute(t, c) == Hear(t, [kind |-> "execute", char |-> c])
ActionPrint(t, c) == Hear(t, [kind |-> "print", char |-> c])

-----------------------------------------------------------------------------
ActionClear(t) ==
    [t EXCEPT !.identifier = <<>>, !.spoiled = FALSE,
              !.parameters = <<>>, !.parameterLimitOverflowed = FALSE,
              !.subParameters = <<>>, !.subParameterRanges = <<>>,
              !.subParameterCounter = 0, !.subParameterLimitOverflowed = FALSE,
              !.oscString = <<>>, !.oscParameter = 0, !.handler = "none"]

\* VTIDBuilder: one intermediate too many makes an identifier of nothing.
ActionCollect(t, c) ==
    IF Len(t.identifier) >= MAX_INTERMEDIATES
    THEN [t EXCEPT !.spoiled = TRUE]
    ELSE [t EXCEPT !.identifier = Append(@, c)]
Finalize(t, c) == IF t.spoiled THEN <<"spoiled", c>> ELSE Append(t.identifier, c)

\* push_back on the parameters and on the ranges of their sub parameters.
NextParameter(t) ==
    [t EXCEPT !.parameters = Append(@, Omitted),
              !.subParameterRanges = Append(@, <<Len(t.subParameters), Len(t.subParameters)>>)]
FirstParameter(t) == IF t.parameters = <<>> THEN NextParameter(t) ELSE t

ActionParam(t, c) ==
    LET u == FirstParameter(t)
        n == Len(u.parameters)
    IN  CASE t.parameterLimitOverflowed -> t
          [] ~t.parameterLimitOverflowed /\ c = ";" /\ n >= MAX_PARAMETER_COUNT ->
                 [u EXCEPT !.parameterLimitOverflowed = TRUE]
          [] ~t.parameterLimitOverflowed /\ c = ";" /\ n < MAX_PARAMETER_COUNT ->
                 [NextParameter(u) EXCEPT !.subParameterCounter = 0,
                                          !.subParameterLimitOverflowed = FALSE]
          [] OTHER -> [u EXCEPT !.parameters[n] = Accumulate(ValueOr(@, 0), c)]

ActionSubParamUnbounded(t, c) ==
    LET u == FirstParameter(t)
        n == Len(u.subParameters)
    IN  IF c = ":"
        THEN [u EXCEPT !.subParameters = Append(@, Omitted),
                       !.subParameterRanges[Len(u.parameters)][2] = @ + 1]
        ELSE [u EXCEPT !.subParameters[n] = Accumulate(ValueOr(@, 0), c)]
ActionSubParam(t, c) ==
    LET u == FirstParameter(t)
        n == Len(u.subParameters)
    IN  CASE t.subParameterLimitOverflowed -> t
          [] ~t.subParameterLimitOverflowed /\ c = ":"
             /\ u.subParameterCounter >= MAX_SUBPARAMETER_COUNT ->
                 [u EXCEPT !.subParameterLimitOverflowed = TRUE]
          [] ~t.subParameterLimitOverflowed /\ c = ":"
             /\ u.subParameterCounter < MAX_SUBPARAMETER_COUNT ->
                 [u EXCEPT !.subParameters = Append(@, Omitted),
                           !.subParameterRanges[Len(u.parameters)][2] = @ + 1,
                           !.subParameterCounter = @ + 1]
          [] OTHER -> [u EXCEPT !.subParameters[n] = Accumulate(ValueOr(@, 0), c)]

\* VTParameters: each parameter with the sub parameters of its range.
DispatchedParameters(t) ==
    [i \in 1..Len(t.parameters) |->
        <<t.parameters[i]>> \o SubSeq(t.subParameters, t.subParameterRanges[i][1] + 1,
                                      t.subParameterRanges[i][2])]

-----------------------------------------------------------------------------
\* The engine's side of a dispatch, as far as it comes back to the parser.

\* HardReset: C1 parsing off, the macro buffer cleared and released.
HardResetKeepingC1(t) ==
    [t EXCEPT !.allocated = FALSE,
              !.buffer = IF @.depth > 0 THEN ClearMacrosIfInUse(@) ELSE EmptyMacros]
HardReset(t) ==
    [t EXCEPT !.acceptC1 = FALSE, !.allocated = FALSE,
              !.buffer = IF @.depth > 0 THEN ClearMacrosIfInUse(@) ELSE EmptyMacros]

ActionEscDispatch(t, c) ==
    LET id == Finalize(t, c)
        u  == Hear(t, [kind |-> "esc", id |-> id])
    IN  CASE id = <<"c">> -> HardReset(u)
          [] id = <<" ", "7">> -> [u EXCEPT !.acceptC1 = TRUE]
          [] OTHER -> u

ActionVt52EscDispatch(t, c) ==
    LET id == Finalize(t, c)
        u  == Hear(t, [kind |-> "vt52", id |-> id, parameters |-> t.parameters])
    IN  IF id = <<"<">> THEN [u EXCEPT !.ansi = TRUE] ELSE u

\* DECANM, and DECINVM which asks to be called back once in Ground; the engine
\* bails out of either with sub parameters.
ActionCsiDispatch(t, c) ==
    LET id == Finalize(t, c)
        u  == Hear(t, [kind |-> "csi", id |-> id, parameters |-> DispatchedParameters(t)])
        hasSubParams == t.subParameters # <<>>
    IN  CASE id = <<"?", "l">> /\ ~hasSubParams /\ Contains(t.parameters, 2) ->
                 [u EXCEPT !.ansi = FALSE]
          [] id = <<"*", "z">> /\ ~hasSubParams /\ t.allocated ->
                 [u EXCEPT !.callback = ParameterAt(t.parameters, 1)]
          [] OTHER -> u

ActionOscDispatch(t) ==
    Hear(t, [kind |-> "osc", parameter |-> t.oscParameter, text |-> t.oscString])

\* DefineMacro, with the macro buffer made on first use.
MacroBegun(t, r) ==
    [t EXCEPT !.allocated = TRUE, !.buffer = r.m,
              !.handler = IF r.ok THEN "macro" ELSE "none",
              !.dangling = @ \/ (r.ok /\ t.buffer.depth > 0)]
DefineMacro(t) ==
    LET p == t.parameters
    IN  MacroBegun(t, InitParser(IF t.allocated THEN t.buffer ELSE EmptyMacros,
                                 ParameterAt(p, 1), ParameterAt(p, 2), ParameterAt(p, 3)))

EnterDcs(t, id) ==
    IF t.handler = "none" THEN Enter(t, "DcsIgnore")
    ELSE Enter(Hear(t, [kind |-> "dcs", id |-> id, parameters |-> t.parameters]),
               "DcsPassThrough")
ActionDcsDispatch(t, c) ==
    LET id == Finalize(t, c)
    IN  EnterDcs(IF Handler(id) = "macro" THEN DefineMacro(t)
                 ELSE [t EXCEPT !.handler = Handler(id)], id)

\* One character for the string handler: [ok, t].
MacroParsed(t, r) ==
    [ok |-> r.ok, t |-> [t EXCEPT !.buffer = r.m, !.dangling = @ \/ ~t.allocated]]
CallHandler(t, c) ==
    LET u == Hear(t, [kind |-> "data", char |-> c])
    IN  IF t.handler = "macro"
        THEN MacroParsed(u, ParseDefinition(t.buffer, c, c \in C0))
        ELSE [ok |-> TRUE, t |-> u]

ActionInterruptSilent(t) == [t EXCEPT !.handler = "none"]
ActionInterrupt(t) ==
    IF t.state = "DcsPassThrough"
    THEN [CallHandler(t, "ESC").t EXCEPT !.handler = "none"]
    ELSE t

-----------------------------------------------------------------------------
\* One operator per state.
EventGround(t, c) == IF c \in C0 \cup {"DEL"} THEN Execute(t, c) ELSE ActionPrint(t, c)

EnterEscape(t) == ActionClear(Enter(t, "Escape"))

Vt52Command(t, c) ==
    IF c = "Y" THEN Enter(t, "Vt52Param") ELSE EnterGround(ActionVt52EscDispatch(t, c))

EventEscape(t, c) ==
    CASE c \in C0 -> Execute(t, c)
      [] c = "DEL" -> t
      [] c \in Intermediate -> Enter(ActionCollect(t, c), "EscapeIntermediate")
      [] c \notin C0 \cup Intermediate \cup {"DEL"} /\ ~t.ansi -> Vt52Command(t, c)
      [] t.ansi /\ c = "[" -> ActionClear(Enter(t, "CsiEntry"))
      [] t.ansi /\ c = "]" -> Enter(t, "OscParam")
      [] t.ansi /\ c = "P" -> ActionClear(Enter(t, "DcsEntry"))
      [] t.ansi /\ c = "X" -> Enter(t, "SosPmApcString")
      [] OTHER -> EnterGround(ActionEscDispatch(t, c))

EventEscapeIntermediate(t, c) ==
    CASE c \in C0 -> Execute(t, c)
      [] c \in Intermediate -> ActionCollect(t, c)
      [] c = "DEL" -> t
      [] OTHER -> IF t.ansi THEN EnterGround(ActionEscDispatch(t, c)) ELSE Vt52Command(t, c)

CsiFinal(t, c) == EnterGround(ActionCsiDispatch(t, c))

EventCsiEntry(t, c) ==
    CASE c \in C0 -> Execute(t, c)
      [] c = "DEL" -> t
      [] c \in Intermediate -> Enter(ActionCollect(t, c), "CsiIntermediate")
      [] c \in Digits \cup {";"} -> Enter(ActionParam(t, c), "CsiParam")
      [] c = ":" -> Enter(ActionSubParam(t, c), "CsiSubParam")
      [] c \in PrivateMarker -> Enter(ActionCollect(t, c), "CsiParam")
      [] OTHER -> CsiFinal(t, c)

EventCsiIntermediate(t, c) ==
    CASE c \in C0 -> Execute(t, c)
      [] c \in Intermediate -> ActionCollect(t, c)
      [] c = "DEL" -> t
      [] c \in IntermediateInvalid -> Enter(t, "CsiIgnore")
      [] OTHER -> CsiFinal(t, c)

EventCsiIgnore(t, c) ==
    CASE c \in C0 -> Execute(t, c)
      [] c \in {"DEL"} \cup Intermediate \cup IntermediateInvalid -> t
      [] OTHER -> EnterGround(t)

EventCsiParam(t, c) ==
    CASE c \in C0 -> Execute(t, c)
      [] c = "DEL" -> t
      [] c \in Digits \cup {";"} -> ActionParam(t, c)
      [] c = ":" -> Enter(ActionSubParam(t, c), "CsiSubParam")
      [] c \in Intermediate -> Enter(ActionCollect(t, c), "CsiIntermediate")
      [] c \in PrivateMarker -> Enter(t, "CsiIgnore")
      [] OTHER -> CsiFinal(t, c)

EventCsiSubParam(t, c) ==
    CASE c \in C0 -> Execute(t, c)
      [] c = "DEL" -> t
      [] c \in Digits \cup {":"} -> ActionSubParam(t, c)
      [] c = ";" -> Enter(ActionParam(t, c), "CsiParam")
      [] c \in Intermediate -> Enter(ActionCollect(t, c), "CsiIntermediate")
      [] c \in PrivateMarker -> Enter(t, "CsiIgnore")
      [] OTHER -> CsiFinal(t, c)

EventOscParam(t, c) ==
    CASE c = "BEL" -> EnterGround(ActionOscDispatch(t))
      [] c = "ESC" -> Enter(t, "OscTermination")
      [] c \in Digits -> [t EXCEPT !.oscParameter = Accumulate(@, c)]
      [] c = ";" -> Enter(t, "OscString")
      [] OTHER -> t

EventOscString(t, c) ==
    CASE c = "BEL" -> EnterGround(ActionOscDispatch(t))
      [] c = "ESC" -> Enter(t, "OscTermination")
      [] c \in C0 \ {"BEL"} -> t
      [] OTHER -> [t EXCEPT !.oscString = Append(@, c)]

EventOscTerminationKeeping(t, c) ==
    IF c = "\\" THEN EnterGround(ActionOscDispatch(t)) ELSE EventEscape(Enter(t, "Escape"), c)
EventOscTermination(t, c) ==
    IF c = "\\" THEN EnterGround(ActionOscDispatch(t)) ELSE EventEscape(EnterEscape(t), c)

EventVt52Param(t, c) ==
    LET u == [t EXCEPT !.parameters = Append(@, c)]
    IN  CASE c \in C0 -> Execute(t, c)
          [] c = "DEL" -> t
          [] OTHER -> IF Len(u.parameters) = 2
                      THEN EnterGround(ActionVt52EscDispatch(u, "Y"))
                      ELSE u

EventDcsEntry(t, c) ==
    CASE c \in C0 \cup {"DEL"} -> t
      [] c = ":" -> Enter(t, "DcsIgnore")
      [] c \in Digits \cup {";"} -> Enter(ActionParam(t, c), "DcsParam")
      [] c \in Intermediate -> Enter(ActionCollect(t, c), "DcsIntermediate")
      [] OTHER -> ActionDcsDispatch(t, c)

EventDcsIntermediate(t, c) ==
    CASE c \in C0 \cup {"DEL"} -> t
      [] c \in Intermediate -> ActionCollect(t, c)
      [] c \in IntermediateInvalid -> Enter(t, "DcsIgnore")
      [] OTHER -> ActionDcsDispatch(t, c)

\* The second test is no "else": a control character is "ignored" and then
\* reaches the last branch.
EventDcsParam(t, c) ==
    CASE c \in Digits \cup {";"} -> ActionParam(t, c)
      [] c \in Intermediate -> Enter(ActionCollect(t, c), "DcsIntermediate")
      [] c \in PrivateMarker \cup {":"} -> Enter(t, "DcsIgnore")
      [] OTHER -> ActionDcsDispatch(t, c)

HandlerCalled(r) == IF r.ok THEN r.t ELSE Enter(r.t, "DcsIgnore")
EventDcsPassThrough(t, c) ==
    IF c \in DcsPassThroughInvalid THEN t ELSE HandlerCalled(CallHandler(t, c))

Event(t, c) ==
    CASE t.state = "Ground" -> EventGround(t, c)
      [] t.state = "Escape" -> EventEscape(t, c)
      [] t.state = "EscapeIntermediate" -> EventEscapeIntermediate(t, c)
      [] t.state = "CsiEntry" -> EventCsiEntry(t, c)
      [] t.state = "CsiIntermediate" -> EventCsiIntermediate(t, c)
      [] t.state = "CsiIgnore" -> EventCsiIgnore(t, c)
      [] t.state = "CsiParam" -> EventCsiParam(t, c)
      [] t.state = "CsiSubParam" -> EventCsiSubParam(t, c)
      [] t.state = "OscParam" -> EventOscParam(t, c)
      [] t.state = "OscString" -> EventOscString(t, c)
      [] t.state = "OscTermination" -> EventOscTermination(t, c)
      [] t.state = "Vt52Param" -> EventVt52Param(t, c)
      [] t.state = "DcsEntry" -> EventDcsEntry(t, c)
      [] t.state = "DcsIntermediate" -> EventDcsIntermediate(t, c)
      [] t.state = "DcsParam" -> EventDcsParam(t, c)
      [] t.state = "DcsPassThrough" -> EventDcsPassThrough(t, c)
      [] t.state \in {"DcsIgnore", "SosPmApcString"} -> t

-----------------------------------------------------------------------------
\* ProcessCharacter for a character that is no C1 control: what is recognised
\* from anywhere, then the current state's own event.
ProcessPlainDeafInSos(t, c) ==
    CASE c \in FromAnywhere -> EnterGround(Execute(ActionInterrupt(t), c))
      [] c = "ESC" /\ t.state \notin {"OscString", "OscParam", "SosPmApcString"} ->
             EnterEscape(ActionInterrupt(t))
      [] OTHER -> Event(t, c)
ProcessPlain(t, c) ==
    CASE c \in FromAnywhere -> EnterGround(Execute(ActionInterrupt(t), c))
      [] c = "ESC" /\ t.state \notin {"OscString", "OscParam"} ->
             EnterEscape(ActionInterrupt(t))
      [] OTHER -> Event(t, c)

\* A C1 control is ESC and its 7-bit form, or nothing.
ProcessCharacter(t, c) ==
    IF c \notin C1 THEN ProcessPlain(t, c)
    ELSE IF t.acceptC1 THEN ProcessPlain(ProcessPlain(t, "ESC"), C1To7Bit(c))
    ELSE t

ResetState(t) == EnterGround(t)
=============================================================================
