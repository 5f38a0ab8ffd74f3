----------------------------- MODULE MockMacros -----------------------------
(***************************************************************************)
(* What the macros of inc/jg_mock.h make of a declaration: which function  *)
(* and which auxiliary data a macro's name defines in a build, how many    *)
(* parameters the preprocessor counts, and what a call then does.          *)
(*                                                                         *)
(* A macro is the parts of its name, JG_STUB_COM_C for one: STUB, COM, C.  *)
(* Its body is what distinguishes it from the others' in the source:       *)
(*   "stub"              the auxiliary data is returned by a lambda that   *)
(*                       calls aux.stub()                                  *)
(*   "..."               the function's parameter list ends in ...         *)
(*   "const", "suffix"   what follows the list                             *)
(*   "STDMETHODCALLTYPE" the calling convention before the name            *)
(*   "simple"            a mock_simple_aux, no mock_aux                    *)
(*   "text const", "text suffix"   the end of the prototype's text         *)
(* An argument is how the preprocessor sees it.                            *)
(***************************************************************************)
EXTENDS Integers, SequencesExt

CONSTANTS
    MaxParams,       \* bound: parameters of the mocked function
    MaxParenthesized \* bound: those of them whose type is in parentheses

ASSUME MacrosAssumption == MaxParams \in 1..10 /\ MaxParenthesized \in Nat

(* How arguments are counted, whether STDMETHODCALLTYPE is defined, and      *)
(* JG_MOCK_THROW_NOT_IMPLEMENTED.                                          *)
Compilers == [msvc : BOOLEAN, com : BOOLEAN, throws : BOOLEAN]

VARIABLES
    name, compiler, params,  \* the declaration, and how it is compiled
    mock,                 \* the body of the macro that defines it
    count,                \* the parameters it counts
    outcome               \* of a call without func and result: "none" yet

macrosVars == <<name, compiler, params, mock, count, outcome>>

-----------------------------------------------------------------------------
(* The preprocessor                                                        *)

(* Without parameters __VA_ARGS__ is one empty argument.                   *)
Shapes == {"plain", "parenthesized"}
Declarable ==
    {ps \in BoundedSeq(Shapes, MaxParams) :
        Cardinality({i \in 1..Len(ps) : ps[i] = "parenthesized"}) <= MaxParenthesized}
ArgsOf(ps) == IF ps = <<>> THEN <<"empty">> ELSE ps

(* _JG_IS_EMPTY_CASE_0001: of the four places to look for a comma only the *)
(* last has one: an argument that is a parenthesis makes one in the second *)
(* as well, several arguments make one in each.                            *)
TooSimple(args) == FALSE  \* mutant: an empty argument counts as one
IsEmpty(args) ==
    LET comma == Len(args) > 1
        trigger == comma \/ args[1] = "parenthesized"
        between == comma \/ args[1] \in {"parenthesized", "empty"}
    IN ~comma /\ ~trigger /\ between

ZeroOrOne(args) == IF IsEmpty(args) THEN 0 ELSE 1

(* _JG_VA_NUM_ARGS picks what has been pushed to the 17th place.           *)
NumArgs(args) ==
    LET rseq == [i \in 1..17 |-> IF i <= 15 THEN 17 - i ELSE ZeroOrOne(args)]
    IN (args \o rseq)[17]

(* MSVC drops the comma before an empty __VA_ARGS__.                       *)
NumArgsMsvc(args) ==
    LET augmented == <<"unused">> \o (IF args = <<"empty">> THEN <<>> ELSE args)
        rseq == [i \in 1..11 |-> 11 - i]
    IN (augmented \o rseq)[12]

-----------------------------------------------------------------------------
(* The macros                                                              *)

MockBodies ==
    <<"MOCK", "EX">> :> {"suffix", "text suffix"}
    @@ <<"MOCK", "EX", "VA">> :> {"...", "suffix", "text suffix"}
    @@ <<"MOCK">> :> {}
    @@ <<"MOCK", "C">> :> {"const", "text const"}
    @@ <<"MOCK", "VA">> :> {"..."}
    @@ <<"MOCK", "VA", "C">> :> {"...", "const"}

StubBodies ==
    <<"STUB", "EX">> :> {"stub", "suffix", "text suffix"}
    @@ <<"STUB", "EX", "VA">> :> {"stub", "...", "suffix", "text suffix"}
    @@ <<"STUB">> :> {"stub"}
    @@ <<"STUB", "C">> :> {"stub", "const", "text const"}
    @@ <<"STUB", "VA">> :> {"stub", "..."}
    @@ <<"STUB", "VA", "C">> :> {"stub", "...", "const"}

(* Where STDMETHODCALLTYPE is defined.                                     *)
MockComBodies ==
    <<"MOCK", "COM", "EX">> :> {"STDMETHODCALLTYPE", "suffix", "text suffix"}
    @@ <<"MOCK", "COM">> :> {"STDMETHODCALLTYPE"}
    @@ <<"MOCK", "COM", "C">> :> {"STDMETHODCALLTYPE", "const", "text const"}

NotStubbed ==  \* mutant: copied from JG_MOCK_COM
    <<"STUB", "COM", "EX">> :> {"stub", "STDMETHODCALLTYPE", "suffix", "text suffix"}
    @@ <<"STUB", "COM">> :> {"STDMETHODCALLTYPE"}
    @@ <<"STUB", "COM", "C">> :> {"stub", "STDMETHODCALLTYPE", "const", "text const"}
StubComBodies ==
    <<"STUB", "COM", "EX">> :> {"stub", "STDMETHODCALLTYPE", "suffix", "text suffix"}
    @@ <<"STUB", "COM">> :> {"stub", "STDMETHODCALLTYPE"}
    @@ <<"STUB", "COM", "C">> :> {"stub", "STDMETHODCALLTYPE", "const", "text const"}

SimpleBodies ==
    <<"MOCK", "SIMPLE">> :> {"simple"}
    @@ <<"MOCK", "SIMPLE", "C">> :> {"simple", "const"}
    @@ <<"MOCK", "SIMPLE", "VA">> :> {"simple", "..."}
    @@ <<"MOCK", "SIMPLE", "VA", "C">> :> {"simple", "...", "const"}
    @@ <<"STUB", "SIMPLE">> :> {"simple", "stub"}
    @@ <<"STUB", "SIMPLE", "C">> :> {"simple", "stub", "const"}
    @@ <<"STUB", "SIMPLE", "VA">> :> {"simple", "stub", "..."}
    @@ <<"STUB", "SIMPLE", "VA", "C">> :> {"simple", "stub", "...", "const"}

(* Where it is not, these are other names.                                 *)
WithoutCom ==
    <<"MOCK", "COM", "EX">> :> <<"MOCK", "EX">>
    @@ <<"MOCK", "COM">> :> <<"MOCK">>
    @@ <<"MOCK", "COM", "C">> :> <<"MOCK", "C">>
    @@ <<"STUB", "COM", "EX">> :> <<"MOCK", "EX">>
    @@ <<"STUB", "COM">> :> <<"STUB">>
    @@ <<"STUB", "COM", "C">> :> <<"STUB", "C">>

Bodies == MockBodies @@ StubBodies @@ MockComBodies @@ StubComBodies @@ SimpleBodies

(* Each short name is that of its macro without JG_; MOCK_COM and STUB_COM *)
(* are defined once more, which is what counts, and no MOCK_COM_C is.      *)
Redefined ==
    <<"MOCK", "COM">> :> <<"MOCK", "COM", "C">>
    @@ <<"STUB", "COM">> :> <<"STUB", "COM", "C">>
Long(n) == IF n.short /\ n.macro \in DOMAIN Redefined THEN Redefined[n.macro] ELSE n.macro

Names ==
    {n \in [macro : DOMAIN Bodies, short : BOOLEAN] :
        n.short => n.macro \notin {<<"MOCK", "COM", "C">>, <<"STUB", "COM", "C">>}}

Expansion(macro) ==
    IF ~compiler.com /\ macro \in DOMAIN WithoutCom THEN WithoutCom[macro] ELSE macro

MacrosInit ==
    /\ name \in Names /\ compiler \in Compilers
    /\ params \in Declarable
    /\ mock = {} /\ count = -1 /\ outcome = "none"

Declare ==
    /\ count = -1
    /\ mock' = Bodies[Expansion(Long(name))]
    /\ count' = IF compiler.msvc THEN NumArgsMsvc(ArgsOf(params)) ELSE NumArgs(ArgsOf(params))
    /\ UNCHANGED <<name, compiler, params, outcome>>

(* A call of the function; Mock and MockSimple have what happens in it.    *)
Call ==
    /\ count >= 0 /\ outcome = "none"
    /\ outcome' = IF compiler.throws /\ "stub" \notin mock THEN "threw" ELSE "called"
    /\ UNCHANGED <<name, compiler, params, mock, count>>

MacrosNext == Declare \/ Call
MacrosSpec == MacrosInit /\ [][MacrosNext]_macrosVars

-----------------------------------------------------------------------------
(* Properties                                                              *)

(* The parameters of a mock function are as many as those declared, none   *)
(* and one included, whichever of the two ways of counting is compiled and *)
(* whatever the types look like: a count that is off by one would declare  *)
(* another function, which overrides nothing.                              *)
ParametersCounted == count >= 0 => count = Len(params)

(* jg_mock.h:18: the flag "Enables mocking macros named without the JG_    *)
(* prefix"; jg_mock.h:751, 876: a stub has "the stub() function invoked    *)
(* automatically".  In every build each of the 26 macros, by either name,  *)
(* defines the function and the auxiliary data that its name says, and the *)
(* text of prototype() says of the function what its definition does, with *)
(* these exceptions: the short names MOCK_COM and STUB_COM are those of    *)
(* constant functions; JG_STUB_COM_EX without STDMETHODCALLTYPE makes no   *)
(* stub; and the texts of JG_MOCK_VA_C and JG_STUB_VA_C lack the const.    *)
ConstantByMistake == name.short /\ name.macro \in {<<"MOCK", "COM">>, <<"STUB", "COM">>}
StubByNameOnly == name.macro = <<"STUB", "COM", "EX">> /\ ~compiler.com
ConstLeftOut == name.macro \in {<<"MOCK", "VA", "C">>, <<"STUB", "VA", "C">>}
MockIsAsNamed ==
    LET Says(part) == part \in ToSet(name.macro) IN
    count >= 0 =>
        /\ "stub" \in mock <=> Says("STUB") /\ ~StubByNameOnly
        /\ "..." \in mock <=> Says("VA")
        /\ "const" \in mock <=> Says("C") \/ ConstantByMistake
        /\ "suffix" \in mock <=> Says("EX")
        /\ "simple" \in mock <=> Says("SIMPLE")
        /\ "STDMETHODCALLTYPE" \in mock <=> Says("COM") /\ compiler.com
        /\ ~Says("SIMPLE") =>
             /\ "text suffix" \in mock <=> "suffix" \in mock
             /\ "text const" \in mock <=> "const" \in mock /\ ~ConstLeftOut
        /\ outcome = "threw" => Says("MOCK") \/ StubByNameOnly
=============================================================================
