-------------------------------- MODULE Args --------------------------------
(***************************************************************************)
(* process_args() of args.c: a step is one turn of its loop, with the next *)
(* option that getopt() returns, and the last one is what follows the      *)
(* loop.                                                                   *)
(*                                                                         *)
(* An option is its letter and its argument; the letters ":" and "?" are   *)
(* getopt()'s answers to a missing argument and to an unknown option.  An  *)
(* argument is its text, "dash" for any that begins with one, and the      *)
(* number strtol() makes of it, -1 for what is no number to the last       *)
(* character.                                                              *)
(***************************************************************************)
EXTENDS Integers, Sequences

CONSTANTS
    Options,     \* what the user may put on the command line
    MaxOptions   \* bound: options looked at

VARIABLES
    parameters,    \* args.h: parameters_t
    options_set,   \* the flags protocol_set, port_set, ..., by their letters
    only_opt,      \* the flag of that name: nothing but -h so far
    outcome,       \* "parsing", how process_args() ended, or "past"
    given,         \* history: the options looked at
    operands       \* history: words were left over after the options

avars == <<parameters, options_set, only_opt, outcome, given, operands>>

UINT16_MAX == 65535
UINT8_MAX  == 255

Letters      == {"t", "s", "p", "d", "r", "h", ":", "?"}
Numeric      == {"p", "d", "r"}
Texts        == {"tcp", "udp", "dash", "other"}
ArgumentType == [text : Texts, value : Int]
OptionType   == [opt : Letters, arg : ArgumentType]

ASSUME OptionsAssumption == Options \subseteq OptionType
ASSUME MaxOptionsAssumption == MaxOptions \in Nat

UpTo(max) == {n \in Nat : n <= max}
ParametersType ==
    [tcp : BOOLEAN, ip_or_domain : Texts \cup {"NULL"}, port : UpTo(UINT16_MAX),
     timeout : UpTo(UINT16_MAX), retransmissions : UpTo(UINT8_MAX)]

ATypeOK ==
    /\ parameters \in ParametersType
    /\ options_set \subseteq {"t", "p", "d", "r", "h"}
    /\ only_opt \in BOOLEAN
    /\ outcome \in {"parsing", "accepted", "help", "refused", "past"}
    /\ given \in Seq(Options) /\ Len(given) <= MaxOptions
    /\ operands \in BOOLEAN

\* `parameters` is zeroed before main(); parameters_setup() fills in the rest.
AInit ==
    /\ parameters = [tcp |-> FALSE, ip_or_domain |-> "NULL", port |-> 4567,
                     timeout |-> 250, retransmissions |-> 3]
    /\ options_set = {}
    /\ only_opt = TRUE
    /\ outcome = "parsing"
    /\ given = <<>>
    /\ operands = FALSE

----------------------------------------------------------------------------
(* One option.                                                             *)

Limit(opt) == IF opt = "r" THEN UINT8_MAX ELSE UINT16_MAX

\* The second half of CHECK_OPTARG_AND_REDEF, and the branch of -h.
Redefined(opt) ==
    IF opt = "s" THEN parameters.ip_or_domain # "NULL" ELSE opt \in options_set

\* set_protocol() and parse_int().
ArgumentFits(o) ==
    CASE o.opt = "t"        -> o.arg.text \in {"tcp", "udp"}
      [] o.opt \in Numeric  -> o.arg.value >= 0 /\ o.arg.value <= Limit(o.opt)
      [] OTHER              -> TRUE

Refused(o) ==
    \/ o.opt \in {":", "?"}
    \/ Redefined(o.opt)
    \/ o.opt # "h" /\ (o.arg.text = "dash" \/ ~ArgumentFits(o))

\* Faulty variant: the cast of -r copied to -d.
NarrowTimeout(value) == value % (UINT8_MAX + 1)

\* The cast of -d.
Timeout16(value) == value % (UINT16_MAX + 1)

\* The assignments, with the casts of PARSE_NUMBER.
Stored(o) ==
    CASE o.opt = "t" -> [parameters EXCEPT !.tcp = (o.arg.text = "tcp")]
      [] o.opt = "s" -> [parameters EXCEPT !.ip_or_domain = o.arg.text]
      [] o.opt = "p" -> [parameters EXCEPT !.port = o.arg.value]
      [] o.opt = "d" -> [parameters EXCEPT !.timeout = Timeout16(o.arg.value)]
      [] o.opt = "r" -> [parameters EXCEPT !.retransmissions = o.arg.value % (UINT8_MAX + 1)]
      [] OTHER       -> parameters

\* Faulty variant: only the required options count as other options.
OnlyHelpOrNumbers(o) == only_opt /\ o.opt \notin {"t", "s"}

StillOnlyHelp(o) == only_opt /\ o.opt = "h"

LookAt(o) ==
    /\ outcome = "parsing"
    /\ given' = Append(given, o)
    /\ UNCHANGED operands

RefuseOption(o) ==
    /\ LookAt(o)
    /\ Refused(o)
    /\ outcome' = "refused"
    /\ UNCHANGED <<parameters, options_set, only_opt>>

TakeOption(o) ==
    /\ LookAt(o)
    /\ ~Refused(o)
    /\ parameters' = Stored(o)
    /\ options_set' = options_set \cup ({o.opt} \ {"s"})
    /\ only_opt' = StillOnlyHelp(o)
    /\ UNCHANGED outcome

----------------------------------------------------------------------------
(* After the loop.                                                         *)

Complete == "t" \in options_set /\ parameters.ip_or_domain # "NULL"

\* getopt() has moved the words that belong to no option to the end.
OptionsEnd ==
    /\ outcome = "parsing"
    /\ operands' \in BOOLEAN
    /\ outcome' = CASE "h" \in options_set /\ only_opt              -> "help"
                    [] "h" \notin options_set /\ Complete /\ ~operands' -> "accepted"
                    [] OTHER                                        -> "refused"
    /\ UNCHANGED <<parameters, options_set, only_opt, given>>

\* The parameters are all that is left of the command line.
Leave ==
    /\ outcome = "accepted"
    /\ outcome' = "past"
    /\ options_set' = {} /\ only_opt' = TRUE
    /\ given' = <<>>
    /\ UNCHANGED <<parameters, operands>>

ANext ==
    \/ \E o \in Options : Len(given) < MaxOptions /\ (RefuseOption(o) \/ TakeOption(o))
    \/ OptionsEnd
    \/ Leave

ASpec == AInit /\ [][ANext]_avars

----------------------------------------------------------------------------
(* Properties.                                                             *)

Times(opt) == {i \in 1 .. Len(given) : given[i].opt = opt}
AtMostOnceGiven(opt) == \A i, j \in Times(opt) : i = j

\* What README.md:30-45 and args.c:30-34 say of the single options, as a predicate
\* on the whole command line: every one known, given at most once, with an
\* argument of its kind and in its range.
WellFormed ==
    /\ \A opt \in Letters : AtMostOnceGiven(opt)
    /\ \A i \in 1 .. Len(given) :
         LET o == given[i] IN
           /\ o.opt \notin {":", "?"}
           /\ o.opt # "h" => o.arg.text # "dash"
           /\ o.opt = "t" => o.arg.text \in {"tcp", "udp"}
           /\ o.opt \in {"p", "d"} => o.arg.value >= 0 /\ o.arg.value <= 65535
           /\ o.opt = "r" => o.arg.value >= 0 /\ o.arg.value <= 255

OnlyHelp == Len(given) = 1 /\ given[1].opt = "h"

\* The flags of the loop, its early returns and the checks after it amount to
\* this whatever the order of the options: help is printed for -h alone, and
\* the client starts exactly for a well-formed command line with what the
\* synopsis of README.md:32 puts in braces, -t and -s, and no -h and nothing left
\* over.  The usage text (args.c:28,32; args.h:11-13) calls -p required as well;
\* the code does not ask for it, in agreement with the default of README.md:43,
\* and neither does this property.
AcceptsExactly ==
    /\ outcome = "help" => OnlyHelp
    /\ outcome = "accepted" =>
         WellFormed /\ Times("t") # {} /\ Times("s") # {} /\ Times("h") = {} /\ ~operands
    /\ outcome = "refused" =>
         /\ ~OnlyHelp
         /\ WellFormed =>
              Times("t") = {} \/ Times("s") = {} \/ Times("h") # {} \/ operands

GivenOrDefault(opt, value, default) ==
    IF Times(opt) = {} THEN value = default
    ELSE \A i \in Times(opt) : value = given[i].arg.value

\* The client runs with the values that were given, whatever was cast to
\* uint16_t and uint8_t, and with the documented defaults for the others.
ValuesAreGiven ==
    outcome = "accepted" =>
        /\ \A i \in Times("t") : parameters.tcp <=> given[i].arg.text = "tcp"
        /\ GivenOrDefault("p", parameters.port, 4567)
        /\ GivenOrDefault("d", parameters.timeout, 250)
        /\ GivenOrDefault("r", parameters.retransmissions, 3)
=============================================================================
