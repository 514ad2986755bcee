----------------------------- MODULE Args_proofs -----------------------------
(***************************************************************************)
(* process_args() for every command line: types, AcceptsExactly and        *)
(* ValuesAreGiven.  The inductive invariant says what the flags of the     *)
(* loop mean: as long as no option was refused they are a summary of the   *)
(* options looked at.                                                      *)
(***************************************************************************)
EXTENDS Args, TLAPS

\* What WellFormed asks of one option.
Sound(o) ==
    /\ o.opt \notin {":", "?"}
    /\ o.opt # "h" => o.arg.text # "dash"
    /\ o.opt = "t" => o.arg.text \in {"tcp", "udp"}
    /\ o.opt \in {"p", "d"} => o.arg.value >= 0 /\ o.arg.value <= 65535
    /\ o.opt = "r" => o.arg.value >= 0 /\ o.arg.value <= 255

IsGiven(opt) == \E i \in 1 .. Len(given) : given[i].opt = opt

Flags ==
    /\ \A opt \in {"t", "p", "d", "r", "h"} : opt \in options_set <=> IsGiven(opt)
    /\ parameters.ip_or_domain # "NULL" <=> IsGiven("s")
    /\ only_opt <=> \A i \in 1 .. Len(given) : given[i].opt = "h"

Values ==
    /\ \A i \in 1 .. Len(given) :
         /\ given[i].opt = "t" => (parameters.tcp <=> given[i].arg.text = "tcp")
         /\ given[i].opt = "p" => parameters.port = given[i].arg.value
         /\ given[i].opt = "d" => parameters.timeout = given[i].arg.value
         /\ given[i].opt = "r" => parameters.retransmissions = given[i].arg.value
    /\ ~IsGiven("p") => parameters.port = 4567
    /\ ~IsGiven("d") => parameters.timeout = 250
    /\ ~IsGiven("r") => parameters.retransmissions = 3

Once == \A i, j \in 1 .. Len(given) : given[i].opt = given[j].opt => i = j
AllSound == \A i \in 1 .. Len(given) : Sound(given[i])

Summary == Flags /\ Values /\ Once /\ AllSound

AInv ==
    /\ ATypeOK
    /\ outcome \in {"parsing", "accepted"} => Summary
    /\ AcceptsExactly

----------------------------------------------------------------------------
(* WellFormed in these terms.                                              *)

\* An option is given when one of its occurrences exists.
LEMMA TimesGiven ==
    ASSUME NEW opt
    PROVE  Times(opt) # {} <=> IsGiven(opt)
BY DEF Times, IsGiven

\* A well-formed command line is one of sound options, each given once.
LEMMA WellFormedSplit ==
    ASSUME given \in Seq(OptionType)
    PROVE  WellFormed <=> Once /\ AllSound
<1>1. ASSUME NEW i \in 1 .. Len(given) PROVE given[i].opt \in Letters
  <2>1. given[i] \in OptionType
    OBVIOUS
  <2>2. QED
    BY <2>1 DEF OptionType
<1>2. (\A opt \in Letters : AtMostOnceGiven(opt)) <=> Once
  BY <1>1 DEF AtMostOnceGiven, Times, Once
<1>3. QED
  BY <1>2 DEF WellFormed, AllSound, Sound

----------------------------------------------------------------------------
(* One option more.                                                        *)

\* What an appended option changes of the sequence.
LEMMA Appended ==
    ASSUME given \in Seq(OptionType), NEW o \in OptionType, given' = Append(given, o)
    PROVE  /\ given' \in Seq(OptionType)
           /\ Len(given') = Len(given) + 1 /\ Len(given) \in Nat
           /\ \A i \in 1 .. Len(given) : given'[i] = given[i]
           /\ given'[Len(given) + 1] = o
OBVIOUS

\* It is given now, and so is what was given before.
LEMMA GivenNow ==
    ASSUME given \in Seq(OptionType), NEW o \in OptionType, given' = Append(given, o), NEW opt
    PROVE  IsGiven(opt)' <=> IsGiven(opt) \/ o.opt = opt
<1>1. IsGiven(opt)' => IsGiven(opt) \/ o.opt = opt
  <2>1. SUFFICES ASSUME NEW i \in 1 .. Len(given'), given'[i].opt = opt
                 PROVE  IsGiven(opt) \/ o.opt = opt
    BY DEF IsGiven
  <2>2. CASE i \in 1 .. Len(given)
    BY <2>1, <2>2, Appended DEF IsGiven
  <2>3. CASE i = Len(given) + 1
    BY <2>1, <2>3, Appended
  <2>4. QED
    BY <2>2, <2>3, Appended
<1>2. IsGiven(opt) => IsGiven(opt)'
  BY Appended DEF IsGiven
<1>3. o.opt = opt => IsGiven(opt)'
  BY Appended DEF IsGiven
<1>4. QED
  BY <1>1, <1>2, <1>3

----------------------------------------------------------------------------
(* The steps.                                                              *)

LEMMA OptionsHaveTheirType == Options \subseteq OptionType
BY OptionsAssumption

LEMMA InitA == AInit => AInv
<1> SUFFICES ASSUME AInit PROVE AInv
  OBVIOUS
<1>1. ATypeOK
  <2>1. parameters \in ParametersType
    BY DEF AInit, ParametersType, Texts, UpTo, UINT16_MAX, UINT8_MAX
  <2>2. given \in Seq(Options) /\ Len(given) = 0
    BY DEF AInit
  <2>3. Len(given) <= MaxOptions
    BY <2>2, MaxOptionsAssumption
  <2>4. options_set \subseteq {"t", "p", "d", "r", "h"} /\ only_opt \in BOOLEAN
    BY Zenon DEF AInit
  <2>5. outcome \in {"parsing", "accepted", "help", "refused", "past"} /\ operands \in BOOLEAN
    BY Zenon DEF AInit
  <2>6. QED
    BY <2>1, <2>2, <2>3, <2>4, <2>5, Zenon DEF ATypeOK
<1>2. Summary
  BY DEF AInit, Summary, Flags, Values, IsGiven, Once, AllSound
<1>3. AcceptsExactly
  BY DEF AInit, AcceptsExactly
<1>4. QED
  BY <1>1, <1>2, <1>3 DEF AInv

\* An option that the code refuses is one that is given twice or is not sound.
LEMMA RefusedIsWrong ==
    ASSUME AInv, Summary, NEW o \in Options, Refused(o)
    PROVE  IsGiven(o.opt) \/ ~Sound(o)
<1>1. o \in OptionType
  BY OptionsHaveTheirType
<1>2. CASE o.opt \in {":", "?"}
  BY <1>2 DEF Sound
<1>3. CASE Redefined(o.opt) /\ o.opt \notin {":", "?"}
  BY <1>1, <1>3 DEF Redefined, Summary, Flags, OptionType, Letters
<1>4. CASE o.opt # "h" /\ (o.arg.text = "dash" \/ ~ArgumentFits(o))
  BY <1>1, <1>4
  DEF Sound, ArgumentFits, Numeric, Limit, UINT16_MAX, UINT8_MAX, OptionType, ArgumentType, Letters
<1>5. QED
  BY <1>2, <1>3, <1>4 DEF Refused

\* An option that the code takes is sound and new.
LEMMA TakenIsRight ==
    ASSUME AInv, Summary, NEW o \in Options, ~Refused(o)
    PROVE  ~IsGiven(o.opt) /\ Sound(o)
<1>1. o \in OptionType
  BY OptionsHaveTheirType
<1>2. ~IsGiven(o.opt)
  BY <1>1 DEF Refused, Redefined, Summary, Flags, OptionType, Letters
<1>3. Sound(o)
  BY <1>1
  DEF Refused, Sound, ArgumentFits, Numeric, Limit, UINT16_MAX, UINT8_MAX, OptionType,
      ArgumentType, Letters
<1>4. QED
  BY <1>2, <1>3

LEMMA RefuseStep ==
    ASSUME AInv, NEW o \in Options, Len(given) < MaxOptions, RefuseOption(o)
    PROVE  AInv'
<1>1. given \in Seq(OptionType) /\ o \in OptionType /\ given' = Append(given, o)
  BY OptionsHaveTheirType DEF AInv, ATypeOK, RefuseOption, LookAt
<1>2. Summary /\ outcome' = "refused"
  BY DEF AInv, RefuseOption, LookAt
<1>3. IsGiven(o.opt) \/ ~Sound(o)
  BY <1>2, RefusedIsWrong DEF RefuseOption
<1>4. ATypeOK'
  BY MaxOptionsAssumption DEF AInv, ATypeOK, RefuseOption, LookAt
<1>5. ~WellFormed'
  <2>1. CASE ~Sound(o)
    BY <1>1, <2>1, Appended DEF WellFormed, Sound
  <2>2. CASE IsGiven(o.opt)
    <3>1. PICK i \in 1 .. Len(given) : given[i].opt = o.opt
      BY <2>2 DEF IsGiven
    <3>2. /\ i \in 1 .. Len(given') /\ Len(given) + 1 \in 1 .. Len(given')
          /\ given'[i].opt = o.opt /\ given'[Len(given) + 1].opt = o.opt
          /\ i # Len(given) + 1
      BY <1>1, <3>1, Appended
    <3>3. ~AtMostOnceGiven(o.opt)'
      BY <3>2 DEF AtMostOnceGiven, Times
    <3>4. QED
      BY <1>1, <3>3 DEF WellFormed, OptionType
  <2>3. QED
    BY <1>3, <2>1, <2>2
<1>6. ~OnlyHelp'
  <2>1. SUFFICES ASSUME OnlyHelp' PROVE FALSE
    OBVIOUS
  <2>2. Len(given) = 0 /\ o.opt = "h"
    BY <1>1, <2>1, Appended DEF OnlyHelp
  <2>3. QED
    BY <1>3, <2>2 DEF IsGiven, Sound
<1>7. AcceptsExactly'
  BY <1>2, <1>5, <1>6 DEF AcceptsExactly
<1>8. QED
  BY <1>2, <1>4, <1>7 DEF AInv

\* A number within its limit survives the cast to its type.
LEMMA CastsKeep ==
    ASSUME NEW v \in Int, v >= 0
    PROVE  /\ v <= 65535 => Timeout16(v) = v
           /\ v <= 255 => v % (UINT8_MAX + 1) = v
BY DEF Timeout16, UINT16_MAX, UINT8_MAX

LEMMA TakeStep ==
    ASSUME AInv, NEW o \in Options, Len(given) < MaxOptions, TakeOption(o)
    PROVE  AInv'
<1>1. given \in Seq(OptionType) /\ o \in OptionType /\ given' = Append(given, o)
  BY OptionsHaveTheirType DEF AInv, ATypeOK, TakeOption, LookAt
<1>2. Summary /\ outcome' = "parsing" /\ operands' = operands
  BY DEF AInv, TakeOption, LookAt
<1>3. ~IsGiven(o.opt) /\ Sound(o)
  BY <1>2, TakenIsRight DEF TakeOption
<1>4. \A opt : IsGiven(opt)' <=> IsGiven(opt) \/ o.opt = opt
  BY <1>1, GivenNow
<1>5. parameters' \in ParametersType
  <2>1. parameters \in ParametersType /\ parameters' = Stored(o)
    BY DEF AInv, ATypeOK, TakeOption
  <2>2. CASE o.opt = "t"
    BY <2>1, <2>2 DEF Stored, ParametersType
  <2>3. CASE o.opt = "s"
    BY <1>1, <2>1, <2>3 DEF Stored, ParametersType, OptionType, ArgumentType
  <2>4. CASE o.opt = "p"
    BY <1>1, <1>3, <2>1, <2>4
    DEF Stored, ParametersType, OptionType, ArgumentType, Sound, UpTo, UINT16_MAX
  <2>5. CASE o.opt = "d"
    <3>1. Stored(o) = [parameters EXCEPT !.timeout = o.arg.value]
      BY <1>1, <1>3, <2>5, CastsKeep DEF Stored, OptionType, ArgumentType, Sound
    <3>2. o.arg.value \in UpTo(UINT16_MAX)
      BY <1>1, <1>3, <2>5 DEF OptionType, ArgumentType, Sound, UpTo, UINT16_MAX
    <3>3. QED
      BY <2>1, <3>1, <3>2 DEF ParametersType
  <2>6. CASE o.opt = "r"
    <3>1. Stored(o) = [parameters EXCEPT !.retransmissions = o.arg.value]
      BY <1>1, <1>3, <2>6, CastsKeep DEF Stored, OptionType, ArgumentType, Sound
    <3>2. o.arg.value \in UpTo(UINT8_MAX)
      BY <1>1, <1>3, <2>6 DEF OptionType, ArgumentType, Sound, UpTo, UINT8_MAX
    <3>3. QED
      BY <2>1, <3>1, <3>2 DEF ParametersType
  <2>7. CASE o.opt \notin {"t", "s", "p", "d", "r"}
    BY <2>1, <2>7 DEF Stored
  <2>8. QED
    BY <2>2, <2>3, <2>4, <2>5, <2>6, <2>7
<1>6. ATypeOK'
  <2>1. options_set' \subseteq {"t", "p", "d", "r", "h"}
    <3>1. o.opt \in {"t", "p", "d", "r", "h", "s"}
      BY <1>1, <1>3 DEF OptionType, Letters, Sound
    <3>2. QED
      BY <3>1 DEF AInv, ATypeOK, TakeOption
  <2>2. given' \in Seq(Options) /\ Len(given') <= MaxOptions
    BY MaxOptionsAssumption DEF AInv, ATypeOK, TakeOption, LookAt
  <2>3. only_opt' \in BOOLEAN
    BY Zenon DEF AInv, ATypeOK, TakeOption, StillOnlyHelp
  <2>4. QED
    BY <1>2, <1>5, <2>1, <2>2, <2>3, Zenon DEF AInv, ATypeOK
<1>7. Flags'
  <2>1. ASSUME NEW opt \in {"t", "p", "d", "r", "h"}
        PROVE  opt \in options_set' <=> IsGiven(opt)'
    BY <1>2, <1>4 DEF Summary, Flags, TakeOption
  <2>2. parameters'.ip_or_domain # "NULL" <=> IsGiven("s")'
    <3>1. parameters \in ParametersType /\ parameters' = Stored(o)
      BY DEF AInv, ATypeOK, TakeOption
    <3>2. parameters'.ip_or_domain =
            IF o.opt = "s" THEN o.arg.text ELSE parameters.ip_or_domain
      BY <1>1, <3>1 DEF Stored, ParametersType, OptionType, Letters
    <3>3. o.arg.text # "NULL"
      BY <1>1 DEF OptionType, ArgumentType, Texts
    <3>4. QED
      BY <1>2, <1>4, <3>2, <3>3 DEF Summary, Flags
  <2>3. only_opt' <=> \A i \in 1 .. Len(given') : given'[i].opt = "h"
    <3>1. only_opt' <=> only_opt /\ o.opt = "h"
      BY Zenon DEF TakeOption, StillOnlyHelp
    <3>2. only_opt <=> \A i \in 1 .. Len(given) : given'[i].opt = "h"
      BY <1>1, <1>2, Appended DEF Summary, Flags
    <3>3. (\A i \in 1 .. Len(given') : given'[i].opt = "h")
            <=> (\A i \in 1 .. Len(given) : given'[i].opt = "h") /\ o.opt = "h"
      BY <1>1, Appended
    <3>4. QED
      BY <3>1, <3>2, <3>3, Zenon
  <2>4. QED
    BY <2>1, <2>2, <2>3 DEF Flags
<1>8. Once'
  <2>1. \A i \in 1 .. Len(given) : given'[i].opt # o.opt
    BY <1>1, <1>3, Appended DEF IsGiven
  <2>2. QED
    BY <1>1, <1>2, <2>1, Appended DEF Summary, Once
<1>9. AllSound'
  BY <1>1, <1>2, <1>3, Appended DEF Summary, AllSound, Sound
<1>10. Values'
  <2>1. /\ parameters \in ParametersType /\ parameters' = Stored(o)
        /\ o.opt \in {"t", "p", "d", "r", "h", "s"}
    BY <1>1, <1>3 DEF AInv, ATypeOK, TakeOption, OptionType, Letters, Sound
  <2>2. /\ parameters'.tcp = IF o.opt = "t" THEN o.arg.text = "tcp" ELSE parameters.tcp
        /\ parameters'.port = IF o.opt = "p" THEN o.arg.value ELSE parameters.port
    BY <2>1 DEF Stored, ParametersType
  <2>3. /\ parameters'.timeout = IF o.opt = "d" THEN o.arg.value ELSE parameters.timeout
        /\ parameters'.retransmissions =
             IF o.opt = "r" THEN o.arg.value ELSE parameters.retransmissions
    BY <1>1, <1>3, <2>1, CastsKeep
    DEF Stored, ParametersType, OptionType, ArgumentType, Sound
  <2>4. ASSUME NEW i \in 1 .. Len(given')
        PROVE  /\ given'[i].opt = "t" => (parameters'.tcp <=> given'[i].arg.text = "tcp")
               /\ given'[i].opt = "p" => parameters'.port = given'[i].arg.value
               /\ given'[i].opt = "d" => parameters'.timeout = given'[i].arg.value
               /\ given'[i].opt = "r" => parameters'.retransmissions = given'[i].arg.value
    <3>1. CASE i \in 1 .. Len(given)
      <4>1. given'[i] = given[i] /\ given[i].opt # o.opt
        BY <1>1, <1>3, <3>1, Appended DEF IsGiven
      <4>2. QED
        BY <1>2, <2>2, <2>3, <3>1, <4>1 DEF Summary, Values
    <3>2. CASE i = Len(given) + 1
      BY <1>1, <2>2, <2>3, <3>2, Appended
    <3>3. QED
      BY <1>1, <3>1, <3>2, Appended
  <2>5. /\ ~IsGiven("p")' => parameters'.port = 4567
        /\ ~IsGiven("d")' => parameters'.timeout = 250
        /\ ~IsGiven("r")' => parameters'.retransmissions = 3
    BY <1>2, <1>4, <2>2, <2>3 DEF Summary, Values
  <2>6. QED
    BY <2>4, <2>5 DEF Values
<1>11. QED
  BY <1>2, <1>6, <1>7, <1>8, <1>9, <1>10 DEF AInv, Summary, AcceptsExactly

\* The checks after the loop.
LEMMA EndStep ==
    ASSUME AInv, OptionsEnd
    PROVE  AInv'
<1>1. given \in Seq(OptionType) /\ Summary
  BY OptionsHaveTheirType DEF AInv, ATypeOK, OptionsEnd
<1>2. WellFormed
  BY <1>1, WellFormedSplit DEF Summary
<1>3. /\ "t" \in options_set <=> Times("t") # {}
      /\ "h" \in options_set <=> Times("h") # {}
      /\ parameters.ip_or_domain # "NULL" <=> Times("s") # {}
  BY <1>1, TimesGiven DEF Summary, Flags
<1>4. "h" \in options_set /\ only_opt <=> OnlyHelp
  <2>1. "h" \in options_set <=> IsGiven("h")
    BY <1>1 DEF Summary, Flags
  <2>2. only_opt <=> \A i \in 1 .. Len(given) : given[i].opt = "h"
    BY <1>1, Zenon DEF Summary, Flags
  <2>3. IsGiven("h") /\ (\A i \in 1 .. Len(given) : given[i].opt = "h") <=> OnlyHelp
    <3>1. ASSUME IsGiven("h"), \A i \in 1 .. Len(given) : given[i].opt = "h"
          PROVE  OnlyHelp
      <4>1. PICK k \in 1 .. Len(given) : given[k].opt = "h"
        BY <3>1 DEF IsGiven
      <4>2. \A i \in 1 .. Len(given) : i = k
        BY <1>1, <3>1, <4>1 DEF Summary, Once
      <4>3. Len(given) \in Nat
        BY <1>1
      <4>4. Len(given) = 1
        BY <4>2, <4>3
      <4>5. QED
        BY <3>1, <4>4 DEF OnlyHelp
    <3>2. OnlyHelp => IsGiven("h") /\ \A i \in 1 .. Len(given) : given[i].opt = "h"
      BY DEF OnlyHelp, IsGiven
    <3>3. QED
      BY <3>1, <3>2
  <2>4. QED
    BY <2>1, <2>2, <2>3, Zenon
<1>5. UNCHANGED <<parameters, options_set, only_opt, given>> /\ operands' \in BOOLEAN
  BY DEF OptionsEnd
<1>6. /\ Summary' /\ WellFormed' /\ (OnlyHelp' <=> OnlyHelp)
      /\ Times("t")' = Times("t") /\ Times("s")' = Times("s") /\ Times("h")' = Times("h")
  BY <1>1, <1>2, <1>5
  DEF Summary, Flags, Values, Once, AllSound, IsGiven, WellFormed, AtMostOnceGiven, Times, OnlyHelp
<1>7. ASSUME outcome' = "help", OnlyHelp PROVE AcceptsExactly'
  BY <1>6, <1>7 DEF AcceptsExactly
<1>8. ASSUME outcome' = "accepted",
             Times("h") = {}, Times("t") # {}, Times("s") # {}, ~operands'
      PROVE  AcceptsExactly'
  BY <1>6, <1>8 DEF AcceptsExactly
<1>9. ASSUME outcome' = "refused",
             ~OnlyHelp,
             Times("h") # {} \/ Times("t") = {} \/ Times("s") = {} \/ operands'
      PROVE  AcceptsExactly'
  BY <1>6, <1>9 DEF AcceptsExactly
<1>10. ATypeOK'
  <2>1. outcome' \in {"help", "accepted", "refused"}
    BY DEF OptionsEnd
  <2>2. QED
    BY <1>5, <2>1 DEF AInv, ATypeOK
<1>11. AcceptsExactly'
  BY <1>3, <1>4, <1>7, <1>8, <1>9 DEF OptionsEnd, Complete
<1>12. QED
  BY <1>6, <1>10, <1>11 DEF AInv

LEMMA LeaveStep ==
    ASSUME AInv, Leave
    PROVE  AInv'
<1>1. given' \in Seq(Options) /\ Len(given') = 0
  BY DEF Leave
<1>2. options_set' \subseteq {"t", "p", "d", "r", "h"} /\ only_opt' \in BOOLEAN
  BY Zenon DEF Leave
<1>3. ATypeOK'
  BY <1>1, <1>2, MaxOptionsAssumption DEF AInv, ATypeOK, Leave
<1>4. QED
  BY <1>3 DEF AInv, AcceptsExactly, Leave

\* AInv is inductive.
LEMMA StepA == AInv /\ [ANext]_avars => AInv'
<1> SUFFICES ASSUME AInv, [ANext]_avars PROVE AInv'
  OBVIOUS
<1>1. ASSUME NEW o \in Options, Len(given) < MaxOptions, RefuseOption(o) PROVE AInv'
  BY <1>1, RefuseStep
<1>2. ASSUME NEW o \in Options, Len(given) < MaxOptions, TakeOption(o) PROVE AInv'
  BY <1>2, TakeStep
<1>3. CASE OptionsEnd
  BY <1>3, EndStep
<1>4. CASE Leave
  BY <1>4, LeaveStep
<1>5. CASE UNCHANGED avars
  BY <1>5
  DEF avars, AInv, ATypeOK, Summary, Flags, Values, Once, AllSound, IsGiven, AcceptsExactly,
      WellFormed, AtMostOnceGiven, Times, OnlyHelp
<1>6. QED
  BY <1>1, <1>2, <1>3, <1>4, <1>5 DEF ANext

\* The parameters of an accepted command line are the ones given.
LEMMA AInvImpliesValues == AInv => ValuesAreGiven
<1> SUFFICES ASSUME AInv, outcome = "accepted"
             PROVE  /\ \A i \in Times("t") : parameters.tcp <=> given[i].arg.text = "tcp"
                    /\ GivenOrDefault("p", parameters.port, 4567)
                    /\ GivenOrDefault("d", parameters.timeout, 250)
                    /\ GivenOrDefault("r", parameters.retransmissions, 3)
  BY DEF ValuesAreGiven
<1>1. Values
  BY DEF AInv, Summary
<1>2. QED
  BY <1>1 DEF Values, Times, GivenOrDefault, IsGiven

----------------------------------------------------------------------------

\* Whatever is on the command line, process_args() starts the client, prints the
\* help or refuses exactly as the synopsis of README.md:32 demands, whatever the
\* order of the options (args.c:86-156).  That is not the usage text to the word:
\* args.c:28,32 and args.h:11-13 call -p required, and no command line is refused
\* for want of it.
THEOREM ArgumentsChecked == ASpec => []AcceptsExactly
<1>1. AInv => AcceptsExactly
  BY DEF AInv
<1>2. QED
  BY InitA, StepA, <1>1, PTL DEF ASpec

\* The client runs with the values it was given: no cast of PARSE_NUMBER changes
\* one (args.h:52-57), and what was not given has its default.
THEOREM ParametersAreGiven == ASpec => []ValuesAreGiven
BY InitA, StepA, AInvImpliesValues, PTL DEF ASpec
=============================================================================
