------------------------------ MODULE MiOptions ------------------------------
(***************************************************************************)
(* The options of mimalloc (options.c): each is read from the environment  *)
(* when it is first asked for, by whatever threads ask first, without a    *)
(* lock, and the warnings that this may bring forth ask for options again. *)
(*                                                                         *)
(* A thread is a stack of calls of mi_option_init; what a message says and *)
(* how it is written is MiOutput's part.                                   *)
(***************************************************************************)
EXTENDS Naturals, Sequences, FiniteSets

CONSTANTS
  Threads,
  Options,       \* "verbose", "show_errors" and others
  Environments,  \* bound: what the environment may say, option -> "absent",
                 \* "valid", "legacy" (under its legacy_name) or "bogus"
  MaxSets        \* bound: the options that the program sets

Default == 0        \* of the options here
InEnvironment == 1  \* what the environment says
SetValue == 2       \* what the program sets
NewDefault == 3     \* what the program sets as a default

\* The legacy names: verbose and show_errors have none (options.c 54, 56 and 59).
OptionsAssumption ==
  /\ {"verbose", "show_errors"} \subseteq Options
  /\ Environments \subseteq [Options -> {"absent", "valid", "legacy", "bogus"}]
  /\ \A e \in Environments : e["verbose"] # "legacy" /\ e["show_errors"] # "legacy"

VARIABLES
  preloading,   \* _mi_preloading()
  environment,  \* see Environments
  value, init,  \* of the descriptor of each option
  stack,        \* thread -> what it is doing, the innermost call first
  asked,        \* history: the last value the program has set, or set as default
  raced,        \* history: options that one thread set while another was at them
  missed        \* history: options that were given up although they are in the environment

vars == <<preloading, environment, value, init, stack, asked, raced, missed>>

Nothing == [set |-> Default, default |-> Default]

Init ==
  /\ preloading \in BOOLEAN
  /\ environment \in Environments
  /\ value = [o \in Options |-> Default]
  /\ init = [o \in Options |-> "UNINIT"]
  /\ stack = [t \in Threads |-> <<>>]
  /\ asked = [o \in Options |-> Nothing]
  /\ raced = {} /\ missed = {}

\* _mi_options_init is called when preloading is over, at the latest.
Loaded ==
  /\ preloading
  /\ preloading' = FALSE
  /\ UNCHANGED <<environment, value, init, stack, asked, missed>>

Frame(o, at) == [option |-> o, at |-> at]
Becomes(t, s) == stack' = [stack EXCEPT ![t] = s]
Top(t) == Head(stack[t])
Below(t) == Tail(stack[t])
At(t, at) == stack[t] # <<>> /\ Top(t).at = at
Write(o, v) == value' = [value EXCEPT ![o] = v]
Mark(o, m) == init' = [init EXCEPT ![o] = m]

\* The calls of a warning: mi_option_is_enabled(verbose), then, if it is not,
\* of show_errors.
Asks(s) == <<Frame("verbose", "get"), Frame("show_errors", "maybe")>> \o s

---------------------------------------------------------------------------
\* mi_option_get by the program; the loop of _mi_options_init is many.
Get(t, o) ==
  /\ stack[t] = <<>>
  /\ Becomes(t, <<Frame(o, "get")>>)
  /\ UNCHANGED <<preloading, environment, value, init, asked, missed>>

\* The test of init, with which most calls end.
Test(t) ==
  /\ At(t, "get")
  /\ LET o == Top(t).option IN
     IF init[o] = "UNINIT" THEN Becomes(t, <<Frame(o, "find")>> \o Below(t))
                           ELSE Becomes(t, Below(t))
  /\ UNCHANGED <<preloading, environment, value, init, asked, missed>>

\* A warning asks for show_errors only if verbose is off.
Maybe(t) ==
  /\ At(t, "maybe")
  /\ Becomes(t, IF value["verbose"] # 0 THEN Below(t)
                ELSE <<Frame("show_errors", "get")>> \o Below(t))
  /\ UNCHANGED <<preloading, environment, value, init, asked, missed>>

\* mi_option_init: the environment, which may not be there before the C
\* library is; a legacy name brings a warning before anything is written.
Find(t) ==
  /\ At(t, "find")
  /\ LET o == Top(t).option
         found == environment[o] # "absent"
     IN  \/ /\ ~found \/ preloading
            /\ Becomes(t, <<Frame(o, "missing")>> \o Below(t))
         \/ /\ found
            /\ Becomes(t, CASE environment[o] = "valid" -> <<Frame(o, "value")>> \o Below(t)
                            [] environment[o] = "legacy" -> Asks(<<Frame(o, "value")>> \o Below(t))
                            [] OTHER -> <<Frame(o, "bogus")>> \o Below(t))
  /\ UNCHANGED <<preloading, environment, value, init, asked, missed>>

\* It was not found: that is final, unless preloading is going on now.
Missing(t) ==
  /\ At(t, "missing")
  /\ LET o == Top(t).option IN
     /\ IF preloading THEN UNCHANGED <<init, missed>>
        ELSE /\ Mark(o, "DEFAULTED")
             /\ missed' = IF environment[o] = "absent" THEN missed ELSE missed \cup {o}
     /\ Becomes(t, Below(t))
  /\ UNCHANGED <<preloading, environment, value, asked>>

\* A value that can be read: first the value, ...
SetFound(t) ==
  /\ At(t, "value")
  /\ Write(Top(t).option, InEnvironment)
  /\ Becomes(t, <<Frame(Top(t).option, "mark")>> \o Below(t))
  /\ UNCHANGED <<preloading, environment, init, asked, missed>>

\* ... then the mark.
MarkFound(t) ==
  /\ At(t, "mark")
  /\ Mark(Top(t).option, "INITIALIZED")
  /\ Becomes(t, Below(t))
  /\ UNCHANGED <<preloading, environment, value, asked, missed>>

\* Mutant of Bogus: the option is marked when the warning is out.
BogusWarnsFirst(t) ==
  /\ At(t, "bogus")
  /\ Becomes(t, Asks(<<Frame(Top(t).option, "mark")>> \o Below(t)))
  /\ UNCHANGED <<preloading, environment, value, init, asked, missed>>

\* A value that cannot be read: "set `init' first to avoid recursion through
\* _mi_warning_message" (options.c:552); verbose itself is turned on for it.
Bogus(t) ==
  /\ At(t, "bogus")
  /\ LET o == Top(t).option IN
     /\ Mark(o, "DEFAULTED")
     /\ IF o = "verbose" /\ value[o] = 0
        THEN Write(o, 1) /\ Becomes(t, Asks(<<Frame(o, "off")>> \o Below(t)))
        ELSE UNCHANGED value /\ Becomes(t, Asks(Below(t)))
  /\ UNCHANGED <<preloading, environment, asked, missed>>

TurnOff(t) ==
  /\ At(t, "off")
  /\ Write(Top(t).option, 0)
  /\ Becomes(t, Below(t))
  /\ UNCHANGED <<preloading, environment, init, asked, missed>>

---------------------------------------------------------------------------
\* A thread is about to write what the program sets; it is in mi_option_init.
Sets(t, o) == stack[t] # <<>> /\ Top(t) \in {Frame(o, "seal"), Frame(o, "store")}
Initializes(t, o) ==
  \E i \in DOMAIN stack[t] :
    stack[t][i].option = o /\ stack[t][i].at \notin {"get", "maybe", "seal", "store"}
Initializing(o) == \E t \in Threads : Initializes(t, o)

MaySet(o) ==
  LET set == {x \in Options : asked[x] # Nothing \/ \E t \in Threads : Sets(t, x)}
  IN  Cardinality(set \cup {o}) <= MaxSets

\* mi_option_set: first the value, ...
Set(t, o) ==
  /\ stack[t] = <<>> /\ MaySet(o)
  /\ Write(o, SetValue)
  /\ asked' = [asked EXCEPT ![o].set = SetValue]
  /\ Becomes(t, <<Frame(o, "seal")>>)
  /\ UNCHANGED <<preloading, environment, init, missed>>

\* ... then the mark.
Seal(t) ==
  /\ At(t, "seal")
  /\ Mark(Top(t).option, "INITIALIZED")
  /\ Becomes(t, Below(t))
  /\ UNCHANGED <<preloading, environment, value, asked, missed>>

\* mi_option_set_default: the test, ...
SetDefault(t, o) ==
  /\ stack[t] = <<>> /\ MaySet(o)
  /\ init[o] # "INITIALIZED"
  /\ Becomes(t, <<Frame(o, "store")>>)
  /\ UNCHANGED <<preloading, environment, value, init, asked, missed>>

\* ... and the value.
Store(t) ==
  /\ At(t, "store")
  /\ LET o == Top(t).option IN
     Write(o, NewDefault) /\ asked' = [asked EXCEPT ![o].default = NewDefault]
  /\ Becomes(t, Below(t))
  /\ UNCHANGED <<preloading, environment, init, missed>>

Steps ==
  \/ Loaded
  \/ \E t \in Threads :
       \/ \E o \in Options : Get(t, o) \/ Set(t, o) \/ SetDefault(t, o)
       \/ Test(t) \/ Maybe(t) \/ Find(t) \/ Missing(t) \/ SetFound(t) \/ MarkFound(t)
       \/ Bogus(t) \/ TurnOff(t) \/ Seal(t) \/ Store(t)

\* Nothing is done about two threads at one option of which one sets it.
Contended(o) ==
  \E t, u \in Threads : t # u /\ Sets(t, o) /\ (Sets(u, o) \/ Initializes(u, o))

Next == Steps /\ raced' = raced \cup {o \in Options : Contended(o)'}

Spec == Init /\ [][Next]_vars

---------------------------------------------------------------------------
\* What the program set goes before what the environment says, and that
\* before a default, the program's before that of the code.
Due(o) ==
  IF asked[o].set # Default THEN asked[o].set
  ELSE IF environment[o] \in {"valid", "legacy"} THEN InEnvironment
  ELSE asked[o].default

\* "An initializing data race is ok since they resolve to the same value"
\* (options.c:30): once an option is initialized and no thread is at it, it
\* has the value it is due, however many threads initialized it at once, unless
\* the program set it just then.  An option that was asked for before the
\* environment could be read is not given up for that, unless preloading ended
\* between the reading and the test of it (options.c:511 and 568): then it has
\* its default for good.  And no thread that initializes an option comes to
\* initialize it again, through a warning.
OptionsResolve ==
  /\ \A o \in Options \ (raced \cup missed) :
       init[o] # "UNINIT" /\ ~Initializing(o) => value[o] = Due(o)
  /\ \A t \in Threads : \A i, j \in DOMAIN stack[t] :
       stack[t][i].option = stack[t][j].option
         /\ stack[t][i].at # "maybe" /\ stack[t][j].at # "maybe" =>
       i = j \/ (stack[t][i].at = "get" \/ stack[t][j].at = "get")
=============================================================================
