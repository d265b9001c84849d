--------------------------------- MODULE Env ---------------------------------
(***************************************************************************)
(* The environment of a klibc program: getenv, setenv, putenv, unsetenv,   *)
(* clearenv and their common part __put_env, on the array environ.         *)
(*                                                                         *)
(* A string "name=value" is the pair <<name, value>>.  strncmp() compares  *)
(* prefixes, so two things about text are kept: which names begin with     *)
(* which (Begins), and whether a value has an "=" of its own: a value is   *)
(* <<w>>, or <<h, t>> for the text "h=t".                                  *)
(*                                                                         *)
(* The variable __environ_alloc of __put_env.c is static and only ever     *)
(* assigned NULL, so what depends on it does not happen and is left out.   *)
(***************************************************************************)
EXTENDS Integers, Sequences, SequencesExt, FiniteSetsExt

CONSTANTS
    Names,     \* names of variables
    Begins,    \* <<m, n>> : the name m begins with n
    Words,     \* the parts of values
    Initial,   \* the environment the kernel passes
    Extra,     \* room for this many more in a new array (32 in the code)
    MaxVars,   \* bound: variables the program has at a time
    NULL

Values == {<<w>> : w \in Words} \cup (Words \X Words)
Entry  == Names \X Values

ASSUME EnvAssumption ==
    /\ Begins \subseteq Names \X Names /\ \A n \in Names : <<n, n>> \in Begins
    /\ Initial \in Seq(Entry) /\ Extra \in Nat \ {0} /\ MaxVars \in Nat
    /\ NULL \notin Values

VARIABLES
    environ,       \* the array: where it is, its slots and its strings
    environ_size,  \* __environ_size
    crashed        \* a write went outside the array, or into constant data

vars == <<environ, environ_size, crashed>>

Places == {"stack", "heap", "null"}

Init ==
    /\ environ = [place |-> "stack", slots |-> Len(Initial) + 1, strings |-> Initial]
    /\ environ_size = 0 /\ crashed = FALSE

-----------------------------------------------------------------------------
Strings == environ.strings

getenv(n) ==
    LET H == {i \in DOMAIN Strings : Strings[i][1] = n}
    IN  IF H = {} THEN NULL ELSE Strings[Min(H)][2]

\* The faulty test that lets the terminating NULL fall off the array.
HasRoomForString(n) == n <= environ_size

\* n counts the strings and the terminating NULL.
HasRoom(n) == n < environ_size

\* The faulty search that replaces the last string with the key, not the one
\* getenv() finds.
LastHit(H) == Max(H)

FirstHit(H) == Min(H)

\* The faulty guess that counts the strings only.
NewSizeWithoutNull(n) == n

NewSize(n) == n + Extra

\* malloc() may return NULL; the string is then lost and nothing else changes.
Extends(e) ==
    LET n == Len(environ.strings) + 1 IN
    \/ /\ HasRoom(n)
       /\ IF environ.place # "null" /\ n < environ.slots
          THEN /\ environ' = [environ EXCEPT !.strings = Append(@, e)]
               /\ UNCHANGED crashed
          ELSE crashed' = TRUE /\ UNCHANGED environ
       /\ UNCHANGED environ_size
    \/ /\ ~HasRoom(n)
       /\ environ' = [place |-> "heap", slots |-> NewSize(n),
                      strings |-> Append(environ.strings, e)]
       /\ environ_size' = NewSize(n)
       /\ UNCHANGED crashed
    \/ ~HasRoom(n) /\ UNCHANGED vars

\* H holds the places of the strings that begin with the key.
put_env(e, H, overwrite) ==
    /\ ~crashed
    /\ IF H = {}
       THEN Len(environ.strings) < MaxVars /\ Extends(e)
       ELSE /\ environ' = IF overwrite
                          THEN [environ EXCEPT !.strings[FirstHit(H)] = e]
                          ELSE environ
            /\ UNCHANGED <<environ_size, crashed>>

\* The faulty setenv() that passes the length of the name without the "=".
SetKeyWithoutEquals(e, n) == <<e[1], n>> \in Begins

\* The first l1 + 1 characters of e are "n=".
SetKey(e, n) == e[1] = n

setenv(n, v, overwrite) ==
    put_env(<<n, v>>, {i \in DOMAIN Strings : SetKey(Strings[i], n)}, overwrite)

\* putenv() passes what comes before the LAST "=", without that "=": a name
\* matches every name that begins with it, and "n=h" every value of n that
\* begins with h.
PutKey(e, n, v) ==
    IF Len(v) = 1 THEN <<e[1], n>> \in Begins
    ELSE e[1] = n /\ e[2][1] = v[1]

putenv(n, v) ==
    put_env(<<n, v>>, {i \in DOMAIN Strings : PutKey(Strings[i], n, v)}, TRUE)

UnsetKey(e, n) == e[1] = n

unsetenv(n) ==
    LET H == {i \in DOMAIN Strings : UnsetKey(Strings[i], n)}
    IN /\ ~crashed /\ H # {}
       /\ environ' = [environ EXCEPT !.strings = RemoveAt(Strings, Min(H))]
       /\ UNCHANGED <<environ_size, crashed>>

\* __environ_size keeps the size of the array that is left behind.
clearenv ==
    /\ ~crashed
    /\ environ' = [place |-> "null", slots |-> 1, strings |-> <<>>]
    /\ UNCHANGED <<environ_size, crashed>>

Next ==
    \/ \E n \in Names, v \in Values, o \in BOOLEAN : setenv(n, v, o)
    \/ \E n \in Names, v \in Values : putenv(n, v)
    \/ \E n \in Names : unsetenv(n)
    \/ clearenv

Spec == Init /\ [][Next]_vars

-----------------------------------------------------------------------------
\* Types; and the strings and their terminating NULL fit in the array that
\* __put_env has allocated for them, however often they come and go.
TypeOK ==
    /\ environ.place \in Places /\ environ.strings \in Seq(Entry)
    /\ environ.slots \in Nat /\ Len(environ.strings) < environ.slots
    /\ environ_size \in Nat /\ crashed \in BOOLEAN

\* __put_env writes outside the array only when clearenv() has left the size
\* of a lost array behind: growing one string at a time never does.
GrowthInBounds == crashed => environ.place = "null"

\* A successful setenv() is what getenv() reports, also when the environment
\* holds the name twice; without overwrite an old value stays.
SetenvTakesEffect ==
    [][\A n \in Names, v \in Values, o \in BOOLEAN :
         setenv(n, v, o) /\ environ' # environ => getenv(n)' = v]_vars

\* setenv() and unsetenv() change no other variable, whatever its name begins
\* with and wherever the array has moved.
OthersKept ==
    [][\A n \in Names :
         unsetenv(n) \/ (\E v \in Values, o \in BOOLEAN : setenv(n, v, o)) =>
           \A m \in Names \ {n} : getenv(m)' = getenv(m)]_vars
=============================================================================
