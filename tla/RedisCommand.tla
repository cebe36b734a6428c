---------------------------- MODULE RedisCommand ----------------------------
(***************************************************************************)
(* The db.command tag of a redis call: the hooks of sky_plugin_redis.c,    *)
(* their macros in sky_plugin_redis.h, and the formatter they share.  A    *)
(* zval is a record of its type and of its text as a string; the other     *)
(* arguments stand for their own text; an array is the sequence of its     *)
(* elements, each a key (a string's text or a number's) and a zval.        *)
(***************************************************************************)
EXTENDS Integers, Sequences, SequencesExt

CONSTANT IntBits   \* the width of an int, 32 in the code

ASSUME RedisCommandAssumption == IntBits \in Nat /\ IntBits >= 1

\* The cast of a zend_long to int.
Narrow(n) == ((n + 2^(IntBits - 1)) % (2^IntBits)) - 2^(IntBits - 1)

\* Mutant of Shown: of an array, only the strings.
ShownStrings(letter, arg) ==
    CASE letter = "m" -> [i \in DOMAIN arg |-> arg[i].key]
      [] letter = "a" -> LET strings == SelectSeq(arg, LAMBDA e : e.value.type = "string")
                         IN  [i \in DOMAIN strings |-> strings[i].value.text]
      [] letter = "v" -> IF arg.type = "string" THEN <<arg.text>> ELSE <<>>
      [] letter = "d" -> <<Narrow(arg)>>
      [] OTHER -> <<arg>>

\* What sky_plugin_redis_command appends for a letter of the format.  The
\* values under "m" are left out: the test asks for the type of the array.
Shown(letter, arg) ==
    CASE letter = "m" -> [i \in DOMAIN arg |-> arg[i].key]
      [] letter = "a" -> [i \in DOMAIN arg |-> arg[i].value.text]
      [] letter = "v" -> IF arg.type = "string" THEN <<arg.text>> ELSE <<>>
      [] letter = "d" -> <<Narrow(arg)>>
      [] OTHER -> <<arg>>

\* The format that the hook of a command passes on.
Format(kw, args) ==
    CASE kw \in {"GET", "STRLEN"}                     -> <<"k">>
      [] kw \in {"APPEND", "GETSET", "SET", "SETNX"}  -> <<"k", "v">>
      [] kw \in {"DECRBY", "INCRBY"}                  -> <<"k", "l">>
      [] kw \in {"PSETEX", "SETEX"}                   -> <<"k", "l", "v">>
      [] kw = "GETRANGE"                              -> <<"k", "l", "l">>
      [] kw = "INCRBYFLOAT"                           -> <<"k", "f">>
      [] kw = "SETRANGE"                              -> <<"k", "d", "s">>
      [] kw = "MGET"                                  -> <<"a">>
      [] kw \in {"MSET", "MSETNX"}                    -> <<"m">>
      [] kw \in {"DECR", "INCR"} -> IF args[2] = 1 THEN <<"k">> ELSE <<"k", "l">>

\* The tag.  DECR and INCR by another number than 1 keep their keyword: the
\* one with BY at its end is made, and not used.
Command(kw, args) ==
    LET fmt == Format(kw, args)
    IN  <<kw>> \o FlattenSeq([i \in DOMAIN fmt |-> Shown(fmt[i], args[i])])

-----------------------------------------------------------------------------
\* What phpredis sends to the server: its arguments in full, and behind those
\* of SET what else the script gave.
Given(letter, arg) ==
    CASE letter = "m" -> FlattenSeq([i \in DOMAIN arg |-> <<arg[i].key, arg[i].value.text>>])
      [] letter = "a" -> [i \in DOMAIN arg |-> arg[i].value.text]
      [] letter = "v" -> <<arg.text>>
      [] OTHER -> <<arg>>

Options(kw, args) == IF kw = "SET" THEN SubSeq(args, 3, Len(args)) ELSE <<>>

Sent(kw, args) ==
    LET fmt == Format(kw, args)
    IN  <<CASE kw = "DECR" /\ args[2] # 1 -> "DECRBY"
            [] kw = "INCR" /\ args[2] # 1 -> "INCRBY"
            [] OTHER -> kw>>
        \o (FlattenSeq([i \in DOMAIN fmt |-> Given(fmt[i], args[i])]) \o Options(kw, args))

\* The keys a command touches, in their order.
Keys(kw, args) ==
    CASE kw = "MGET" -> [i \in DOMAIN args[1] |-> args[1][i].value.text]
      [] kw \in {"MSET", "MSETNX"} -> [i \in DOMAIN args[1] |-> args[1][i].key]
      [] OTHER -> <<args[1]>>

\* The hooked commands, but for the four whose hooks only pass the call on.
Hooked == {"GET", "STRLEN", "APPEND", "GETSET", "SET", "SETNX", "DECRBY", "INCRBY", "PSETEX", "SETEX",
           "GETRANGE", "INCRBYFLOAT", "SETRANGE", "MGET", "MSET", "MSETNX", "DECR", "INCR"}

\* A call as PHP's parameter parsing lets it through to the hooked method.
Fits(letter, arg) ==
    /\ letter \in {"a", "m"} => Len(arg) \in Nat /\ DOMAIN arg = 1..Len(arg)
    /\ letter = "d" => arg \in Int

IsCall(kw, args) ==
    /\ kw \in Hooked
    /\ DOMAIN args = 1..Len(args) /\ Len(args) \in Nat
    /\ kw \in {"DECR", "INCR"} => Len(args) >= 2
    /\ Len(args) >= Len(Format(kw, args))
    /\ \A i \in DOMAIN Format(kw, args) : Fits(Format(kw, args)[i], args[i])
=============================================================================
