----------------------------- MODULE CurlPlugin -----------------------------
(***************************************************************************)
(* The headers of curl transfers under src/src/sky_plugin_curl.c, in one   *)
(* traced request.  curl_exec sets the whole list of headers again (adding *)
(* sw8 to it is commented out), so the hooks keep a copy of what the       *)
(* script set, in curl_cache, by the number of the handle.  The number of  *)
(* a handle that is gone is given to the next one; and PHP's               *)
(* curl_copy_handle and curl_reset, which change a handle's headers too,   *)
(* have no hook.                                                           *)
(*                                                                         *)
(* The names are this module's own: RequestProofs extends it and Request.  *)
(***************************************************************************)

CONSTANTS
    Number,     \* the numbers of handles: Z_OBJ_HANDLE, or Z_RES_HANDLE
    Headers,    \* the lists of headers a script sets
    NoHeaders,  \* the empty list, which a new handle has
    NotAList,   \* a value that is not an array
    Uncached    \* no entry in the cache

ASSUME CurlPluginAssumption ==
    /\ NoHeaders # NotAList /\ NoHeaders # Uncached /\ NotAList # Uncached
    /\ {NoHeaders, NotAList, Uncached} \cap Headers = {}

VARIABLES
    php8,        \* curl_close leaves the handle usable
    handles,     \* numbers in use
    option,      \* CURLOPT_HTTPHEADER of each handle, in libcurl
    cached,      \* SKYWALKING_G(curl_cache): the copy the hooks keep
    wanted,      \* history: the headers the script gave each handle
    deceived,    \* history: handles whose copy is known to be another's or old
    transfer     \* the last transfer

curlVars == <<php8, handles, option, cached, wanted, deceived, transfer>>

CurlInit ==
    /\ php8 \in BOOLEAN
    /\ handles = {}
    /\ option = [n \in Number |-> NoHeaders]
    /\ cached = [n \in Number |-> Uncached]
    /\ wanted = [n \in Number |-> NoHeaders]
    /\ deceived = {}
    /\ transfer = [sent |-> NoHeaders, wanted |-> NoHeaders, deceived |-> FALSE]

Deceive(n, condition) ==
    deceived' = IF condition THEN deceived \union {n} ELSE deceived \ {n}

\* The handle gets a list without the hooks.
Gets(n, list) ==
    /\ option' = [option EXCEPT ![n] = list]
    /\ wanted' = [wanted EXCEPT ![n] = list]

\* curl_setopt_array makes its copy before PHP looks at the options.
CacheOnFailure(n, value) == cached' = [cached EXCEPT ![n] = value]

-----------------------------------------------------------------------------
\* curl_init.
Create(n) ==
    /\ n \notin handles
    /\ handles' = handles \union {n}
    /\ Gets(n, NoHeaders)
    /\ Deceive(n, cached[n] # Uncached)
    /\ UNCHANGED <<php8, cached, transfer>>

\* Mutant of Setopt: an entry is not overwritten.
SetoptOnce(n, list) ==
    /\ n \in handles
    /\ cached' = [cached EXCEPT ![n] = IF @ = Uncached THEN list ELSE @]
    /\ Gets(n, list)
    /\ Deceive(n, FALSE)
    /\ UNCHANGED <<php8, handles, transfer>>

\* curl_setopt(CURLOPT_HTTPHEADER), or curl_setopt_array with it, with a list.
Setopt(n, list) ==
    /\ n \in handles
    /\ cached' = [cached EXCEPT ![n] = list]
    /\ Gets(n, list)
    /\ Deceive(n, FALSE)
    /\ UNCHANGED <<php8, handles, transfer>>

\* curl_setopt_array stops at an option before the headers, or at headers
\* that are not a list.
SetoptArrayFails(n, value) ==
    /\ n \in handles
    /\ CacheOnFailure(n, value)
    /\ Deceive(n, n \in deceived \/ value # NotAList)
    /\ UNCHANGED <<php8, handles, option, wanted, transfer>>

\* Mutant of ListToSet: the entry is set as it is.
ListAsCached(n) == cached[n]

\* The list in force after the hook has set its own: an empty one for a handle
\* without an entry; what is not a list is refused by curl_setopt.
ListToSet(n) ==
    CASE cached[n] = Uncached -> NoHeaders
      [] cached[n] = NotAList -> option[n]
      [] OTHER -> cached[n]

\* curl_exec.  Only http and https transfers are recorded, and have their
\* headers set.
Exec(n, recorded) ==
    /\ n \in handles
    /\ LET list == IF recorded THEN ListToSet(n) ELSE option[n] IN
          /\ option' = [option EXCEPT ![n] = list]
          /\ transfer' = [sent |-> list, wanted |-> wanted[n], deceived |-> n \in deceived]
    /\ UNCHANGED <<php8, handles, cached, wanted, deceived>>

\* curl_close: PHP 8 does nothing, before that the handle is gone.
Close(n) ==
    /\ n \in handles
    /\ cached' = [cached EXCEPT ![n] = Uncached]
    /\ handles' = IF php8 THEN handles ELSE handles \ {n}
    /\ Deceive(n, n \in deceived \/ wanted[n] # NoHeaders)
    /\ UNCHANGED <<php8, option, wanted, transfer>>

\* The script drops its last reference, without curl_close.
Drop(n) ==
    /\ n \in handles
    /\ handles' = handles \ {n}
    /\ UNCHANGED <<php8, option, cached, wanted, deceived, transfer>>

\* curl_copy_handle and curl_reset, without a hook.
Copy(n, copy) ==
    /\ n \in handles /\ copy \notin handles
    /\ handles' = handles \union {copy}
    /\ option' = [option EXCEPT ![copy] = option[n]]
    /\ wanted' = [wanted EXCEPT ![copy] = wanted[n]]
    /\ Deceive(copy, n \in deceived \/ wanted[n] # NoHeaders \/ cached[copy] # Uncached)
    /\ UNCHANGED <<php8, cached, transfer>>

Reset(n) ==
    /\ n \in handles
    /\ Gets(n, NoHeaders)
    /\ Deceive(n, cached[n] # Uncached)
    /\ UNCHANGED <<php8, handles, cached, transfer>>

HandleStep(n) ==
    \/ Create(n)
    \/ \E list \in Headers \union {NoHeaders} : Setopt(n, list)
    \/ \E value \in Headers \union {NotAList} : SetoptArrayFails(n, value)
    \/ \E recorded \in BOOLEAN : Exec(n, recorded)
    \/ Close(n)
    \/ Drop(n)
    \/ \E copy \in Number : Copy(n, copy)
    \/ Reset(n)

CurlNext == \E n \in Number : HandleStep(n)

CurlSpec == CurlInit /\ [][CurlNext]_curlVars

-----------------------------------------------------------------------------
Value == Headers \union {NoHeaders}

CurlTypeOK ==
    /\ php8 \in BOOLEAN
    /\ handles \subseteq Number
    /\ option \in [Number -> Value]
    /\ cached \in [Number -> Value \union {NotAList, Uncached}]
    /\ wanted \in [Number -> Value]
    /\ deceived \subseteq Number
    /\ transfer \in [sent : Value, wanted : Value, deceived : BOOLEAN]

\* A transfer goes out with the headers the script gave its handle, unless
\* the script used one of five things since it last set them: a handle with
\* the number of one that was dropped without curl_close, curl_copy_handle or
\* curl_reset, a handle after its curl_close, or a curl_setopt_array that
\* failed (sky_plugin_curl.c:86, 121, 169-225, 294).
HeadersAreTheScripts == ~transfer.deceived => transfer.sent = transfer.wanted

\* The hooks know what the handle has: the entry that the next curl_exec
\* will set is the list in libcurl, and both are what the script gave it.
CacheMirrorsHandle ==
    \A n \in handles \ deceived : ListToSet(n) = wanted[n] /\ option[n] = wanted[n]
=============================================================================
