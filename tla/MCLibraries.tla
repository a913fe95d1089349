---------------------------- MODULE MCLibraries ----------------------------
(***************************************************************************)
(* The libraries an application links, each on its own: a behaviour is one *)
(* of "library", and the others stay in their initial state.               *)
(***************************************************************************)
EXTENDS MemAlloc, Lists, AppStorage, AddressBook, TlvParser, TlvUseCases,
        CxCalls, CxHashes, CxCiphers, MlDsa, MlKem, StdCodecs, OsPrintf, StdApp, Ccid

VARIABLE library

-----------------------------------------------------------------------------
(* Lists: nodes with equal and with different values *)

MCValueOf == [n \in Nodes |-> n % 2]

(* Address book: a name or scope of one group that is a prefix of another's *)

MCNames == {<<1>>, <<2>>}
MCScopes == {<<1>>, <<1, 1>>}
MCNetworks == {<<1, 1>>}

(* ML-DSA: two parameter sets with rings of two coefficients; the seeds put *)
(* coefficients on both sides of the bounds that make a signature be tried  *)
(* again.                                                                   *)

MCMldsaParams ==
    {[gamma1 |-> 131072, gamma2 |-> 95232, eta |-> 2, tau |-> 2, beta |-> 4, omega |-> 1],
     [gamma1 |-> 524288, gamma2 |-> 261888, eta |-> 4, tau |-> 2, beta |-> 8, omega |-> 2]}

Edges(p) == {0, p.gamma2 - p.beta - 1, p.gamma2 - 2000, p.gamma2 + 3000, MLDSA_Q - 1,
             MLDSA_Q - p.gamma2 + p.beta - 1}
Secrets == {<< <<15, 0, 0, 1>>, <<4, 1, 3, 15>> >>, <<  <<2, 0, 15, 1>>, <<0, 8, 3, 15>> >> }

MCKeySeeds(p) ==
    {[rho |-> << << <<a, 8388607, b>>, <<1, 0, 5>> >>, << <<b, a, 1>>, <<1, 0, 0>> >> >>,
      s1 |-> s, s2 |-> << <<4, 0>>, s[2]>>] : a \in Edges(p), b \in Edges(p), s \in Secrets}

MCMasks(p, seed) ==
    {(0 :> <<p.gamma1 - 1, p.gamma1>> @@ 1 :> <<p.gamma1 + x, p.gamma1>> @@
      2 :> <<p.gamma1 + 1, p.gamma1>> @@ 3 :> <<p.gamma1 - x, p.gamma1 + 2>>) :
        x \in {0, p.gamma1 - p.beta, p.gamma1 - 1}}

MCChallenges == {[signs |-> g, buf |-> <<1, 0>>] : g \in {0, 2, 3}}
MCSigned == {[mode |-> "pure", ctx |-> <<1>>, body |-> <<9, 1>>]}
MCChecked == MCSigned \cup {[mode |-> "pure", ctx |-> <<>>, body |-> <<1, 9, 1>>],
                            [mode |-> "prehash", ctx |-> <<1>>, body |-> <<1>>]}

(* ML-KEM *)

MCKemParams == {[eta1 |-> 3, eta2 |-> 2, du |-> 10, dv |-> 4], [eta1 |-> 2, eta2 |-> 2, du |-> 11, dv |-> 5]}
Noises == {<< <<0, 3>>, <<12, 1>>, <<2, 4>>, <<8, 7>>, <<15, 3>> >>,
           << <<7, 56>>, <<63, 7>>, <<3, 12>>, <<12, 3>>, <<3, 12>> >>}
MCKemSeeds ==
    {[rho |-> << << <<4000, a, 3328>>, <<5, 4095, 1700>> >>, << <<1, b>>, <<832, 2496>> >> >>, noise |-> n] :
        a \in {0, 1664, 3328}, b \in {1, 1665, 3000}, n \in Noises}
MCKemMessages == {<<0, 0>>, <<0, 1>>, <<1, 0>>, <<1, 1>>}
MCKemCoins == {[m \in MCKemMessages |-> IF m[1] = 0 THEN n1 ELSE n2] : n1 \in Noises, n2 \in Noises}

(* Codecs *)

Long(n, a, b) == [i \in 1 .. n |-> IF i = 1 THEN a ELSE IF i = n THEN b ELSE i]
Item(type, v) == [type |-> type, value |-> v]
MCItems ==
    {Item("u8", <<7>>), Item("u16be", <<1, 2>>), Item("u16le", <<3, 4>>),
     Item("u32be", <<1, 2, 3, 4>>), Item("u32le", <<5, 6, 7, 8>>),
     Item("u64be", <<1, 2, 3, 4, 5, 6, 7, 8>>), Item("u64le", <<1, 2, 3, 4, 5, 6, 7, 255>>),
     Item("bytes", <<9, 8, 7>>), Item("path", <<<<44, 0, 0, 128>>>>),
     Item("path", <<<<44, 0, 0, 128>>, <<1, 0, 0, 0>>>>)} \cup
    {Item("varint", Wide(v)) : v \in {<<0>>, <<252>>, <<253>>, <<255>>, <<0, 1>>, <<255, 255>>,
                                      <<0, 0, 1>>, <<255, 255, 255, 255>>, <<0, 0, 0, 0, 1>>}}
MCIntegers ==
    {<<>>, <<0>>, <<1>>, <<127>>, <<128>>, <<0, 128>>, <<0, 1>>, <<255, 0>>, Long(32, 129, 0),
     Long(66, 1, 255), Long(66, 200, 3), Long(66, 0, 9), Long(60, 127, 5)}
MCDerBytes == {0, 1, 2, 3, 48, 127, 128, 129, 130, 132, 255}
Step(n, hard) == [n |-> n, hard |-> hard]
MCPaths == {<<>>, <<Step(44, TRUE)>>, <<Step(44, TRUE), Step(12, FALSE)>>}
MCApdus == {<<>>, <<1, 2, 3>>, <<1, 2, 3, 4>>, <<1, 2, 3, 4, 0>>, <<1, 2, 3, 4, 1>>,
            <<1, 2, 3, 4, 2, 5, 6>>, <<1, 2, 3, 4, 1, 5, 6>>}

(* printf: characters of one to four bytes, numbers at the word's limits *)

Conversion(op, value, neg, width, fill, text, n) ==
    [lit |-> <<>>, op |-> op, value |-> value, neg |-> neg, width |-> width, fill |-> fill,
     text |-> text, n |-> n]
Texts == {<<>>, <<1>>, <<1, 202, 100>>, <<203, 100, 100, 2>>, <<1, 204, 100, 100, 100>>}
Conversions ==
    {[Conversion(op, 0, FALSE, 0, FILL, <<>>, 3) EXCEPT !.lit = t] :
        op \in {"end", "*s", "bad"}, t \in Texts \ {<<>>}} \cup
    {Conversion("d", 25, TRUE, w, f, <<>>, 0) : w \in {0, 3, 6, 9}, f \in {0, FILL}} \cup
    {Conversion("u", v, FALSE, w, FILL, <<>>, 0) : v \in {0, 9, 10, 99, 100, 240, 255}, w \in {0, 5}} \cup
    {Conversion("x", v, FALSE, w, 0, <<>>, 0) : v \in {0, 16, 255}, w \in {0, 5}} \cup
    {Conversion("s", 0, FALSE, w, FILL, t, 0) : w \in {0, 4}, t \in Texts} \cup
    {Conversion(".*s", 0, FALSE, 0, FILL, t, n) : n \in {1, 2, 3}, t \in Texts} \cup
    {Conversion(".*H", 0, FALSE, 0, FILL, <<17, 34, 51>>, n) : n \in {2, 3}} \cup
    {Conversion("*s", 0, FALSE, 0, FILL, t, 2) : t \in {<<>>, <<1>>}} \cup
    {Conversion("c", 0, FALSE, 0, FILL, <<1>>, 0), Conversion("bad", 0, FALSE, 0, FILL, <<>>, 0)}
MCFormats == {<<d>> : d \in Conversions} \cup {<<d, e>> : d, e \in Conversions}
MCSources == Texts \cup {s \o t : s, t \in Texts}

(* Default APDUs, whole and cut, and a command of the application *)

MCStdCommands ==
    {<<>>, <<176>>, <<176, 1, 0, 0>>, <<176, 1, 1, 0>>, <<176, 2, 0, 0>>, <<176, 87, 1, 1>>,
     <<176, 87, 0, 2>>, <<176, 87, 0, 0, 1, 0>>, <<176, 167, 0, 0>>, <<176, 6, 1, 0>>,
     <<176, 6, 1, 0, 2, 5>>, <<176, 6, 1, 0, 1, 5>>, <<176, 16, 0, 0, 1, 5>>,
     <<176, 16, 0, 0, 0>>, <<176, 9, 0, 0>>, <<224, 1, 2, 2, 2, 2, 2>>}

(* CCID *)

Command(type, len, slot, seq, spec, v) ==
    [hdr |-> [type |-> type, len |-> len, slot |-> slot, seq |-> seq, spec |-> spec], v |-> v]
MCCcidCommands ==
    {Command("XFR_BLOCK", n, 0, 1, 0, "a") : n \in {0, 2, 6, 9}} \cup
    {Command("XFR_BLOCK", 1, 2, 1, 0, "a")} \cup
    {Command("SET_PARAMETERS", n, 0, 2, 0, v) : n \in {1, 2}, v \in {"a", "b", "c"}} \cup
    {Command("SET_PARAMETERS", 1, 0, 2, 1, "a")} \cup
    {Command("SECURE", 6, 0, 1, 0, v) : v \in {"a", "c"}} \cup {Command("SECURE", 6, 0, 1, 1, "a")} \cup
    {Command("ABORT", n, 0, seq, 0, "a") : n \in {0, 1}, seq \in {1, 2}} \cup
    {Command(type, 0, 0, 1, spec, "a") :
        type \in {"ICC_POWER_ON", "ICC_CLOCK", "T0_APDU", "MECHANICAL"}, spec \in {0, 1, 2}} \cup
    {Command(type, n, 0, 2, 0, "b") :
        type \in {"ICC_POWER_OFF", "GET_SLOT_STATUS", "GET_PARAMETERS", "RESET_PARAMETERS", "ESCAPE",
                  "SET_DR_CLK_FREQ", "UNKNOWN"}, n \in {0, 1}} \cup
    {Command(type, 6, 2, 1, 0, "b") : type \in {"GET_PARAMETERS", "ESCAPE"}}

-----------------------------------------------------------------------------
(* One library at a time *)

Parts == {"heap", "lists", "storage", "address book", "tlv", "use cases", "calls", "hashes",
          "ciphers", "mldsa", "mlkem", "codecs", "printf", "application", "ccid"}

Init ==
    /\ library \in Parts
    /\ HeapInit
    /\ ListInit /\ (library # "lists" => mem.doubly)
    /\ StorageInit /\ AbInit
    /\ TlvInit /\ (library # "tlv" => tlvPayload = <<>>)
    /\ UseCaseInit /\ (library # "use cases" => use = "trusted_name")
    /\ CxInit /\ HashInit /\ CipherInit /\ MldsaInit /\ KemInit /\ CodecInit /\ PrintInit
    /\ StdInit /\ CcidInit

Alone ==
    /\ UNCHANGED library
    /\ IF library = "heap" THEN TRUE ELSE UNCHANGED heapVars
    /\ IF library = "lists" THEN TRUE ELSE UNCHANGED listVars
    /\ IF library = "storage" THEN TRUE ELSE UNCHANGED storageVars
    /\ IF library = "address book" THEN TRUE ELSE UNCHANGED abVars
    /\ IF library = "tlv" THEN TRUE ELSE UNCHANGED tlvVars
    /\ IF library = "use cases" THEN TRUE ELSE UNCHANGED useCaseVars
    /\ IF library = "calls" THEN TRUE ELSE UNCHANGED cxVars
    /\ IF library = "hashes" THEN TRUE ELSE UNCHANGED hashVars
    /\ IF library = "ciphers" THEN TRUE ELSE UNCHANGED cipherVars
    /\ IF library = "mldsa" THEN TRUE ELSE UNCHANGED mldsaVars
    /\ IF library = "mlkem" THEN TRUE ELSE UNCHANGED kemVars
    /\ IF library = "codecs" THEN TRUE ELSE UNCHANGED codecVars
    /\ IF library = "printf" THEN TRUE ELSE UNCHANGED printVars
    /\ IF library = "application" THEN TRUE ELSE UNCHANGED stdVars
    /\ IF library = "ccid" THEN TRUE ELSE UNCHANGED ccidVars

Next ==
    \/ library = "heap" /\ HeapNext /\ Alone
    \/ library = "lists" /\ ListNext /\ Alone
    \/ library = "storage" /\ StorageNext /\ Alone
    \/ library = "address book" /\ AbNext /\ Alone
    \/ library = "tlv" /\ TlvNext /\ Alone
    \/ library = "use cases" /\ UseCaseNext /\ Alone
    \/ library = "calls" /\ CxNext /\ Alone
    \/ library = "hashes" /\ HashNext /\ Alone
    \/ library = "ciphers" /\ CipherNext /\ Alone
    \/ library = "mldsa" /\ MldsaNext /\ Alone
    \/ library = "mlkem" /\ KemNext /\ Alone
    \/ library = "codecs" /\ CodecNext /\ Alone
    \/ library = "printf" /\ PrintNext /\ Alone
    \/ library = "application" /\ StdNext /\ Alone
    \/ library = "ccid" /\ CcidNext /\ Alone

vars == <<library, heapVars, listVars, storageVars, abVars, tlvVars, useCaseVars, cxVars, hashVars,
          cipherVars, mldsaVars, kemVars, codecVars, printVars, stdVars, ccidVars>>

Spec == Init /\ [][Next]_vars
=============================================================================
