------------------------------ MODULE WireProofs ------------------------------
(***************************************************************************)
(* Proofs about the authenticator's answers and about what crosses the     *)
(* wire to it and from it: the chains of getNextAssertion (Assertions),    *)
(* and, of MCWire, the keys and signatures of credentials (CoseKeys), what *)
(* a device announces (Device), authorized sub-commands (AuthMessage), the *)
(* framed transports (Links) and the PIN protocols (PinProtocol).          *)
(***************************************************************************)
EXTENDS Assertions, MCWire, FiniteSetTheorems, SequenceTheorems, WellFoundedInduction, TLAPS

----------------------------------------------------------------------------
(* Sets of numbers and their ascending enumeration *)

LEMMA LeastNat ==
  ASSUME NEW T, T \subseteq Nat, T # {}
  PROVE  \E n \in T : \A m \in T : n <= m
<1> DEFINE Below == OpToRel(<, Nat)
<1>1. PICK n \in T : \A m \in T : ~(<<m, n>> \in Below)
  <2> HIDE DEF Below
  <2>1. IsWellFoundedOn(Below, Nat)
    BY NatLessThanWellFounded DEF Below
  <2> QED  BY <2>1, WFMin
<1>2. Below = {ss \in Nat \X Nat : ss[1] < ss[2]}
  BY DEF OpToRel
<1> HIDE DEF Below
<1>3. ASSUME NEW m \in T PROVE n <= m
  <2>1. m \in Nat /\ n \in Nat
    OBVIOUS
  <2>2. ASSUME m < n PROVE <<m, n>> \in Below
    BY <1>2, <2>1, <2>2
  <2> QED  BY <1>1, <2>1, <2>2
<1> QED
  BY <1>3

IsAscending(s, S) ==
    s \in [1 .. Cardinality(S) -> S] /\ \A i, j \in DOMAIN s : i < j => s[i] < s[j]

LEMMA BoundedFinite ==
  ASSUME NEW n \in Nat, NEW S \in SUBSET (1 .. n)
  PROVE  IsFiniteSet(S) /\ Cardinality(S) \in 0 .. n
<1>1. IsFiniteSet(1 .. n) /\ Cardinality(1 .. n) = n
  BY FS_Interval
<1>2. IsFiniteSet(S) /\ Cardinality(S) <= n
  BY <1>1, FS_Subset
<1> QED
  BY <1>2, FS_CardinalityType

\* A least bound under which the enumeration were missing cannot exist: without its
\* greatest element the set has one, and that element goes at its end.
LEMMA AscendingExists ==
  ASSUME NEW n \in Nat, NEW S \in SUBSET (1 .. n)
  PROVE  \E s : IsAscending(s, S)
<1> DEFINE Bad == {m \in Nat : \E T \in SUBSET (1 .. m) : \A s : ~IsAscending(s, T)}
<1>1. SUFFICES ASSUME Bad # {} PROVE FALSE
  OBVIOUS
<1>2. PICK m \in Bad : \A l \in Bad : m <= l
  BY <1>1, LeastNat
<1>3. PICK T \in SUBSET (1 .. m) : \A s : ~IsAscending(s, T)
  OBVIOUS
<1>4. IsFiniteSet(T) /\ Cardinality(T) \in Nat
  BY BoundedFinite
<1>5. CASE m \notin T
  <2>1. CASE m = 0
    <3>0. T = {}
      BY <2>1
    <3>1. T = {} /\ Cardinality(T) = 0
      BY <3>0, FS_EmptySet
    <3>2. IsAscending(<<>>, T)
      BY <3>1 DEF IsAscending
    <3> QED  BY <1>3, <3>2
  <2>2. CASE m > 0
    <3>1. m - 1 \in Nat /\ T \in SUBSET (1 .. (m - 1))
      BY <1>5, <2>2
    <3>2. m - 1 \in Bad
      BY <1>3, <3>1
    <3>3. m <= m - 1 /\ m \in Nat
      BY <1>2, <3>2
    <3> QED  BY <3>3
  <2> QED  BY <2>1, <2>2
<1>6. CASE m \in T
  <2> DEFINE U == T \ {m}
             n1 == Cardinality(T)
  <2>1. m > 0 /\ m - 1 \in Nat /\ U \in SUBSET (1 .. (m - 1))
    BY <1>6
  <2>2. m - 1 \notin Bad
    BY <1>2, <2>1
  <2>3. PICK s : IsAscending(s, U)
    BY <2>1, <2>2
  <2>4. Cardinality(U) = n1 - 1 /\ n1 \in Nat /\ n1 - 1 \in Nat
    <3>1. Cardinality(U) = n1 - 1
      BY <1>4, <1>6, FS_RemoveElement
    <3>2. Cardinality(U) \in Nat
      BY <2>1, BoundedFinite
    <3> QED  BY <1>4, <3>1, <3>2
  <2> DEFINE t == [i \in 1 .. n1 |-> IF i < n1 THEN s[i] ELSE m]
  <2>5. s \in [1 .. (n1 - 1) -> U] /\ \A i, j \in 1 .. (n1 - 1) : i < j => s[i] < s[j]
    BY <2>3, <2>4 DEF IsAscending
  <2>6. t \in [1 .. n1 -> T]
    BY <1>6, <2>4, <2>5
  <2>7. ASSUME NEW i \in 1 .. n1, NEW j \in 1 .. n1, i < j PROVE t[i] < t[j]
    <3>0. i \in 1 .. (n1 - 1) /\ i < n1
      BY <2>4, <2>7
    <3>1. i \in 1 .. (n1 - 1) /\ t[i] = s[i] /\ s[i] \in 1 .. (m - 1)
      BY <2>1, <2>5, <3>0
    <3>2. CASE j < n1
      <4>1. j \in 1 .. (n1 - 1) /\ t[j] = s[j]
        BY <2>4, <3>2
      <4> QED  BY <2>5, <2>7, <3>1, <4>1
    <3>3. CASE j = n1
      BY <2>4, <3>1, <3>3
    <3> QED  BY <2>4, <3>2, <3>3
  <2>8. IsAscending(t, T)
    BY <2>6, <2>7 DEF IsAscending
  <2> QED  BY <1>3, <2>8
<1> QED
  BY <1>5, <1>6

LEMMA AscendingIs ==
  ASSUME NEW n \in Nat, NEW S \in SUBSET (1 .. n)
  PROVE  /\ Cardinality(S) \in 0 .. n
         /\ Ascending(S) \in [1 .. Cardinality(S) -> S]
         /\ \A i, j \in 1 .. Cardinality(S) : i < j => Ascending(S)[i] < Ascending(S)[j]
<1>1. PICK s : IsAscending(s, S)
  BY AscendingExists
<1>2. \E a \in [1 .. Cardinality(S) -> S] : \A i, j \in DOMAIN a : i < j => a[i] < a[j]
  BY <1>1 DEF IsAscending
<1>3. /\ Ascending(S) \in [1 .. Cardinality(S) -> S]
      /\ \A i, j \in DOMAIN Ascending(S) : i < j => Ascending(S)[i] < Ascending(S)[j]
  BY <1>2 DEF Ascending
<1> QED
  BY <1>3, BoundedFinite
----------------------------------------------------------------------------
(* What find_matching_credentials returns *)

\* Stored credentials of the relying party that may be used, each named by a list that
\* is there, and only those the list names twice occur twice.
Sound(m, rp, allow_list, uv_satisfied) ==
    /\ m \in Seq(resident) /\ Len(m) <= CredCount
    /\ \A k \in 1 .. Len(m) :
          /\ RpOf[m[k]] = rp
          /\ \/ uv_satisfied \/ Protect[m[k]] = 1
             \/ Protect[m[k]] = 2 /\ Listed(m[k], allow_list)
    /\ \A i, j \in 1 .. Len(m) : i < j /\ m[i] = m[j] => ListedTwice(m[i], allow_list)

LEMMA FunctionIsSequence ==
  ASSUME NEW n \in Nat, NEW S, NEW f \in [1 .. n -> S]
  PROVE  f \in Seq(S) /\ Len(f) = n /\ DOMAIN f = 1 .. n
<1>1. f \in Seq(S)
  BY SeqDef
<1>2. DOMAIN f = 1 .. n /\ DOMAIN f = 1 .. Len(f) /\ Len(f) \in Nat
  BY <1>1, LenProperties
<1> QED
  BY <1>1, <1>2

LEMMA DiscoveredSound ==
  ASSUME ConstantsOK, TypeOK, NEW rp, NEW allow_list \in AllowLists, NEW uv_satisfied
  PROVE  Sound(Discovered(rp, uv_satisfied), rp, allow_list, uv_satisfied)
<1> DEFINE S == {c \in resident : RpOf[c] = rp /\ is_cred_protect_allowed(c, uv_satisfied, FALSE)}
           n == Cardinality(S)
           m == Ascending(S)
<1>1. CredCount \in Nat /\ S \in SUBSET (1 .. CredCount)
  BY DEF ConstantsOK, TypeOK, Creds
<1>2. /\ n \in 0 .. CredCount /\ m \in [1 .. n -> S]
      /\ \A i, j \in 1 .. n : i < j => m[i] < m[j]
  BY <1>1, AscendingIs
<1>3. Discovered(rp, uv_satisfied) = m
  BY DEF Discovered
<1> HIDE DEF m, n
<1>4. m \in Seq(resident) /\ Len(m) = n /\ n <= CredCount
  <2>0. S \subseteq resident
    OBVIOUS
  <2> HIDE DEF S
  <2>1. m \in [1 .. n -> resident] /\ n \in Nat
    BY <1>2, <2>0
  <2> QED  BY <1>1, <1>2, <2>1, FunctionIsSequence
<1>5. ASSUME NEW k \in 1 .. n
      PROVE  RpOf[m[k]] = rp /\ (uv_satisfied \/ Protect[m[k]] = 1)
  <2>1. m[k] \in S
    BY <1>2
  <2> QED  BY <2>1 DEF is_cred_protect_allowed
<1>6. ASSUME NEW i \in 1 .. n, NEW j \in 1 .. n, i < j PROVE m[i] # m[j]
  <2> HIDE DEF S
  <2>0. m[i] \in 1 .. CredCount
    BY <1>1, <1>2
  <2>1. m[i] < m[j] /\ m[i] \in Nat
    BY <1>1, <1>2, <1>6, <2>0
  <2> QED  BY <2>1
<1> QED
  BY <1>3, <1>4, <1>5, <1>6 DEF Sound

LEMMA NamedSound ==
  ASSUME ConstantsOK, TypeOK, NEW rp, NEW allow_list \in AllowLists, NEW uv_satisfied
  PROVE  /\ Sound(Named(rp, allow_list, uv_satisfied), rp, allow_list, uv_satisfied)
         /\ allow_list = <<>> => DOMAIN Named(rp, allow_list, uv_satisfied) = {}
<1> DEFINE P == {i \in DOMAIN allow_list :
                    /\ allow_list[i] \in resident /\ RpOf[allow_list[i]] = rp
                    /\ is_cred_protect_allowed(allow_list[i], uv_satisfied, TRUE)}
           n == Cardinality(P)
           places == Ascending(P)
           m == [k \in DOMAIN places |-> allow_list[places[k]]]
<1>0. /\ CredCount \in Nat /\ allow_list \in Seq(Creds) /\ Len(allow_list) <= CredCount
      /\ Len(allow_list) \in Nat /\ DOMAIN allow_list = 1 .. Len(allow_list)
  BY DEF ConstantsOK
<1>1. P \in SUBSET (1 .. Len(allow_list))
  BY <1>0
<1>2. /\ n \in 0 .. Len(allow_list) /\ places \in [1 .. n -> P]
      /\ \A i, j \in 1 .. n : i < j => places[i] < places[j]
  BY <1>0, <1>1, AscendingIs
<1>3. Named(rp, allow_list, uv_satisfied) = m
  BY DEF Named
<1>4. DOMAIN places = 1 .. n
  BY <1>2
<1> HIDE DEF n, places
<1>5. ASSUME NEW k \in 1 .. n
      PROVE  /\ places[k] \in DOMAIN allow_list /\ m[k] = allow_list[places[k]]
             /\ m[k] \in resident /\ RpOf[m[k]] = rp
             /\ uv_satisfied \/ Protect[m[k]] = 1 \/ Protect[m[k]] = 2
             /\ Listed(m[k], allow_list)
  <2>1. places[k] \in P /\ m[k] = allow_list[places[k]]
    BY <1>2, <1>4
  <2> QED  BY <2>1 DEF is_cred_protect_allowed, Listed
<1>6. m \in [1 .. n -> resident]
  BY <1>4, <1>5
<1>7. m \in Seq(resident) /\ Len(m) = n /\ n <= CredCount /\ DOMAIN m = 1 .. n
  <2>1. n \in Nat /\ n <= CredCount
    BY <1>0, <1>2
  <2> QED  BY <1>6, <2>1, FunctionIsSequence
<1>8. ASSUME NEW i \in 1 .. n, NEW j \in 1 .. n, i < j, m[i] = m[j]
      PROVE  ListedTwice(m[i], allow_list)
  <2>1. places[i] < places[j]
    BY <1>2, <1>8
  <2> QED  BY <1>5, <1>8, <2>1 DEF ListedTwice
<1>9. allow_list = <<>> => DOMAIN m = {}
  <2>1. ASSUME allow_list = <<>> PROVE n = 0
    BY <1>0, <1>2, <2>1
  <2> QED  BY <1>7, <2>1
<1> HIDE DEF m
<1> QED
  BY <1>3, <1>5, <1>7, <1>8, <1>9 DEF Sound

LEMMA MatchingSound ==
  ASSUME ConstantsOK, TypeOK, NEW rp, NEW allow_list \in AllowLists, NEW uv_satisfied
  PROVE  Sound(find_matching_credentials(rp, allow_list, uv_satisfied),
               rp, allow_list, uv_satisfied)
  BY DiscoveredSound, NamedSound DEF find_matching_credentials

\* GetAssertion answers with the first of the chain it starts.
LEMMA CandidatesSound ==
  ASSUME ConstantsOK, TypeOK, NEW rp, NEW allow_list \in AllowLists, NEW uv_satisfied,
         DOMAIN Candidates(rp, allow_list, uv_satisfied) # {}
  PROVE  LET s == Candidates(rp, allow_list, uv_satisfied)
             m == find_matching_credentials(rp, allow_list, uv_satisfied)
         IN  /\ Sound(s, rp, allow_list, uv_satisfied) /\ 1 \in 1 .. Len(s)
             /\ Len(m) > 1 => m[1] = s[1]
<1> DEFINE s == Candidates(rp, allow_list, uv_satisfied)
           named == Named(rp, allow_list, uv_satisfied)
           found == Discovered(rp, uv_satisfied)
           m == find_matching_credentials(rp, allow_list, uv_satisfied)
<1>1. Sound(named, rp, allow_list, uv_satisfied) /\ Sound(found, rp, allow_list, uv_satisfied)
  BY NamedSound, DiscoveredSound
<1>2. allow_list = <<>> => DOMAIN named = {}
  BY NamedSound
<1>3. s = IF DOMAIN named # {} THEN named ELSE found
  BY DEF Candidates
<1>4. m = IF allow_list = <<>> THEN found ELSE named
  BY DEF find_matching_credentials
<1>5. DOMAIN s # {}
  OBVIOUS
<1> HIDE DEF s, named, found, m
<1>6. ASSUME NEW q, Sound(q, rp, allow_list, uv_satisfied)
      PROVE  Len(q) \in Nat /\ DOMAIN q = 1 .. Len(q)
  BY <1>6, LenProperties DEF Sound
<1>7. Sound(s, rp, allow_list, uv_satisfied) /\ 1 \in 1 .. Len(s)
  BY <1>1, <1>3, <1>5, <1>6
<1>8. Len(m) > 1 => m[1] = s[1]
  <2>1. CASE allow_list = <<>>
    BY <1>2, <1>3, <1>4, <2>1
  <2>2. CASE allow_list # <<>>
    BY <1>1, <1>3, <1>4, <1>6, <2>2
  <2> QED  BY <2>1, <2>2
<1> QED
  BY <1>7, <1>8 DEF s, m

----------------------------------------------------------------------------
(* The inductive invariant *)

\* alwaysUv is only switched on with a PIN, and a Reset removes it last.
AlwaysUvHasPin ==
    /\ clearing = None /\ ~torn => (always_uv => pin_set)
    /\ clearing # None /\ AlwaysUvKey \notin clearing => ~always_uv

\* A chain's credProtect state is its UV flag.
ChainVerified ==
    LET chain == get_next_assertion_state
    IN  chain # None /\ ~torn => (chain.uv_satisfied <=> chain.uv)

\* What an undisturbed chain has served comes before its index.
ServedBefore ==
    LET chain == get_next_assertion_state
        m == find_matching_credentials(chain.rp_id, chain.allow_list, chain.uv_satisfied)
    IN  chain # None /\ clearing = None /\ ~disturbed =>
            \A c \in served : \E k \in 1 .. Len(m) : k <= chain.current_index /\ m[k] = c

\* The last answer kept the promises.
AnswerKept == ProtectedNeedsUv /\ ChainServesOnce /\ SecretFollowsFlag

Inv == TypeOK /\ AlwaysUvHasPin /\ ChainVerified /\ ServedBefore /\ SessionInsideItsChain
       /\ AnswerKept

LEMMA InitInv == ASSUME ConstantsOK PROVE Init => Inv
<1> SUFFICES ASSUME Init PROVE Inv
  OBVIOUS
<1>1. TypeOK
  BY Zenon DEF Init, TypeOK
<1>2. AlwaysUvHasPin /\ ChainVerified /\ ServedBefore /\ SessionInsideItsChain /\ AnswerKept
  BY DEF Init, AlwaysUvHasPin, ChainVerified, ServedBefore, SessionInsideItsChain,
         AnswerKept, ProtectedNeedsUv, ChainServesOnce, SecretFollowsFlag
<1> QED
  BY <1>1, <1>2 DEF Inv

LEMMA SameMatching ==
  ASSUME UNCHANGED resident, NEW rp, NEW allow_list, NEW uv_satisfied
  PROVE  find_matching_credentials(rp, allow_list, uv_satisfied)'
           = find_matching_credentials(rp, allow_list, uv_satisfied)
  BY DEF find_matching_credentials, Discovered, Named, is_cred_protect_allowed

\* A chain that is left alone, with its credentials or with the mark that they changed.
LEMMA ServedKept ==
  ASSUME ServedBefore, UNCHANGED <<get_next_assertion_state, served>>, clearing = None,
         UNCHANGED <<resident, disturbed>> \/ disturbed' = TRUE
  PROVE  ServedBefore'
<1>1. CASE disturbed' = TRUE
  BY <1>1 DEF ServedBefore
<1>2. CASE UNCHANGED <<resident, disturbed>>
  <2> DEFINE chain == get_next_assertion_state
             m == find_matching_credentials(chain.rp_id, chain.allow_list, chain.uv_satisfied)
  <2>1. m' = m
    BY <1>2, SameMatching
  <2>2. chain' = chain /\ served' = served /\ disturbed' = disturbed
    BY <1>2
  <2> HIDE DEF m
  <2> QED  BY <2>1, <2>2 DEF ServedBefore, m
<1> QED
  BY <1>1, <1>2

\* A chain that begins or moves on.
LEMMA ServedStep ==
  ASSUME UNCHANGED resident, NEW chain, get_next_assertion_state' = chain,
         NEW m, m = find_matching_credentials(chain.rp_id, chain.allow_list, chain.uv_satisfied),
         ~disturbed' =>
            \A c \in served' : \E k \in 1 .. Len(m) : k <= chain.current_index /\ m[k] = c
  PROVE  ServedBefore'
<1>1. m = find_matching_credentials(chain.rp_id, chain.allow_list, chain.uv_satisfied)'
  BY SameMatching
<1> QED
  BY <1>1 DEF ServedBefore

LEMMA Unanswered == response' = None => AnswerKept'
  BY DEF AnswerKept, ProtectedNeedsUv, ChainServesOnce, SecretFollowsFlag

\* Every command but GetAssertion and GetNextAssertion.
LEMMA OtherCommands ==
  ASSUME ConstantsOK, Inv, TypeOK', process_command, response' = None,
         UNCHANGED <<get_next_assertion_state, served>>,
         UNCHANGED <<resident, disturbed>> \/ disturbed' = TRUE,
         always_uv' /\ ~torn => pin_set',
         clearing' # None => AlwaysUvKey \in clearing'
  PROVE  Inv'
<1>1. clearing = None /\ hmac_secret_session' = None /\ torn' = torn
  BY DEF process_command, SessionOnEntry
<1>2. AlwaysUvHasPin'
  BY <1>1 DEF AlwaysUvHasPin
<1>3. ChainVerified'
  BY <1>1 DEF Inv, ChainVerified
<1>4. ServedBefore'
  BY <1>1, ServedKept DEF Inv
<1>5. SessionInsideItsChain'
  BY <1>1 DEF SessionInsideItsChain
<1> QED
  BY <1>2, <1>3, <1>4, <1>5, Unanswered DEF Inv

LEMMA MakeCredentialInv ==
  ASSUME ConstantsOK, Inv, NEW c \in Creds, NEW uv \in BOOLEAN, NEW pin_authenticated \in BOOLEAN,
         make_credential(c, uv, pin_authenticated)
  PROVE  Inv'
<1> USE DEF make_credential, process_command, SessionOnEntry
<1>1. TypeOK'
  BY Zenon DEF Inv, TypeOK
<1>2. always_uv' /\ ~torn => pin_set'
  BY DEF Inv, AlwaysUvHasPin
<1> QED
  BY <1>1, <1>2, OtherCommands

LEMMA DeleteInv ==
  ASSUME ConstantsOK, Inv, NEW c \in Creds, handle_cred_mgmt_delete_credential(c)
  PROVE  Inv'
<1> USE DEF handle_cred_mgmt_delete_credential, process_command, SessionOnEntry
<1>1. TypeOK'
  BY Zenon DEF Inv, TypeOK
<1>2. always_uv' /\ ~torn => pin_set'
  BY DEF Inv, AlwaysUvHasPin
<1> QED
  BY <1>1, <1>2, OtherCommands

LEMMA PinCommandInv ==
  ASSUME ConstantsOK, Inv,
         \/ FailHmac \/ toggle_always_uv \/ SetPin \/ handle_get_key_agreement \/ OtherCommand
  PROVE  Inv'
<1> USE DEF process_command, SessionOnEntry
<1>1. CASE FailHmac
  <2>1. TypeOK'
    BY <1>1, Zenon DEF FailHmac, persistent, ghosts, Inv, TypeOK
  <2>2. always_uv' /\ ~torn => pin_set'
    BY <1>1 DEF FailHmac, persistent, Inv, AlwaysUvHasPin
  <2> QED  BY <1>1, <2>1, <2>2, OtherCommands DEF FailHmac, persistent, ghosts
<1>2. CASE toggle_always_uv
  <2>1. TypeOK'
    BY <1>2, Zenon DEF toggle_always_uv, ghosts, Inv, TypeOK
  <2> QED  BY <1>2, <2>1, OtherCommands DEF toggle_always_uv, ghosts
<1>3. CASE SetPin
  <2>1. TypeOK'
    BY <1>3, Zenon DEF SetPin, ghosts, Inv, TypeOK
  <2> QED  BY <1>3, <2>1, OtherCommands DEF SetPin, ghosts
<1>4. CASE handle_get_key_agreement
  <2>1. TypeOK'
    BY <1>4, Zenon DEF handle_get_key_agreement, persistent, ghosts, Inv, TypeOK
  <2>2. always_uv' /\ ~torn => pin_set'
    BY <1>4 DEF handle_get_key_agreement, persistent, Inv, AlwaysUvHasPin
  <2> QED  BY <1>4, <2>1, <2>2, OtherCommands DEF handle_get_key_agreement, persistent, ghosts
<1>5. CASE OtherCommand
  <2>1. TypeOK'
    BY <1>5, Zenon DEF OtherCommand, persistent, ghosts, Inv, TypeOK
  <2>2. always_uv' /\ ~torn => pin_set'
    BY <1>5 DEF OtherCommand, persistent, Inv, AlwaysUvHasPin
  <2> QED  BY <1>5, <2>1, <2>2, OtherCommands DEF OtherCommand, persistent, ghosts
<1> QED
  BY <1>1, <1>2, <1>3, <1>4, <1>5

LEMMA IssueTokenInv ==
  ASSUME ConstantsOK, Inv, NEW use \in Uses, NEW rp \in Rps \cup {NoRp}, IssueToken(use, rp)
  PROVE  Inv'
<1> USE DEF IssueToken, process_command, SessionOnEntry, persistent, ghosts
<1>1. pin_uv_auth_token' \in Tokens
  BY DEF Tokens
<1>2. TypeOK'
  BY <1>1, Zenon DEF Inv, TypeOK
<1>3. always_uv' /\ ~torn => pin_set'
  BY DEF Inv, AlwaysUvHasPin
<1> QED
  BY <1>2, <1>3, OtherCommands

LEMMA ResetInv ==
  ASSUME ConstantsOK, Inv, handle_reset
  PROVE  Inv'
<1> USE DEF handle_reset, process_command, SessionOnEntry, persistent, ghosts
<1>1. clearing' \subseteq ResetKeys
  BY DEF Inv, TypeOK, ResetKeys, PinKey, AlwaysUvKey, Creds, ConstantsOK
<1>2. TypeOK'
  BY <1>1, Zenon DEF Inv, TypeOK
<1>3. always_uv' /\ ~torn => pin_set'
  BY DEF Inv, AlwaysUvHasPin
<1> QED
  BY <1>2, <1>3, OtherCommands

LEMMA ClearKeyInv ==
  ASSUME ConstantsOK, Inv, NEW k \in ResetKeys, ClearKey(k)
  PROVE  Inv'
<1> USE DEF ClearKey, volatile, ghosts
<1>1. clearing \subseteq ResetKeys /\ clearing # None
  BY DEF Inv, TypeOK
<1>2. clearing' \subseteq ResetKeys /\ clearing' # None
  BY <1>1 DEF ConstantsOK
<1>3. pin_set' \in BOOLEAN /\ always_uv' \in BOOLEAN
  BY Zenon
<1>4. TypeOK'
  BY <1>2, <1>3, Zenon DEF Inv, TypeOK
<1>5. AlwaysUvHasPin'
  <2>1. ASSUME AlwaysUvKey \notin clearing' PROVE ~always_uv'
    BY <1>1, <2>1 DEF Inv, AlwaysUvHasPin
  <2> QED  BY <1>2, <2>1 DEF AlwaysUvHasPin
<1>6. ChainVerified' /\ SessionInsideItsChain'
  BY DEF Inv, ChainVerified, SessionInsideItsChain
<1>7. ServedBefore'
  BY <1>2 DEF ServedBefore
<1>8. AnswerKept'
  BY DEF Inv, AnswerKept, ProtectedNeedsUv, ChainServesOnce, SecretFollowsFlag
<1> QED
  BY <1>4, <1>5, <1>6, <1>7, <1>8 DEF Inv

LEMMA ForgetInv ==
  ASSUME ConstantsOK, Inv, Forget, torn' \in BOOLEAN, always_uv /\ ~torn' => pin_set
  PROVE  Inv'
<1> USE DEF Forget, persistent, ghosts
<1>1. TypeOK'
  BY Zenon DEF Inv, TypeOK
<1>2. AlwaysUvHasPin' /\ ChainVerified' /\ SessionInsideItsChain' /\ ServedBefore'
  BY DEF AlwaysUvHasPin, ChainVerified, SessionInsideItsChain, ServedBefore
<1> QED
  BY <1>1, <1>2, Unanswered DEF Inv

\* A finished Reset has removed alwaysUv; one cut short leaves the mark.
LEMMA ForgetStepsInv ==
  ASSUME ConstantsOK, Inv, FinishReset \/ PowerCycle
  PROVE  Inv'
<1>1. CASE FinishReset
  <2>1. ~always_uv
    BY <1>1 DEF FinishReset, ConstantsOK, Inv, AlwaysUvHasPin
  <2> QED  BY <1>1, <2>1, ForgetInv DEF FinishReset
<1>2. CASE PowerCycle
  <2>1. torn' \in BOOLEAN
    BY <1>2, Zenon DEF PowerCycle
  <2>2. always_uv /\ ~torn' => pin_set
    BY <1>2 DEF PowerCycle, Inv, AlwaysUvHasPin
  <2> QED  BY <1>2, <2>1, <2>2, ForgetInv DEF PowerCycle
<1> QED
  BY <1>1, <1>2

\* An answer for a sound match, under the UV flag its credProtect state stands for.
LEMMA AnswerSound ==
  ASSUME ConstantsOK, Inv, NEW c \in Creds, NEW rp \in Rps, NEW allow_list \in AllowLists,
         NEW client \in Clients, NEW uv \in BOOLEAN, NEW uv_satisfied \in BOOLEAN,
         NEW verified \in BOOLEAN, NEW session \in Clients \cup {None}, NEW repeated \in BOOLEAN,
         response' = Answer(c, rp, allow_list, client, uv, CredRandom(session, verified), session,
                            repeated),
         RpOf[c] = rp, torn' = torn, repeated => disturbed',
         uv_satisfied \/ Protect[c] = 1 \/ (Protect[c] = 2 /\ Listed(c, allow_list)),
         ~torn => (uv_satisfied => uv) /\ (verified <=> uv),
         session \in {None, client}
  PROVE  /\ response' \in Responses /\ AnswerKept'
         /\ response'.session \in {None, response'.client_data_hash}
<1>1. /\ response'.id = c /\ response'.rp_id = rp /\ response'.uv = uv
      /\ response'.listed = Listed(c, allow_list) /\ response'.session = session
      /\ response'.client_data_hash = client /\ response'.repeated = repeated
      /\ response'.secret = CredRandom(session, verified)
  BY DEF Answer
<1>2. /\ session = None => CredRandom(session, verified) = "none"
      /\ session # None /\ verified => CredRandom(session, verified) = "with_uv"
      /\ session # None /\ ~verified => CredRandom(session, verified) = "without_uv"
  BY DEF CredRandom
<1>3. CredRandom(session, verified) \in {"none", "with_uv", "without_uv"}
  BY <1>2
<1>4. Listed(c, allow_list) \in BOOLEAN
  BY Zenon DEF Listed
<1>5. response' \in Responses
  BY <1>3, <1>4 DEF Answer, Responses
<1>6. ProtectedNeedsUv'
  BY <1>1 DEF ProtectedNeedsUv
<1>7. ChainServesOnce'
  BY <1>1 DEF ChainServesOnce
<1>8. SecretFollowsFlag'
  BY <1>1, <1>2 DEF SecretFollowsFlag
<1> QED
  BY <1>1, <1>5, <1>6, <1>7, <1>8 DEF AnswerKept

LEMMA GetAssertionInv ==
  ASSUME ConstantsOK, Inv, NEW rp \in Rps, NEW allow_list \in AllowLists, NEW client \in Clients,
         NEW uv \in BOOLEAN, NEW pin_authenticated \in BOOLEAN, NEW hmac \in BOOLEAN,
         get_assertion(rp, allow_list, client, uv, pin_authenticated, hmac)
  PROVE  Inv'
<1> DEFINE uv_satisfied == cred_protect_uv_satisfied(pin_authenticated)
           candidates == Candidates(rp, allow_list, uv_satisfied)
           m == find_matching_credentials(rp, allow_list, uv_satisfied)
           c == candidates[1]
           session == IF hmac /\ HasSecret[c] THEN client ELSE None
           chain == [rp_id |-> rp, allow_list |-> allow_list, client_data_hash |-> client,
                     uv |-> pin_authenticated, hmac |-> hmac, uv_satisfied |-> uv_satisfied,
                     current_index |-> 1]
<1>1. /\ clearing = None /\ clearing' = None /\ torn' = torn
      /\ UvGates(uv, pin_authenticated) /\ DOMAIN candidates # {}
      /\ begin_session(c, hmac, client)
      /\ response' = Answer(c, rp, allow_list, client, pin_authenticated,
                            CredRandom(session, pin_authenticated), session, FALSE)
      /\ UNCHANGED <<resident, pin_set, always_uv, pin_uv_auth_token>>
  BY DEF get_assertion, persistent
<1>2. \/ /\ Len(m) > 1 /\ get_next_assertion_state' = chain
         /\ hmac_secret_session' = session /\ served' = {c} /\ disturbed' = FALSE
      \/ /\ hmac_secret_session' = None
         /\ UNCHANGED <<get_next_assertion_state, served, disturbed>>
  BY DEF get_assertion, SessionOnEntry, ghosts
<1>3. TypeOK
  BY DEF Inv
<1>4. uv_satisfied \in BOOLEAN /\ (pin_authenticated => uv_satisfied)
  BY <1>3, Zenon DEF cred_protect_uv_satisfied, TypeOK
<1>5. ~torn => (uv_satisfied => pin_authenticated)
  BY <1>1 DEF cred_protect_uv_satisfied, UvGates, Inv, AlwaysUvHasPin
<1> HIDE DEF uv_satisfied
<1>6. /\ Sound(candidates, rp, allow_list, uv_satisfied) /\ 1 \in 1 .. Len(candidates)
      /\ Len(m) > 1 => m[1] = c
  BY <1>1, <1>3, CandidatesSound
<1>7. Sound(m, rp, allow_list, uv_satisfied)
  BY <1>3, MatchingSound
<1>8. /\ c \in Creds /\ RpOf[c] = rp
      /\ uv_satisfied \/ Protect[c] = 1 \/ (Protect[c] = 2 /\ Listed(c, allow_list))
  <2> HIDE DEF candidates
  <2>1. c \in resident
    BY <1>6 DEF Sound
  <2>2. c \in Creds
    BY <1>3, <2>1 DEF TypeOK
  <2>3. /\ RpOf[candidates[1]] = rp
        /\ \/ uv_satisfied \/ Protect[candidates[1]] = 1
           \/ Protect[candidates[1]] = 2 /\ Listed(candidates[1], allow_list)
    BY <1>6 DEF Sound
  <2> QED  BY <2>2, <2>3
<1>9. session \in {None, client} /\ session \in Clients \cup {None}
  OBVIOUS
<1> HIDE DEF c, session, m
<1>10. /\ response' \in Responses /\ AnswerKept'
       /\ response'.session \in {None, response'.client_data_hash}
  BY <1>1, <1>4, <1>5, <1>8, <1>9, AnswerSound
<1>11. pin_agreement_key' \in BOOLEAN
  BY <1>1, <1>3, Zenon DEF begin_session, TypeOK
<1>12. AlwaysUvHasPin'
  BY <1>1 DEF Inv, AlwaysUvHasPin
<1>13. CASE /\ Len(m) > 1 /\ get_next_assertion_state' = chain
            /\ hmac_secret_session' = session /\ served' = {c} /\ disturbed' = FALSE
  <2>1. 1 \in 1 .. Len(m) /\ 1 \in Creds /\ Len(m) \in Nat
    <3>1. Len(m) \in Nat /\ Len(m) <= CredCount
      BY <1>7, LenProperties DEF Sound
    <3> QED  BY <1>13, <3>1 DEF Creds, ConstantsOK
  <2>2. chain \in Chains
    BY <1>4, <2>1 DEF Chains
  <2>3. /\ chain.rp_id = rp /\ chain.allow_list = allow_list /\ chain.uv = pin_authenticated
        /\ chain.uv_satisfied = uv_satisfied /\ chain.current_index = 1
        /\ chain.client_data_hash = client
    OBVIOUS
  <2> HIDE DEF chain
  <2>4. TypeOK'
    <3>1. served' \subseteq Creds /\ disturbed' \in BOOLEAN
      BY <1>8, <1>13
    <3> QED
      BY <1>1, <1>3, <1>9, <1>10, <1>11, <1>13, <2>2, <3>1, Zenon DEF TypeOK
  <2>5. ChainVerified'
    BY <1>1, <1>4, <1>5, <1>13, <2>3 DEF ChainVerified
  <2>6. ServedBefore'
    <3>1. m = find_matching_credentials(chain.rp_id, chain.allow_list, chain.uv_satisfied)
      BY <2>3 DEF m
    <3>2. \A d \in served' : \E k \in 1 .. Len(m) : k <= chain.current_index /\ m[k] = d
      BY <1>6, <1>13, <2>1, <2>3
    <3> QED  BY <1>1, <1>13, <3>1, <3>2, ServedStep
  <2>7. SessionInsideItsChain'
    <3>1. chain # None
      BY <2>2 DEF ConstantsOK
    <3> QED  BY <1>9, <1>10, <1>13, <2>3, <3>1 DEF SessionInsideItsChain
  <2> QED  BY <1>10, <1>12, <2>4, <2>5, <2>6, <2>7 DEF Inv
<1>14. CASE /\ hmac_secret_session' = None
            /\ UNCHANGED <<get_next_assertion_state, served, disturbed>>
  <2>1. TypeOK'
    BY <1>1, <1>3, <1>10, <1>11, <1>14, Zenon DEF TypeOK
  <2>2. ChainVerified'
    BY <1>1, <1>14 DEF Inv, ChainVerified
  <2>3. ServedBefore'
    BY <1>1, <1>14, ServedKept DEF Inv
  <2>4. SessionInsideItsChain'
    BY <1>10, <1>14 DEF SessionInsideItsChain
  <2> QED  BY <1>10, <1>12, <2>1, <2>2, <2>3, <2>4 DEF Inv
<1> QED
  BY <1>2, <1>13, <1>14 DEF m, c, session

LEMMA GetNextAssertionInv ==
  ASSUME ConstantsOK, Inv, handle_get_next_assertion
  PROVE  Inv'
<1> DEFINE chain == get_next_assertion_state
           m == find_matching_credentials(chain.rp_id, chain.allow_list, chain.uv_satisfied)
           next == chain.current_index + 1
           c == m[next]
           session == IF chain.hmac /\ HasSecret[c] THEN hmac_secret_session ELSE None
           repeated == c \in served /\ ~ListedTwice(c, chain.allow_list)
<1>1. /\ clearing = None /\ clearing' = None /\ torn' = torn /\ chain # None
      /\ UNCHANGED <<resident, pin_set, always_uv, pin_uv_auth_token, pin_agreement_key,
                     disturbed>>
  BY DEF handle_get_next_assertion, persistent
<1>2. TypeOK /\ chain \in Chains
  BY <1>1 DEF Inv, TypeOK
<1>3. AlwaysUvHasPin'
  BY <1>1 DEF Inv, AlwaysUvHasPin
<1>4. \/ /\ get_next_assertion_state' = None /\ hmac_secret_session' = None
         /\ response' = None /\ UNCHANGED served
      \/ /\ next <= Len(m) /\ get_next_assertion_state' = Advanced(chain)
         /\ hmac_secret_session' \in {None, hmac_secret_session}
         /\ \/ /\ response' = Answer(c, chain.rp_id, chain.allow_list, chain.client_data_hash,
                                     chain.uv, CredRandom(session, chain.uv_satisfied), session,
                                     repeated)
               /\ served' = served \cup {c}
            \/ response' = None /\ UNCHANGED served
  BY DEF handle_get_next_assertion, EndChain
<1>5. CASE /\ get_next_assertion_state' = None /\ hmac_secret_session' = None
           /\ response' = None /\ UNCHANGED served
  <2>1. TypeOK'
    BY <1>1, <1>2, <1>5, Zenon DEF TypeOK
  <2>2. ChainVerified' /\ ServedBefore' /\ SessionInsideItsChain'
    BY <1>5 DEF ChainVerified, ServedBefore, SessionInsideItsChain
  <2> QED  BY <1>3, <1>5, <2>1, <2>2, Unanswered DEF Inv
<1>6. CASE /\ next <= Len(m) /\ get_next_assertion_state' = Advanced(chain)
           /\ hmac_secret_session' \in {None, hmac_secret_session}
           /\ \/ /\ response' = Answer(c, chain.rp_id, chain.allow_list, chain.client_data_hash,
                                       chain.uv, CredRandom(session, chain.uv_satisfied), session,
                                       repeated)
                 /\ served' = served \cup {c}
              \/ response' = None /\ UNCHANGED served
  <2>1. /\ chain.rp_id \in Rps /\ chain.allow_list \in AllowLists /\ chain.uv \in BOOLEAN
        /\ chain.uv_satisfied \in BOOLEAN /\ chain.client_data_hash \in Clients
        /\ chain.current_index \in Creds /\ next \in Nat /\ next >= 1
    BY <1>2 DEF Chains, Creds
  <2>2. Sound(m, chain.rp_id, chain.allow_list, chain.uv_satisfied)
    BY <1>2, <2>1, MatchingSound
  <2>3. ~torn => (chain.uv_satisfied <=> chain.uv)
    BY <1>1 DEF Inv, ChainVerified
  <2>4. hmac_secret_session \in {None, chain.client_data_hash}
    BY <1>1 DEF Inv, SessionInsideItsChain
  <2>5. hmac_secret_session \in Clients \cup {None}
    BY <1>2 DEF TypeOK
  <2>6. session \in {None, chain.client_data_hash} /\ session \in Clients \cup {None}
    BY <2>4, <2>5
  <2>7. ~disturbed => \A d \in served : \E k \in 1 .. Len(m) : k <= chain.current_index /\ m[k] = d
    BY <1>1 DEF Inv, ServedBefore
  <2>8. /\ next \in 1 .. Len(m) /\ next \in Creds /\ c \in Creds /\ RpOf[c] = chain.rp_id
        /\ \/ chain.uv_satisfied \/ Protect[c] = 1
           \/ Protect[c] = 2 /\ Listed(c, chain.allow_list)
    <3> HIDE DEF m, next
    <3>1. next \in 1 .. Len(m) /\ Len(m) <= CredCount /\ Len(m) \in Nat
      BY <1>6, <2>1, <2>2, LenProperties DEF Sound
    <3>2. c \in resident
      BY <2>2, <3>1 DEF Sound
    <3>3. c \in Creds
      BY <1>2, <3>2 DEF TypeOK
    <3>4. next \in Creds
      BY <3>1 DEF Creds, ConstantsOK
    <3> QED  BY <2>2, <3>1, <3>3, <3>4 DEF Sound
  <2>9. repeated => disturbed
    <3> SUFFICES ASSUME c \in served, ~disturbed PROVE ListedTwice(c, chain.allow_list)
      BY <1>2 DEF TypeOK
    <3>1. PICK k \in 1 .. Len(m) : k <= chain.current_index /\ m[k] = c
      BY <2>7
    <3>2. k < next
      BY <2>1, <3>1 DEF Creds
    <3> HIDE DEF m, next
    <3> QED  BY <2>2, <2>8, <3>1, <3>2 DEF Sound
  <2>10. repeated \in BOOLEAN
    BY Zenon
  <2>11. /\ Advanced(chain) \in Chains /\ Advanced(chain).current_index = next
         /\ Advanced(chain).rp_id = chain.rp_id /\ Advanced(chain).allow_list = chain.allow_list
         /\ Advanced(chain).uv_satisfied = chain.uv_satisfied /\ Advanced(chain).uv = chain.uv
         /\ Advanced(chain).client_data_hash = chain.client_data_hash
    BY <1>2, <2>8 DEF Advanced, Chains
  <2>12. /\ response' \in Responses \cup {None} /\ AnswerKept'
         /\ response' # None => response'.session \in {None, response'.client_data_hash}
    <3> HIDE DEF c, session, repeated
    <3>1. CASE response' = None
      BY <3>1, Unanswered
    <3>2. CASE response' = Answer(c, chain.rp_id, chain.allow_list, chain.client_data_hash,
                                  chain.uv, CredRandom(session, chain.uv_satisfied), session,
                                  repeated)
      <4>1. ~torn => (chain.uv_satisfied => chain.uv) /\ (chain.uv_satisfied <=> chain.uv)
        BY <2>3
      <4>2. torn' = torn /\ (repeated => disturbed')
        BY <1>1, <2>9
      <4> HIDE DEF chain
      <4>3. /\ response' \in Responses /\ AnswerKept'
            /\ response'.session \in {None, response'.client_data_hash}
        BY <2>1, <2>6, <2>8, <2>10, <3>2, <4>1, <4>2, AnswerSound
      <4> QED  BY <4>3
    <3> QED  BY <1>6, <3>1, <3>2
  <2>13. TypeOK'
    <3>1. served' \subseteq Creds
      BY <1>2, <1>6, <2>8 DEF TypeOK
    <3> QED  BY <1>1, <1>2, <1>6, <2>11, <2>12, <3>1, Zenon DEF TypeOK
  <2>14. ChainVerified'
    BY <1>1, <1>6, <2>3, <2>11 DEF ChainVerified
  <2>15. SessionInsideItsChain'
    BY <1>6, <2>4, <2>11, <2>12 DEF SessionInsideItsChain, ConstantsOK
  <2>16. ServedBefore'
    <3>1. ASSUME ~disturbed, NEW d \in served'
          PROVE  \E k \in 1 .. Len(m) : k <= next /\ m[k] = d
      BY <1>6, <2>1, <2>7, <2>8, <3>1 DEF Creds
    <3> DEFINE advanced == Advanced(chain)
    <3>2. m = find_matching_credentials(advanced.rp_id, advanced.allow_list,
                                        advanced.uv_satisfied)
      BY <2>11
    <3> HIDE DEF m, advanced
    <3> QED  BY <1>1, <1>6, <2>11, <3>1, <3>2, ServedStep DEF advanced
  <2> QED  BY <1>3, <2>12, <2>13, <2>14, <2>15, <2>16 DEF Inv
<1> QED
  BY <1>4, <1>5, <1>6

LEMMA NextInv == ASSUME ConstantsOK PROVE Inv /\ [Next]_vars => Inv'
<1> SUFFICES ASSUME Inv, [Next]_vars PROVE Inv'
  OBVIOUS
<1>1. CASE UNCHANGED vars
  <2>1. /\ UNCHANGED <<get_next_assertion_state, served, resident, disturbed>>
        /\ UNCHANGED <<clearing, torn, always_uv, pin_set, response, hmac_secret_session>>
    BY <1>1 DEF vars, persistent, volatile, ghosts
  <2>2. TypeOK'
    BY <1>1, Zenon DEF vars, persistent, volatile, ghosts, Inv, TypeOK
  <2>3. AlwaysUvHasPin' /\ ChainVerified' /\ SessionInsideItsChain'
    BY <2>1 DEF Inv, AlwaysUvHasPin, ChainVerified, SessionInsideItsChain
  <2>4. ServedBefore'
    <3>1. CASE clearing = None
      BY <2>1, <3>1, ServedKept DEF Inv
    <3>2. CASE clearing # None
      BY <2>1, <3>2 DEF ServedBefore
    <3> QED  BY <3>1, <3>2
  <2>5. AnswerKept'
    BY <2>1 DEF Inv, AnswerKept, ProtectedNeedsUv, ChainServesOnce, SecretFollowsFlag
  <2> QED  BY <2>2, <2>3, <2>4, <2>5 DEF Inv
<1>2. CASE Next
  BY <1>2, MakeCredentialInv, GetAssertionInv, GetNextAssertionInv, DeleteInv, PinCommandInv,
     IssueTokenInv, ResetInv, ClearKeyInv, ForgetStepsInv
     DEF Next, Uses
<1> QED
  BY <1>1, <1>2

LEMMA AlwaysInv == ASSUME ConstantsOK PROVE Spec => []Inv
  BY InitInv, NextInv, PTL DEF Spec

\* credProtect holds for every assertion, of any credentials and allowLists and in any
\* order of commands, resets and losses of power: without a verified token none of level
\* 3 is ever answered, and none of level 2 that the request did not name
\* (is_cred_protect_allowed, cred_protect_uv_satisfied).
THEOREM CredProtectHolds == ASSUME ConstantsOK PROVE Spec => []ProtectedNeedsUv
<1>1. Inv => ProtectedNeedsUv
  BY DEF Inv, AnswerKept
<1> QED
  BY <1>1, AlwaysInv, PTL

\* Chains of any length, interrupted by any other commands: no credential is served twice,
\* none of another relying party, and no hmac-secret output is made with the salts of
\* another request or the secret of the other UV state (handle_get_next_assertion).
THEOREM ChainsKeepTheirOwn == ASSUME ConstantsOK PROVE Spec => []ChainKeepsItsOwn
<1>1. Inv => ChainKeepsItsOwn
  BY DEF Inv, AnswerKept, ChainKeepsItsOwn
<1> QED
  BY <1>1, AlwaysInv, PTL

----------------------------------------------------------------------------
(* COSE keys (CoseKeys), for any offers and any number of firmware updates.  *)
(* What the properties say of an assertion and of a listed key follows from  *)
(* the credential alone, whose key pair and registered key are those of its  *)
(* algorithm, whichever build it is in now.                                  *)

KnownAlgs == {-7, -8, -35, -37, -257}

\* The key a relying party keeps for an algorithm.
KeyOf(alg) ==
  CASE alg = -7 -> CoseKeys!Cose(2, -7, 1, CoseKeys!generate_p256_key_pair.public, 32, 32)
    [] alg = -35 -> CoseKeys!Cose(2, -35, 2, CoseKeys!generate_p384_key_pair.public, 48, 48)
    [] alg = -37 -> CoseKeys!Cose(3, -37, 0, CoseKeys!generate_rsa_key_pair.public, 256, 3)
    [] alg = -257 -> CoseKeys!Cose(3, -257, 0, CoseKeys!generate_rsa_key_pair.public, 256, 3)
    [] OTHER -> CoseKeys!Cose(1, -8, 6, CoseKeys!generate_key_pair.public, 32, 0)

CredentialOf(alg) ==
  [algorithm |-> alg, private |-> CoseKeys!key_pair(alg).private,
   public |-> CoseKeys!key_pair(alg).public]

CoseInv ==
  /\ CoseKeys!TypeOK
  /\ credential # Absent => /\ credential = CredentialOf(credential.algorithm)
                            /\ registered = KeyOf(credential.algorithm)
                            /\ offered \in Offers
  /\ CoseKeys!AssertionVerifies /\ CoseKeys!PreferredAlgorithm /\ CoseKeys!ListedAsRegistered
  /\ listed # Absent => credential # Absent

\* The four generators.
LEMMA Generated ==
  /\ CoseKeys!generate_key_pair = [private |-> [format |-> "seed", len |-> 32],
                                   public |-> [format |-> "seed", len |-> 32]]
  /\ CoseKeys!generate_p256_key_pair = [private |-> [format |-> "p256", len |-> 138],
                                        public |-> [format |-> "p256", len |-> 65]]
  /\ CoseKeys!generate_p384_key_pair = [private |-> [format |-> "p384", len |-> 138],
                                        public |-> [format |-> "p384", len |-> 97]]
  /\ CoseKeys!generate_rsa_key_pair = [private |-> [format |-> "rsa", len |-> 138],
                                       public |-> [format |-> "rsa", len |-> 270]]
BY DEF CoseKeys!generate_key_pair, CoseKeys!generate_p256_key_pair, CoseKeys!Pair,
       CoseKeys!generate_p384_key_pair, CoseKeys!generate_rsa_key_pair

LEMMA KeyPairs ==
  ASSUME NEW alg \in KnownAlgs
  PROVE  /\ alg = -7 => CoseKeys!key_pair(alg) = CoseKeys!generate_p256_key_pair
         /\ alg = -8 => CoseKeys!key_pair(alg) = CoseKeys!generate_key_pair
         /\ alg = -35 => CoseKeys!key_pair(alg) = CoseKeys!generate_p384_key_pair
         /\ alg \in {-37, -257} => CoseKeys!key_pair(alg) = CoseKeys!generate_rsa_key_pair
BY DEF KnownAlgs, CoseKeys!key_pair

LEMMA KeysOf ==
  ASSUME NEW alg \in KnownAlgs
  PROVE  /\ alg = -7 => KeyOf(alg) = [kty |-> 2, alg |-> -7, crv |-> 1, of |-> "p256", x |-> 32, y |-> 32]
         /\ alg = -8 => KeyOf(alg) = [kty |-> 1, alg |-> -8, crv |-> 6, of |-> "seed", x |-> 32, y |-> 0]
         /\ alg = -35 => KeyOf(alg) = [kty |-> 2, alg |-> -35, crv |-> 2, of |-> "p384", x |-> 48, y |-> 48]
         /\ alg = -37 => KeyOf(alg) = [kty |-> 3, alg |-> -37, crv |-> 0, of |-> "rsa", x |-> 256, y |-> 3]
         /\ alg = -257 => KeyOf(alg) = [kty |-> 3, alg |-> -257, crv |-> 0, of |-> "rsa", x |-> 256, y |-> 3]
<1>1. /\ CoseKeys!generate_key_pair.public.format = "seed"
      /\ CoseKeys!generate_p256_key_pair.public.format = "p256"
      /\ CoseKeys!generate_p384_key_pair.public.format = "p384"
      /\ CoseKeys!generate_rsa_key_pair.public.format = "rsa"
  BY Generated
<1> QED
  BY <1>1 DEF KnownAlgs, KeyOf, CoseKeys!Cose

LEMMA CosePairs ==
  ASSUME NEW alg \in KnownAlgs
  PROVE  /\ CredentialOf(alg) \in CoseKeys!Credentials /\ KeyOf(alg) \in CoseKeys!CoseKeySet
         /\ CredentialOf(alg).algorithm = alg /\ KeyOf(alg).alg = alg
<1>1. alg \in Int /\ (alg = -7 \/ alg = -8 \/ alg = -35 \/ alg = -37 \/ alg = -257)
  BY DEF KnownAlgs
<1>2. KeyOf(alg) \in CoseKeys!CoseKeySet /\ KeyOf(alg).alg = alg
  BY <1>1, KeysOf DEF CoseKeys!CoseKeySet, CoseKeys!Formats
<1>3. /\ CoseKeys!key_pair(alg).private \in CoseKeys!KeyParts
      /\ CoseKeys!key_pair(alg).public \in CoseKeys!KeyParts
  BY <1>1, KeyPairs, Generated DEF CoseKeys!KeyParts, CoseKeys!Formats
<1>4. CredentialOf(alg) \in CoseKeys!Credentials /\ CredentialOf(alg).algorithm = alg
  BY <1>1, <1>3 DEF CoseKeys!Credentials, CredentialOf
<1> QED
  BY <1>2, <1>4

\* The first supported algorithm of an offer.
LEMMA SelectedAlg ==
  ASSUME CoseKeys!ConstantsOK, rs256 \in BOOLEAN, NEW offer \in Offers,
         CoseKeys!selected_alg(offer) # Absent
  PROVE  /\ CoseKeys!selected_alg(offer) \in CoseKeys!Supported
         /\ \/ offer = <<>> /\ CoseKeys!selected_alg(offer) = -8
            \/ \E i \in DOMAIN offer :
                 /\ offer[i] = CoseKeys!selected_alg(offer)
                 /\ \A j \in 1 .. i - 1 : offer[j] \notin CoseKeys!Supported
<1> DEFINE fit == {i \in DOMAIN offer : offer[i] \in CoseKeys!Supported}
<1>1. CASE offer = <<>>
  BY <1>1 DEF CoseKeys!selected_alg, CoseKeys!Supported
<1>2. CASE offer # <<>>
  <2>1. fit # {} /\ CoseKeys!selected_alg(offer) = offer[CHOOSE i \in fit : \A j \in fit : i <= j]
    BY <1>2 DEF CoseKeys!selected_alg
  <2>2. DOMAIN offer = 1 .. Len(offer) /\ Len(offer) \in Nat
    BY DEF CoseKeys!ConstantsOK
  <2>3. fit \subseteq Nat
    BY <2>2
  <2>4. \E i \in fit : \A j \in fit : i <= j
    BY <2>1, <2>3, LeastNat
  <2>5. PICK k \in fit : k = (CHOOSE i \in fit : \A j \in fit : i <= j) /\ \A j \in fit : k <= j
    BY <2>4
  <2>6. \A j \in 1 .. k - 1 : offer[j] \notin CoseKeys!Supported
    BY <2>2, <2>5
  <2> QED  BY <2>1, <2>5, <2>6
<1> QED  BY <1>1, <1>2


\* What make_credential writes for the algorithm it selects.
LEMMA CoseBuilt ==
  ASSUME rs256 \in BOOLEAN, NEW alg \in CoseKeys!Supported
  PROVE  /\ alg \in KnownAlgs
         /\ CoseKeys!build_auth_data(alg, CoseKeys!key_pair(alg).public) = KeyOf(alg)
<1>1. alg \in KnownAlgs /\ (~rs256 => alg \notin {-37, -257})
  BY DEF KnownAlgs, CoseKeys!Supported
<1>2. CASE alg = -7
  BY <1>1, <1>2, KeyPairs, Generated
  DEF CoseKeys!build_auth_data, CoseKeys!build_cose_key_p256, KeyOf
<1>3. CASE alg = -35
  BY <1>1, <1>3, KeyPairs, Generated
  DEF CoseKeys!build_auth_data, CoseKeys!build_cose_key_p384, KeyOf
<1>4. CASE alg = -37
  BY <1>1, <1>4, KeyPairs, Generated
  DEF CoseKeys!build_auth_data, CoseKeys!build_cose_key_rsa_pss, KeyOf
<1>5. CASE alg = -257
  BY <1>1, <1>5, KeyPairs, Generated
  DEF CoseKeys!build_auth_data, CoseKeys!build_cose_key_rsa, KeyOf
<1>6. CASE alg = -8
  BY <1>1, <1>6, KeyPairs, Generated
  DEF CoseKeys!build_auth_data, CoseKeys!build_cose_key, KeyOf
<1> QED
  BY <1>1, <1>2, <1>3, <1>4, <1>5, <1>6 DEF KnownAlgs

\* A signature verifies under the key of its algorithm, in either build.
LEMMA CoseSigned ==
  ASSUME rs256 \in BOOLEAN, NEW alg \in KnownAlgs, NEW c, c = CredentialOf(alg)
  PROVE  /\ CoseKeys!signature(c) \in CoseKeys!Signatures \cup {Absent}
         /\ CoseKeys!signature(c) # Absent => CoseKeys!Verifies(KeyOf(alg), CoseKeys!signature(c))
<1>1. c.algorithm = alg /\ c.private = CoseKeys!key_pair(alg).private
  BY DEF CredentialOf
<1>2. CASE alg = -7
  <2>1. CoseKeys!signature(c) = "ES256"
    BY <1>1, <1>2, KeyPairs, Generated
    DEF CoseKeys!signature, CoseKeys!sign_p256, CoseKeys!Signs
  <2> QED  BY <1>2, <2>1, KeysOf DEF CoseKeys!Signatures, CoseKeys!Verifies, CoseKeys!verify_p256
<1>3. CASE alg = -35
  <2>1. CoseKeys!signature(c) = "ES384"
    BY <1>1, <1>3, KeyPairs, Generated
    DEF CoseKeys!signature, CoseKeys!sign_p384, CoseKeys!Signs
  <2> QED  BY <1>3, <2>1, KeysOf DEF CoseKeys!Signatures, CoseKeys!Verifies, CoseKeys!verify_p384
<1>4. CASE alg = -8
  <2>1. CoseKeys!signature(c) = "EdDSA"
    BY <1>1, <1>4, KeyPairs, Generated DEF CoseKeys!signature, CoseKeys!sign
  <2> QED  BY <1>4, <2>1, KeysOf DEF CoseKeys!Signatures, CoseKeys!Verifies, CoseKeys!verify_ed25519
<1>5. CASE alg \in {-37, -257} /\ ~rs256
  <2>1. CoseKeys!signature(c) = Absent
    BY <1>1, <1>5, KeyPairs, Generated DEF CoseKeys!signature, CoseKeys!sign
  <2> QED  BY <2>1
<1>6. CASE alg = -37 /\ rs256
  <2>1. CoseKeys!signature(c) = "PS256"
    BY <1>1, <1>6, KeyPairs, Generated
    DEF CoseKeys!signature, CoseKeys!sign_rsa_pss, CoseKeys!Signs
  <2> QED  BY <1>6, <2>1, KeysOf DEF CoseKeys!Signatures, CoseKeys!Verifies, CoseKeys!verify_rsa_pss
<1>7. CASE alg = -257 /\ rs256
  <2>1. CoseKeys!signature(c) = "RS256"
    BY <1>1, <1>7, KeyPairs, Generated
    DEF CoseKeys!signature, CoseKeys!sign_rsa, CoseKeys!Signs
  <2> QED  BY <1>7, <2>1, KeysOf DEF CoseKeys!Signatures, CoseKeys!Verifies, CoseKeys!verify_rsa
<1> QED
  BY <1>2, <1>3, <1>4, <1>5, <1>6, <1>7 DEF KnownAlgs

\* The two algorithms enumerateCredentials knows are listed as registered.
LEMMA CoseListed ==
  ASSUME NEW alg \in {-7, -8}, NEW c, c = CredentialOf(alg)
  PROVE  CoseKeys!cose_key_value(c) = KeyOf(alg)
<1>1. /\ c.algorithm = alg /\ c.public = CoseKeys!key_pair(alg).public /\ alg \in KnownAlgs
  BY DEF CredentialOf, KnownAlgs
<1>2. CASE alg = -7
  BY <1>1, <1>2, KeyPairs, Generated DEF CoseKeys!cose_key_value, KeyOf
<1>3. CASE alg = -8
  BY <1>1, <1>3, KeyPairs, Generated DEF CoseKeys!cose_key_value, KeyOf
<1> QED  BY <1>2, <1>3


LEMMA CoseInit == ASSUME CoseKeys!ConstantsOK PROVE CoseKeys!Init => CoseInv
BY DEF CoseInv, CoseKeys!Init, CoseKeys!TypeOK, CoseKeys!AssertionVerifies,
       CoseKeys!PreferredAlgorithm, CoseKeys!ListedAsRegistered, CoseKeys!ConstantsOK

LEMMA CoseMakes ==
  ASSUME CoseKeys!ConstantsOK, CoseInv, NEW offer \in Offers, CoseKeys!make_credential(offer)
  PROVE  CoseInv'
<1> DEFINE alg == CoseKeys!selected_alg(offer)
<1>1. /\ rs256 \in BOOLEAN /\ updates \in 0 .. MaxUpdates
      /\ credential = Absent /\ registered = Absent /\ assertion = Absent /\ listed = Absent
      /\ Absent \notin Offers
  BY DEF CoseInv, CoseKeys!TypeOK, CoseKeys!AssertionVerifies, CoseKeys!make_credential,
         CoseKeys!ConstantsOK
<1>2. /\ offered' = offer
      /\ rs256' = rs256 /\ updates' = updates /\ assertion' = assertion /\ listed' = listed
  BY DEF CoseKeys!make_credential
<1>3. CASE alg = Absent
  <2>1. credential' = Absent /\ registered' = Absent
    BY <1>1, <1>3 DEF CoseKeys!make_credential
  <2> QED
    BY <1>1, <1>2, <2>1 DEF CoseInv, CoseKeys!TypeOK, CoseKeys!AssertionVerifies,
       CoseKeys!PreferredAlgorithm, CoseKeys!ListedAsRegistered
<1>4. CASE alg # Absent
  <2>1. /\ alg \in CoseKeys!Supported
        /\ \/ offer = <<>> /\ alg = -8
           \/ \E i \in DOMAIN offer :
                offer[i] = alg /\ \A j \in 1 .. i - 1 : offer[j] \notin CoseKeys!Supported
    BY <1>1, <1>4, SelectedAlg
  <2>2. alg \in KnownAlgs /\ CoseKeys!build_auth_data(alg, CoseKeys!key_pair(alg).public) = KeyOf(alg)
    BY <1>1, <2>1, CoseBuilt
  <2>3. credential' = CredentialOf(alg) /\ registered' = KeyOf(alg)
    BY <1>4, <2>2 DEF CoseKeys!make_credential, CredentialOf
  <2>4. /\ credential' # Absent /\ registered' # Absent
        /\ credential'.algorithm = alg /\ registered'.alg = alg
    BY <2>2, <2>3, CosePairs DEF CoseKeys!ConstantsOK
  <2>5. CoseKeys!PreferredAlgorithm'
    <3>1. CoseKeys!Supported' = CoseKeys!Supported
      BY <1>2 DEF CoseKeys!Supported
    <3> HIDE DEF alg
    <3> QED
      BY <1>2, <2>1, <2>4, <3>1 DEF CoseKeys!PreferredAlgorithm
  <2> HIDE DEF alg
  <2>6. CoseKeys!TypeOK'
    BY <1>1, <1>2, <2>2, <2>4 DEF CoseKeys!TypeOK, KnownAlgs
  <2>7. CoseKeys!AssertionVerifies' /\ CoseKeys!ListedAsRegistered'
    BY <1>1, <1>2 DEF CoseKeys!AssertionVerifies, CoseKeys!ListedAsRegistered
  <2> QED
    BY <1>1, <1>2, <2>3, <2>4, <2>5, <2>6, <2>7 DEF CoseInv
<1> QED  BY <1>3, <1>4

LEMMA CoseStep ==
  ASSUME CoseKeys!ConstantsOK, CoseInv, CoseKeys!Next \/ UNCHANGED CoseKeys!vars
  PROVE  CoseInv'
<1>1. CASE \E offer \in Offers : CoseKeys!make_credential(offer)
  BY <1>1, CoseMakes
<1>0. /\ rs256 \in BOOLEAN /\ updates \in 0 .. MaxUpdates
      /\ credential # Absent => /\ credential = CredentialOf(credential.algorithm)
                                /\ registered = KeyOf(credential.algorithm)
                                /\ credential.algorithm \in KnownAlgs
  BY DEF CoseInv, CoseKeys!TypeOK, KnownAlgs
<1>2. CASE CoseKeys!get_assertion
  <2>1. /\ credential # Absent /\ assertion' = CoseKeys!signature(credential)
        /\ UNCHANGED <<rs256, updates, offered, credential, registered, listed>>
    BY <1>2 DEF CoseKeys!get_assertion
  <2>2. /\ assertion' \in CoseKeys!Signatures \cup {Absent}
        /\ assertion' # Absent => CoseKeys!Verifies(registered, assertion')
    BY <1>0, <2>1, CoseSigned
  <2>3. registered # Absent
    BY <2>1 DEF CoseInv, CoseKeys!TypeOK
  <2>4. CoseKeys!TypeOK' /\ CoseKeys!PreferredAlgorithm' /\ CoseKeys!ListedAsRegistered'
    BY <2>1, <2>2 DEF CoseInv, CoseKeys!TypeOK, CoseKeys!PreferredAlgorithm,
       CoseKeys!ListedAsRegistered, CoseKeys!Supported
  <2>5. CoseKeys!AssertionVerifies'
    BY <2>1, <2>2, <2>3 DEF CoseKeys!AssertionVerifies, CoseKeys!Verifies,
       CoseKeys!verify_ed25519, CoseKeys!verify_p256, CoseKeys!verify_p384,
       CoseKeys!verify_rsa_pss, CoseKeys!verify_rsa
  <2> QED
    BY <2>1, <2>4, <2>5 DEF CoseInv, CredentialOf, KeyOf
<1>3. CASE CoseKeys!enumerate_credentials
  <2>1. /\ credential # Absent /\ listed' = CoseKeys!cose_key_value(credential)
        /\ UNCHANGED <<rs256, updates, offered, credential, registered, assertion>>
    BY <1>3 DEF CoseKeys!enumerate_credentials
  <2>2. credential.algorithm \in {-7, -8} => listed' = registered
    BY <1>0, <2>1, CoseListed
  <2>3. CoseKeys!TypeOK' /\ CoseKeys!PreferredAlgorithm' /\ CoseKeys!ListedAsRegistered'
    BY <2>1, <2>2 DEF CoseInv, CoseKeys!TypeOK, CoseKeys!PreferredAlgorithm,
       CoseKeys!ListedAsRegistered, CoseKeys!Supported
  <2>4. CoseKeys!AssertionVerifies'
    BY <2>1 DEF CoseInv, CoseKeys!AssertionVerifies, CoseKeys!Verifies,
       CoseKeys!verify_ed25519, CoseKeys!verify_p256, CoseKeys!verify_p384,
       CoseKeys!verify_rsa_pss, CoseKeys!verify_rsa
  <2> QED
    BY <2>1, <2>3, <2>4 DEF CoseInv
<1>4. CASE CoseKeys!Retry
  BY <1>4 DEF CoseKeys!Retry, CoseInv, CoseKeys!TypeOK, CoseKeys!PreferredAlgorithm,
     CoseKeys!ListedAsRegistered, CoseKeys!AssertionVerifies
<1>5. CASE CoseKeys!Update
  <2>1. /\ rs256' = ~rs256 /\ updates' = updates + 1 /\ updates' \in 0 .. MaxUpdates
        /\ UNCHANGED <<offered, credential, registered, assertion, listed>>
    BY <1>0, <1>5 DEF CoseKeys!Update, CoseKeys!ConstantsOK
  <2>2. CoseKeys!PreferredAlgorithm'
    BY <1>0, <2>1 DEF CoseKeys!PreferredAlgorithm
  <2>3. CoseKeys!TypeOK'
    BY <1>0, <2>1 DEF CoseInv, CoseKeys!TypeOK
  <2>4. CoseKeys!ListedAsRegistered' /\ CoseKeys!AssertionVerifies'
    BY <2>1 DEF CoseInv, CoseKeys!AssertionVerifies, CoseKeys!Verifies,
       CoseKeys!verify_ed25519, CoseKeys!verify_p256, CoseKeys!verify_p384,
       CoseKeys!verify_rsa_pss, CoseKeys!verify_rsa, CoseKeys!ListedAsRegistered
  <2> QED
    BY <2>1, <2>2, <2>3, <2>4 DEF CoseInv
<1>6. CASE UNCHANGED CoseKeys!vars
  BY <1>6 DEF CoseKeys!vars, CoseInv, CoseKeys!TypeOK, CoseKeys!PreferredAlgorithm,
     CoseKeys!ListedAsRegistered, CoseKeys!AssertionVerifies, CoseKeys!Supported,
     CoseKeys!Verifies, CoseKeys!verify_ed25519, CoseKeys!verify_p256, CoseKeys!verify_p384,
     CoseKeys!verify_rsa_pss, CoseKeys!verify_rsa
<1> QED
  BY <1>1, <1>2, <1>3, <1>4, <1>5, <1>6 DEF CoseKeys!Next

\* For any offers of relying parties and any firmware updates: whatever the device signs
\* verifies under the key that was registered, the relying party got its first supported
\* choice, and enumerateCredentials reports the registered key of the algorithms it knows
\* (selected_alg, build_auth_data, the signature by algorithm, cose_key_value).
THEOREM SignaturesVerify == MCSpec => []AssertionVerifies
<1> DEFINE I == part = "cose" => CoseInv
<1>1. CoseKeys!ConstantsOK
  BY Constants
<1>2. MCInit => I
  BY <1>1, CoseInit DEF MCInit
<1>3. I /\ [MCNext]_allvars => I'
  <2> SUFFICES ASSUME I, [MCNext]_allvars, part' = "cose" PROVE CoseInv'
    OBVIOUS
  <2>1. part = "cose" /\ (CoseKeys!Next \/ UNCHANGED CoseKeys!vars)
    BY DEF MCNext, allvars, CoseKeys!vars
  <2> QED  BY <1>1, <2>1, CoseStep
<1>4. I => AssertionVerifies
  BY DEF AssertionVerifies, CoseInv
<1> QED  BY <1>2, <1>3, <1>4, PTL DEF MCSpec

----------------------------------------------------------------------------
(* The device (Device), for any boards, transports and number of calls.      *)
(* Announcing and accepting look at the same capabilities, so UvAsAnnounced  *)
(* and PermissionsAnnounced hold of any device; the other two need to know   *)
(* how far the device is still what its board or its builder made it.        *)

\* A DeviceProfileBuilder.
BuilderFields ==
  {"transports", "protocols", "pin_policy", "rk_support", "uv_support", "up_support",
   "storage_encrypted", "crypto_accelerator", "extensions", "transport_configs", "security", "usb"}
IsBuilder(b) ==
  /\ b = [f \in BuilderFields |-> b[f]]
  /\ b.pin_policy \in Device!PinPolicy /\ b.transport_configs \in Seq(Configs)
  /\ b.security \subseteq Device!SecurityFeatures

Distinct(s) == \A i, j \in DOMAIN s : s[i] = s[j] => i = j

\* An EmbeddedAuthenticator.
DeviceFields == {"capabilities", "user_presence", "user_verification", "transports"}
IsDevice(d) ==
  /\ d = [f \in DeviceFields |-> d[f]]
  /\ d.user_presence \in {"None", "Bootsel", "Injected"} /\ d.user_verification \in BOOLEAN
  /\ d.transports \in Seq(Configs) /\ d.capabilities.security \subseteq Device!SecurityFeatures

DeviceInv ==
  /\ stage \in {"building", "running"} /\ board \in Products \cup {Absent}
  /\ pin \in BOOLEAN /\ pressed \in BOOLEAN /\ listed \in BOOLEAN /\ calls \in 0 .. MaxCalls
  /\ IsBuilder(builder)
  /\ stage = "building" => own = FALSE /\ (~listed => Distinct(builder.transport_configs))
  /\ stage = "running" =>
       /\ IsDevice(device) /\ own \in BOOLEAN
       /\ ~listed => /\ Distinct(device.transports)
                     /\ device.transports # <<>> => device.transports[1] = profile.transport_config
                     /\ device.transports = <<>> => profile.transport_config = Absent
       /\ own /\ board.presence_source = "Bootsel" => device.user_presence = "Bootsel"
  /\ Device!BoardPresenceAsked

\* A sequence without repetitions has as many elements as places.
LEMMA DistinctLen ==
  ASSUME NEW S, NEW s \in Seq(S), Distinct(s)
  PROVE  Len(s) = Cardinality({s[i] : i \in DOMAIN s})
<1> DEFINE R == {s[i] : i \in DOMAIN s}
           f == [i \in 1 .. Len(s) |-> s[i]]
<1>1. Len(s) \in Nat /\ DOMAIN s = 1 .. Len(s)
  OBVIOUS
<1>2. f \in Bijection(1 .. Len(s), R)
  <2>1. f \in [1 .. Len(s) -> R]
    BY <1>1
  <2>2. \A a, b \in 1 .. Len(s) : f[a] = f[b] => a = b
    BY <1>1 DEF Distinct
  <2>3. \A t \in R : \E a \in 1 .. Len(s) : f[a] = t
    BY <1>1
  <2> QED  BY <2>1, <2>2, <2>3 DEF Bijection, Injection, Surjection, IsInjective
<1>3. IsFiniteSet(1 .. Len(s)) /\ Cardinality(1 .. Len(s)) = Len(s)
  <2>1. /\ IsFiniteSet(1 .. Len(s))
        /\ Cardinality(1 .. Len(s)) = IF 1 > Len(s) THEN 0 ELSE Len(s) - 1 + 1
    BY <1>1, FS_Interval
  <2> QED  BY <1>1, <2>1
<1> HIDE DEF f, R
<1>4. Cardinality(R) = Len(s)
  BY <1>2, <1>3, FS_Bijection DEF ExistsBijection
<1> QED  BY <1>4 DEF R

LEMMA NewBuilderIs ==
  IsBuilder(Device!NewBuilder) /\ Device!NewBuilder.transport_configs = <<>>
<1> DEFINE n == Device!NewBuilder
<1>1. n = [f \in BuilderFields |-> n[f]]
  BY DEF Device!NewBuilder, BuilderFields
<1>2. n.pin_policy = "Disabled" /\ n.transport_configs = <<>> /\ n.security = {}
  BY DEF Device!NewBuilder
<1> HIDE DEF n
<1>3. n.pin_policy \in Device!PinPolicy /\ n.security \subseteq Device!SecurityFeatures
  BY <1>2 DEF Device!PinPolicy
<1>4. <<>> \in Seq(Configs)
  OBVIOUS
<1>5. n.transport_configs \in Seq(Configs)
  BY <1>2, <1>4, Zenon
<1>6. IsBuilder(n)
  BY <1>1, <1>3, <1>5, Zenon DEF IsBuilder
<1> QED  BY <1>2, <1>6 DEF n

LEMMA FromBoard ==
  ASSUME Device!ConstantsOK, NEW b \in Products
  PROVE  IsBuilder(Device!from_board(b)) /\ Device!from_board(b).transport_configs = <<>>
<1>1. b.security \subseteq Device!SecurityFeatures
  BY DEF Device!ConstantsOK
<1> QED
  BY <1>1, NewBuilderIs DEF IsBuilder, Device!from_board, BuilderFields

\* A call of the builder gives a builder, and adds a transport only once.
LEMMA BuilderCalled ==
  ASSUME NEW b, IsBuilder(b), NEW c \in Device!BuilderCalls(b)
  PROVE  IsBuilder(c) /\ (Distinct(b.transport_configs) => Distinct(c.transport_configs))
<1>1. \/ \E x \in Device!PinPolicy : c = [b EXCEPT !.pin_policy = x]
      \/ \E x : c = [b EXCEPT !.uv_support = x]
      \/ \E x : c = [b EXCEPT !.rk_support = x]
      \/ \E x \in Configs : c = Device!add_transport(b, x)
      \/ \E x : c = [b EXCEPT !.usb = x]
      \/ \E x : c = [b EXCEPT !.protocols = x]
      \/ c = [b EXCEPT !.security = {}]
  BY DEF Device!BuilderCalls, Device!pin_policy, Device!uv_support, Device!rk_support,
         Device!usb_preset, Device!protocol, Device!security
<1>2. ASSUME NEW x \in Device!PinPolicy, c = [b EXCEPT !.pin_policy = x]
      PROVE  IsBuilder(c) /\ c.transport_configs = b.transport_configs
  BY <1>2 DEF IsBuilder, BuilderFields
<1>3. ASSUME NEW x, c = [b EXCEPT !.uv_support = x]
      PROVE  IsBuilder(c) /\ c.transport_configs = b.transport_configs
  BY <1>3 DEF IsBuilder, BuilderFields
<1>4. ASSUME NEW x, c = [b EXCEPT !.rk_support = x]
      PROVE  IsBuilder(c) /\ c.transport_configs = b.transport_configs
  BY <1>4 DEF IsBuilder, BuilderFields
<1>5. ASSUME NEW x, c = [b EXCEPT !.usb = x]
      PROVE  IsBuilder(c) /\ c.transport_configs = b.transport_configs
  BY <1>5 DEF IsBuilder, BuilderFields
<1>6. ASSUME NEW x, c = [b EXCEPT !.protocols = x]
      PROVE  IsBuilder(c) /\ c.transport_configs = b.transport_configs
  BY <1>6 DEF IsBuilder, BuilderFields
<1>7. ASSUME c = [b EXCEPT !.security = {}]
      PROVE  IsBuilder(c) /\ c.transport_configs = b.transport_configs
  BY <1>7 DEF IsBuilder, BuilderFields
<1>8. ASSUME NEW x \in Configs, c = Device!add_transport(b, x)
      PROVE  IsBuilder(c) /\ (Distinct(b.transport_configs) => Distinct(c.transport_configs))
  <2> DEFINE s == b.transport_configs
             t == Append(s, x)
  <2>1. s \in Seq(Configs) /\ t \in Seq(Configs)
    BY DEF IsBuilder
  <2>2. CASE \E i \in DOMAIN s : s[i] = x
    BY <1>8, <2>2 DEF Device!add_transport
  <2>3. CASE ~\E i \in DOMAIN s : s[i] = x
    <3>1. c = [b EXCEPT !.transport_configs = t]
      BY <1>8, <2>3 DEF Device!add_transport
    <3>2. Distinct(s) => Distinct(t)
      BY <2>1, <2>3 DEF Distinct
    <3> HIDE DEF t
    <3>3. IsBuilder(c) /\ c.transport_configs = t
      BY <2>1, <3>1 DEF IsBuilder, BuilderFields
    <3> QED  BY <3>2, <3>3
  <2> QED  BY <2>2, <2>3
<1> QED
  BY <1>1, <1>2, <1>3, <1>4, <1>5, <1>6, <1>7, <1>8

\* What build and from_profile_and_storage make of a builder.
LEMMA BuiltDevice ==
  ASSUME NEW b, IsBuilder(b), NEW injected \in Seq(Configs) \cup {Absent}
  PROVE  LET d == Device!from_profile_and_storage(Device!build(b), injected)
         IN  /\ IsDevice(d) /\ d.user_presence = "None"
             /\ injected = Absent =>
                  /\ d.transports = b.transport_configs
                  /\ d.transports # <<>> => d.transports[1] = Device!build(b).transport_config
                  /\ d.transports = <<>> => Device!build(b).transport_config = Absent
<1> DEFINE tc == IF b.transport_configs = <<>> THEN Absent ELSE Head(b.transport_configs)
           q == Device!build(b)
           caps == Device!capabilities(q)
           d == Device!from_profile_and_storage(q, injected)
<1>1. /\ q = [f \in BuilderFields \cup {"transport_config"} |->
                IF f = "transport_config" THEN tc ELSE b[f]]
  BY DEF Device!build, Device!With, IsBuilder
<1>2. /\ q.transport_config = tc /\ q.transport_configs = b.transport_configs
      /\ q.security = b.security
      /\ DOMAIN q = BuilderFields \cup {"transport_config"}
  BY <1>1 DEF BuilderFields
<1> HIDE DEF q
<1>3. caps.security = b.security
  BY <1>2 DEF Device!capabilities, Device!With, BuilderFields
<1> HIDE DEF caps
<1>4. Device!active_transport_configs(q) = b.transport_configs
  BY <1>2 DEF Device!active_transport_configs
<1>5. /\ d.transports = IF injected = Absent THEN b.transport_configs ELSE injected
      /\ d.user_presence = "None" /\ d.user_verification = FALSE
      /\ d.capabilities.security = b.security
      /\ d = [f \in DeviceFields |-> d[f]]
  BY <1>3, <1>4 DEF Device!from_profile_and_storage, Device!init_transports,
     Device!ctap2_capabilities, caps, DeviceFields
<1> HIDE DEF d
<1>6. b.transport_configs \in Seq(Configs) /\ b.security \subseteq Device!SecurityFeatures
  BY DEF IsBuilder
<1>7. IsDevice(d)
  BY <1>5, <1>6 DEF IsDevice
<1>8. injected = Absent =>
        /\ d.transports = b.transport_configs
        /\ d.transports # <<>> => d.transports[1] = q.transport_config
        /\ d.transports = <<>> => q.transport_config = Absent
  BY <1>2, <1>5, <1>6
<1> QED
  BY <1>5, <1>7, <1>8 DEF d, q

LEMMA DeviceInit ==
  ASSUME Device!ConstantsOK, Device!Init
  PROVE  DeviceInv
<1>1. /\ stage = "building" /\ board \in Products \cup {Absent}
      /\ builder = IF board = Absent THEN Device!NewBuilder ELSE Device!from_board(board)
      /\ pin = FALSE /\ pressed = FALSE /\ calls = 0 /\ listed = FALSE /\ own = FALSE /\ made = Absent
  BY DEF Device!Init
<1>2. IsBuilder(builder) /\ builder.transport_configs = <<>>
  BY <1>1, NewBuilderIs, FromBoard
<1>3. Distinct(builder.transport_configs)
  BY <1>2 DEF Distinct
<1>4. Device!BoardPresenceAsked
  BY <1>1 DEF Device!BoardPresenceAsked
<1>5. calls \in 0 .. MaxCalls
  BY <1>1 DEF Device!ConstantsOK
<1>6. stage # "running"
  BY <1>1
<1> QED  BY <1>1, <1>2, <1>3, <1>4, <1>5, <1>6, Zenon DEF DeviceInv

LEMMA ConfigureStep ==
  ASSUME Device!ConstantsOK, DeviceInv, Device!Configure
  PROVE  DeviceInv'
<1>1. /\ stage = "building" /\ calls < MaxCalls /\ calls' = calls + 1 /\ stage' = stage
      /\ board' = board /\ pin' = pin /\ pressed' = pressed /\ own' = own /\ made' = made
      /\ profile' = profile /\ device' = device
  BY DEF Device!Configure
<1>2. /\ calls \in 0 .. MaxCalls /\ IsBuilder(builder) /\ own = FALSE /\ listed \in BOOLEAN
      /\ ~listed => Distinct(builder.transport_configs)
      /\ board \in Products \cup {Absent} /\ pin \in BOOLEAN /\ pressed \in BOOLEAN
      /\ Device!BoardPresenceAsked
  BY <1>1, Zenon DEF DeviceInv
<1>3. /\ IsBuilder(builder') /\ listed' \in BOOLEAN
      /\ ~listed' => Distinct(builder'.transport_configs)
  <2>1. CASE builder' \in Device!BuilderCalls(builder) /\ listed' = listed
    BY <1>2, <2>1, BuilderCalled
  <2>2. ASSUME NEW c1 \in Configs, NEW c2 \in Configs, listed' = TRUE,
               builder' = Device!transport_configs(builder, <<c1, c2>>)
        PROVE  IsBuilder(builder')
    <3>1. builder' = [builder EXCEPT !.transport_configs = <<c1, c2>>]
      BY <2>2 DEF Device!transport_configs
    <3> DEFINE s == <<c1, c2>>
    <3>2. s \in Seq(Configs)
      OBVIOUS
    <3> HIDE DEF s
    <3>3. builder' = [builder EXCEPT !.transport_configs = s]
      BY <3>1 DEF s
    <3> QED  BY <1>2, <3>2, <3>3 DEF IsBuilder, BuilderFields
  <2> QED  BY <2>1, <2>2 DEF Device!Configure
<1>4. calls' \in 0 .. MaxCalls
  BY <1>1, <1>2 DEF Device!ConstantsOK
<1>5. Device!BoardPresenceAsked'
  BY <1>1, <1>2 DEF Device!BoardPresenceAsked
<1>6. stage' # "running" /\ stage' = "building"
  BY <1>1
<1> QED  BY <1>1, <1>2, <1>3, <1>4, <1>5, <1>6, Zenon DEF DeviceInv

LEMMA NewWithProfileStep ==
  ASSUME Device!ConstantsOK, DeviceInv, Device!NewWithProfile
  PROVE  DeviceInv'
<1>1. /\ stage = "building" /\ calls' = 0 /\ stage' = "running" /\ profile' = Device!build(builder)
      /\ board' = board /\ pin' = pin /\ pressed' = pressed /\ own' = own /\ made' = made
      /\ builder' = builder
  BY DEF Device!NewWithProfile
<1>2. /\ IsBuilder(builder) /\ own = FALSE /\ listed \in BOOLEAN
      /\ ~listed => Distinct(builder.transport_configs)
      /\ board \in Products \cup {Absent} /\ pin \in BOOLEAN /\ pressed \in BOOLEAN
      /\ Device!BoardPresenceAsked
  BY <1>1, Zenon DEF DeviceInv
<1>3. PICK injected \in Seq(Configs) \cup {Absent} :
        /\ device' = Device!from_profile_and_storage(Device!build(builder), injected)
        /\ \/ injected = Absent /\ listed' = listed
           \/ listed' = TRUE
  <2>1. CASE device' = Device!from_profile_and_storage(Device!build(builder), Absent) /\ listed' = listed
    BY <2>1
  <2>2. ASSUME NEW c \in Configs, listed' = TRUE,
               device' = Device!from_profile_and_storage(Device!build(builder), <<c>>)
        PROVE  \E injected \in Seq(Configs) :
                 device' = Device!from_profile_and_storage(Device!build(builder), injected)
    <3>1. <<c>> \in Seq(Configs)
      OBVIOUS
    <3> QED  BY <2>2, <3>1, Zenon
  <2> QED  BY <2>1, <2>2, Zenon DEF Device!NewWithProfile
<1>4. /\ IsDevice(device')
      /\ injected = Absent =>
           /\ device'.transports = builder.transport_configs
           /\ device'.transports # <<>> => device'.transports[1] = profile'.transport_config
           /\ device'.transports = <<>> => profile'.transport_config = Absent
  BY <1>1, <1>2, <1>3, BuiltDevice, Zenon
<1>5. /\ listed' \in BOOLEAN
      /\ ~listed' => /\ Distinct(device'.transports)
                     /\ device'.transports # <<>> => device'.transports[1] = profile'.transport_config
                     /\ device'.transports = <<>> => profile'.transport_config = Absent
  BY <1>2, <1>3, <1>4, Zenon
<1>6. calls' \in 0 .. MaxCalls
  BY <1>1 DEF Device!ConstantsOK
<1>7. Device!BoardPresenceAsked'
  BY <1>1, <1>2 DEF Device!BoardPresenceAsked
<1>8. stage' # "building"
  BY <1>1
<1> QED  BY <1>1, <1>2, <1>4, <1>5, <1>6, <1>7, <1>8, Zenon DEF DeviceInv

LEMMA NewWithBoardStep ==
  ASSUME Device!ConstantsOK, DeviceInv, Device!NewWithBoard
  PROVE  DeviceInv'
<1> DEFINE b == Device!from_board(board)
           d == Device!from_profile_and_storage(Device!build(b), Absent)
<1>1. /\ stage = "building" /\ board # Absent /\ calls' = 0 /\ stage' = "running"
      /\ profile' = Device!build(b) /\ board' = board /\ pin' = pin /\ pressed' = pressed
      /\ own' = TRUE /\ made' = made /\ builder' = builder /\ listed' = FALSE
      /\ device' = Device!set_board_user_presence(d, board)
  BY DEF Device!NewWithBoard
<1>2. /\ IsBuilder(builder) /\ board \in Products /\ pin \in BOOLEAN /\ pressed \in BOOLEAN
      /\ Device!BoardPresenceAsked
  BY <1>1, Zenon DEF DeviceInv
<1>3. IsBuilder(b) /\ b.transport_configs = <<>>
  BY <1>2, FromBoard
<1>4. IsDevice(d) /\ d.transports = <<>> /\ Device!build(b).transport_config = Absent
  <2> HIDE DEF b
  <2> QED  BY <1>3, BuiltDevice, Zenon DEF d
<1> HIDE DEF d, b
<1>5. /\ IsDevice(device') /\ device'.transports = <<>>
      /\ board.presence_source = "Bootsel" => device'.user_presence = "Bootsel"
  BY <1>1, <1>4 DEF Device!set_board_user_presence, IsDevice, DeviceFields
<1>6. calls' \in 0 .. MaxCalls
  BY <1>1 DEF Device!ConstantsOK
<1>7. Device!BoardPresenceAsked'
  BY <1>1, <1>2 DEF Device!BoardPresenceAsked
<1>8. Distinct(device'.transports) /\ stage' # "building"
  BY <1>1, <1>5 DEF Distinct
<1>9. profile'.transport_config = Absent
  BY <1>1, <1>4
<1> QED  BY <1>1, <1>2, <1>5, <1>6, <1>7, <1>8, <1>9, Zenon DEF DeviceInv

LEMMA ChangeStep ==
  ASSUME Device!ConstantsOK, DeviceInv, Device!Change
  PROVE  DeviceInv'
<1>1. /\ stage = "running" /\ calls < MaxCalls /\ calls' = calls + 1 /\ stage' = stage
      /\ board' = board /\ pin' = pin /\ pressed' = pressed /\ made' = made
      /\ builder' = builder /\ profile' = profile
  BY DEF Device!Change
<1>2. /\ IsBuilder(builder) /\ board \in Products \cup {Absent} /\ pin \in BOOLEAN
      /\ pressed \in BOOLEAN /\ listed \in BOOLEAN /\ calls \in 0 .. MaxCalls
      /\ Device!BoardPresenceAsked /\ IsDevice(device) /\ own \in BOOLEAN
      /\ ~listed => /\ Distinct(device.transports)
                    /\ device.transports # <<>> => device.transports[1] = profile.transport_config
                    /\ device.transports = <<>> => profile.transport_config = Absent
      /\ own /\ board.presence_source = "Bootsel" => device.user_presence = "Bootsel"
  BY <1>1, Zenon DEF DeviceInv
<1> DEFINE Kept == /\ IsDevice(device') /\ own' \in BOOLEAN /\ listed' \in BOOLEAN
                   /\ ~listed' => ~listed /\ device'.transports = device.transports
                   /\ own' => own /\ device'.user_presence = device.user_presence
<1>3. Kept
  <2>1. ASSUME NEW p \in {"None", "Injected"}, device' = [device EXCEPT !.user_presence = p],
               own' = FALSE, listed' = listed
        PROVE  Kept
    <3>1. IsDevice(device') /\ device'.transports = device.transports
      BY <1>2, <2>1 DEF IsDevice, DeviceFields
    <3> QED  BY <1>2, <2>1, <3>1, Zenon
  <2>2. ASSUME NEW v \in BOOLEAN, device' = [device EXCEPT !.user_verification = v],
               own' = own, listed' = listed
        PROVE  Kept
    <3>1. /\ IsDevice(device') /\ device'.transports = device.transports
          /\ device'.user_presence = device.user_presence
      BY <1>2, <2>2 DEF IsDevice, DeviceFields
    <3> QED  BY <1>2, <2>2, <3>1, Zenon
  <2>3. ASSUME NEW c \in Configs, device' = [device EXCEPT !.transports = Append(@, c)],
               own' = own, listed' = TRUE
        PROVE  Kept
    <3> DEFINE t == Append(device.transports, c)
    <3>1. t \in Seq(Configs)
      BY <1>2 DEF IsDevice
    <3>2. device' = [device EXCEPT !.transports = t]
      BY <2>3
    <3> HIDE DEF t
    <3>3. IsDevice(device') /\ device'.user_presence = device.user_presence
      BY <1>2, <3>1, <3>2 DEF IsDevice, DeviceFields
    <3> QED  BY <1>2, <2>3, <3>3, Zenon
  <2> HIDE DEF Kept
  <2> QED
    BY <2>1, <2>2, <2>3 DEF Device!Change, Device!set_user_presence, Device!set_user_verification,
       Device!AddTransport
<1>4. calls' \in 0 .. MaxCalls
  BY <1>1, <1>2 DEF Device!ConstantsOK
<1>5. Device!BoardPresenceAsked'
  BY <1>1, <1>2 DEF Device!BoardPresenceAsked
<1>6. stage' # "building" /\ stage' = "running"
  BY <1>1
<1>7. /\ ~listed' => /\ Distinct(device'.transports)
                     /\ device'.transports # <<>> => device'.transports[1] = profile'.transport_config
                     /\ device'.transports = <<>> => profile'.transport_config = Absent
      /\ own' /\ board'.presence_source = "Bootsel" => device'.user_presence = "Bootsel"
  <2>1. ASSUME ~listed'
        PROVE  /\ Distinct(device'.transports)
               /\ device'.transports # <<>> => device'.transports[1] = profile'.transport_config
               /\ device'.transports = <<>> => profile'.transport_config = Absent
    <3>1. ~listed /\ device'.transports = device.transports
      BY <1>3, <2>1, Zenon
    <3>2. /\ Distinct(device.transports)
          /\ device.transports # <<>> => device.transports[1] = profile.transport_config
          /\ device.transports = <<>> => profile.transport_config = Absent
      BY <1>2, <3>1, Zenon
    <3> QED  BY <1>1, <3>1, <3>2
  <2>2. own' => own /\ device'.user_presence = device.user_presence
    BY <1>3, Zenon
  <2>3. own' /\ board'.presence_source = "Bootsel" => device'.user_presence = "Bootsel"
    BY <1>1, <1>2, <2>2
  <2> QED  BY <2>1, <2>3
<1> QED  BY <1>1, <1>2, <1>3, <1>4, <1>5, <1>6, <1>7, Zenon DEF DeviceInv

\* SetPin, Reset, MakeCredential and Button leave the device and its profile alone.
LEMMA RunningStep ==
  ASSUME Device!ConstantsOK, DeviceInv,
         Device!SetPin \/ Device!Reset \/ Device!MakeCredential \/ Device!Button
  PROVE  DeviceInv'
<1>1. /\ stage = "running" /\ stage' = stage /\ board' = board /\ builder' = builder
      /\ profile' = profile /\ device' = device /\ calls' = calls /\ listed' = listed /\ own' = own
  BY DEF Device!SetPin, Device!Reset, Device!MakeCredential, Device!Button
<1>2. pin \in BOOLEAN /\ pressed \in BOOLEAN /\ own \in BOOLEAN
      /\ (own /\ board.presence_source = "Bootsel" => device.user_presence = "Bootsel")
      /\ Device!BoardPresenceAsked
  BY <1>1, Zenon DEF DeviceInv
<1>3. pin' \in BOOLEAN /\ pressed' \in BOOLEAN
  BY <1>2, Zenon DEF Device!SetPin, Device!Reset, Device!MakeCredential, Device!Button
<1>4. Device!BoardPresenceAsked'
  <2>1. CASE made' = made
    BY <1>1, <1>2, <2>1 DEF Device!BoardPresenceAsked
  <2>2. CASE Device!MakeCredential
    <3>1. made' = [own |-> own, pressed |-> pressed] /\ (device.user_presence = "None" \/ pressed)
      BY <2>2 DEF Device!MakeCredential, Device!IsPresent
    <3>2. made'.own = own /\ made'.pressed = pressed
      BY <3>1
    <3> QED  BY <1>1, <1>2, <3>1, <3>2 DEF Device!BoardPresenceAsked
  <2> QED  BY <2>1, <2>2 DEF Device!SetPin, Device!Reset, Device!Button
<1> QED  BY <1>1, <1>3, <1>4, Zenon DEF DeviceInv

LEMMA DeviceStep ==
  ASSUME Device!ConstantsOK, DeviceInv, Device!Next \/ UNCHANGED Device!vars
  PROVE  DeviceInv'
<1>1. CASE UNCHANGED Device!vars
  <2>1. /\ stage' = stage /\ board' = board /\ builder' = builder /\ profile' = profile
        /\ device' = device /\ calls' = calls /\ listed' = listed /\ own' = own
        /\ pin' = pin /\ pressed' = pressed /\ made' = made
    BY <1>1 DEF Device!vars
  <2>2. Device!BoardPresenceAsked'
    BY <2>1 DEF DeviceInv, Device!BoardPresenceAsked
  <2> QED  BY <2>1, <2>2, Zenon DEF DeviceInv
<1> QED
  BY <1>1, ConfigureStep, NewWithProfileStep, NewWithBoardStep, ChangeStep, RunningStep DEF Device!Next

\* What a device announces is what it accepts, whatever its capabilities are.
LEMMA AnnouncedIsAccepted == Device!UvAsAnnounced /\ Device!PermissionsAnnounced
<1> DEFINE o == Device!get_info(device).options
           caps == device.capabilities.options
<1>1. o = Device!InfoOptions(device)
  BY DEF Device!get_info
<1>2. /\ "uv" \in o <=> "uv" \in caps /\ device.user_verification
      /\ \A x : x \in caps /\ x # "uv" /\ x # "clientPin" /\ x # "pinUvAuthToken" => x \in o
  BY <1>1 DEF Device!InfoOptions
<1> HIDE DEF o
<1>3. "mc" \in Device!Permissions /\ Device!validate_permissions(device, {"mc"})
  BY DEF Device!Permissions, Device!validate_permissions, Device!OptionOf
<1>4. Device!UvAsAnnounced
  <2>1. (\E p \in Device!Permissions : Device!CanGetUvToken(device, {p})) <=> ("uv" \in o)
    BY <1>2, <1>3 DEF Device!CanGetUvToken, Device!perform_builtin_uv
  <2>2. Device!builtin_uv_retries(device) <=> ("uv" \in o)
    BY <1>2 DEF Device!builtin_uv_retries
  <2>3. ("uv" \in o) \in BOOLEAN /\ Device!builtin_uv_retries(device) \in BOOLEAN
        /\ (\E p \in Device!Permissions : Device!CanGetUvToken(device, {p})) \in BOOLEAN
    BY DEF Device!builtin_uv_retries
  <2> QED  BY <2>1, <2>2, <2>3, Zenon DEF Device!UvAsAnnounced, o
<1>5. Device!PermissionsAnnounced
  <2>1. \A p \in DOMAIN Device!OptionOf :
          Device!OptionOf[p] # "uv" /\ Device!OptionOf[p] # "clientPin"
            /\ Device!OptionOf[p] # "pinUvAuthToken"
    BY DEF Device!OptionOf
  <2>2. ASSUME NEW ps \in SUBSET Device!Permissions,
               Device!CanGetUvToken(device, ps) \/ Device!CanGetPinToken(device, ps),
               NEW p \in ps \cap DOMAIN Device!OptionOf
        PROVE  Device!OptionOf[p] \in o
    <3>1. Device!OptionOf[p] \in caps
      BY <2>2 DEF Device!CanGetUvToken, Device!CanGetPinToken, Device!validate_permissions
    <3> QED  BY <1>2, <2>1, <3>1
  <2> QED  BY <2>2, Zenon DEF Device!PermissionsAnnounced, o
<1> QED  BY <1>4, <1>5

\* For any boards, transports and number of calls: the built-in verification answers
\* exactly when GetInfo announces it, a token has a permission only for an announced
\* feature, a BOOTSEL board left alone makes no credential without the button, and every
\* configured transport is driven once (get_info, validate_permissions,
\* set_board_user_presence, add_transport).
THEOREM AnnouncementsHold == MCSpec => []AsAnnounced
<1> DEFINE I == part = "device" => DeviceInv
<1>1. Device!ConstantsOK
  BY Constants
<1>2. MCInit => I
  BY <1>1, DeviceInit DEF MCInit
<1>3. I /\ [MCNext]_allvars => I'
  <2> SUFFICES ASSUME I, [MCNext]_allvars, part' = "device" PROVE DeviceInv'
    OBVIOUS
  <2>1. part = "device" /\ (Device!Next \/ UNCHANGED Device!vars)
    BY DEF MCNext, allvars, Device!vars
  <2> QED  BY <1>1, <2>1, DeviceStep
<1>4. I => AsAnnounced
  <2> SUFFICES ASSUME DeviceInv, part = "device" PROVE AsAnnounced
    BY DEF AsAnnounced
  <2>1. Device!TypeOK
    BY Zenon DEF DeviceInv, Device!TypeOK, IsBuilder, IsDevice
  <2>2. Device!TransportsOnce
    <3> SUFFICES ASSUME stage = "running", ~listed PROVE Device!TransportsOnce
      BY DEF Device!TransportsOnce
    <3>1. device.transports \in Seq(Configs) /\ Distinct(device.transports)
      BY Zenon DEF DeviceInv, IsDevice
    <3>2. Len(device.transports) = Cardinality({device.transports[i] : i \in DOMAIN device.transports})
      BY <3>1, DistinctLen, Zenon
    <3>3. /\ device.transports # <<>> => device.transports[1] = profile.transport_config
          /\ device.transports = <<>> => profile.transport_config = Absent
      BY DEF DeviceInv
    <3> DEFINE R == {device.transports[i] : i \in DOMAIN device.transports}
    <3>4. Device!Cardinality(R) = Cardinality(R)
      BY DEF Device!Cardinality, Cardinality
    <3> QED  BY <3>2, <3>3, <3>4, Zenon DEF Device!TransportsOnce
  <2>3. Device!BoardPresenceAsked
    BY DEF DeviceInv
  <2> QED  BY <2>1, <2>2, <2>3, AnnouncedIsAccepted DEF AsAnnounced
<1> QED  BY <1>2, <1>3, <1>4, PTL DEF MCSpec

----------------------------------------------------------------------------
(* Authorized sub-commands (AuthMessage), for any parameters and any number   *)
(* of changes on the way.  DoneAsAuthorized says nothing of the entries that  *)
(* arrive; the invariant does: they may be any, but the only MAC among them   *)
(* is the platform's, and a token other than the platform's is a later one.   *)

\* The message that a MAC of a command is over, and the MAC of what the platform meant.
AuthMsg(c, s, p) ==
  (IF c = "config" THEN <<13>> ELSE <<>>) \o <<s>> \o (IF p = Absent THEN <<>> ELSE <<p>>)
MacOf(m) == [token |-> m.token.id, message |-> AuthMsg(m.cmd, m.sub, m.params)]

\* What may be on the wire once m was meant.
AuthEntries(m) ==
  [name : {"subCommand"}, text : BOOLEAN, value : Nat]
    \cup [name : {"params"}, text : BOOLEAN, value : Params]
    \cup [name : {"protocol"}, text : BOOLEAN, value : {m.token.protocol}]
    \cup [name : {"param"}, text : BOOLEAN, value : {MacOf(m)}]

MeantOK(m) ==
  /\ m.cmd \in AuthMessage!Commands /\ m.params \in Params \cup {Absent}
  /\ m.sub \in AuthMessage!SubCommands[m.cmd] \cap {1, 4, 7}
  /\ m.token.id \in Nat /\ m.token.protocol \in {1, 2}

AuthInv ==
  /\ AuthMessage!TypeOK /\ issued \in Nat
  /\ done # Absent => meant # Absent
  /\ meant # Absent =>
       /\ MeantOK(meant) /\ token # Absent /\ (token = meant.token \/ meant.token.id < token.id)
       /\ wire \in Seq(AuthEntries(meant)) /\ command \in AuthMessage!Commands
       /\ changes = 0 =>
            /\ command = meant.cmd /\ token = meant.token
            /\ wire = AuthMessage!Written(meant.sub, meant.params, meant.token.protocol, MacOf(meant))
  /\ AuthMessage!DoneAsAuthorized /\ AuthMessage!AuthorizedIsDone

\* A bounded set of numbers has a greatest one.
LEMMA GreatestNat ==
  ASSUME NEW n \in Nat, NEW T, T \subseteq 1 .. n, T # {}
  PROVE  \E i \in T : \A j \in T : j <= i
<1> DEFINE U == {n - i : i \in T}
<1>1. U \subseteq Nat /\ U # {}
  <2>1. \A i \in T : n - i \in Nat
    OBVIOUS
  <2>2. PICK i \in T : TRUE
    OBVIOUS
  <2>3. n - i \in U
    OBVIOUS
  <2> QED  BY <2>1, <2>3
<1>2. PICK u \in U : \A m \in U : u <= m
  <2> HIDE DEF U
  <2> QED  BY <1>1, LeastNat
<1>3. PICK i \in T : u = n - i
  OBVIOUS
<1>4. ASSUME NEW j \in T PROVE j <= i
  <2>1. n - j \in U
    OBVIOUS
  <2> HIDE DEF U
  <2> QED  BY <1>2, <1>3, <2>1
<1> QED  BY <1>3, <1>4

\* The value read for a name is the value of an entry of that name.
LEMMA LastNamedIs ==
  ASSUME NEW S, NEW w \in Seq(S), NEW name
  PROVE  \/ /\ \A i \in DOMAIN w : w[i].name # name
            /\ AuthMessage!LastNamed(w, name) = Absent
         \/ \E i \in DOMAIN w : w[i].name = name /\ AuthMessage!LastNamed(w, name) = w[i].value
<1> DEFINE at == AuthMessage!Named(w, name)
           last0 == CHOOSE i \in at : \A j \in at : j <= i
<1>1. at = {i \in DOMAIN w : w[i].name = name}
  BY DEF AuthMessage!Named
<1>2. AuthMessage!LastNamed(w, name) = IF at = {} THEN Absent ELSE w[last0].value
  BY DEF AuthMessage!LastNamed
<1>3. CASE at = {}
  BY <1>1, <1>2, <1>3
<1>4. CASE at # {}
  <2>1. Len(w) \in Nat /\ at \subseteq 1 .. Len(w)
    BY <1>1
  <2> HIDE DEF at
  <2>2. \E i \in at : \A j \in at : j <= i
    BY <1>4, <2>1, GreatestNat
  <2>3. last0 \in at
    BY <2>2
  <2> HIDE DEF last0
  <2> QED  BY <1>1, <1>2, <1>4, <2>3
<1> QED  BY <1>3, <1>4

\* What can be read from the entries on the wire.
LEMMA ReadFromWire ==
  ASSUME NEW m, NEW w \in Seq(AuthEntries(m))
  PROVE  /\ AuthMessage!LastNamed(w, "subCommand") \in Nat \cup {Absent}
         /\ AuthMessage!LastNamed(w, "params") \in Params \cup {Absent}
         /\ AuthMessage!LastNamed(w, "param") \in {MacOf(m), Absent}
<1>1. ASSUME NEW e \in AuthEntries(m)
      PROVE  /\ e.name = "subCommand" => e.value \in Nat
             /\ e.name = "params" => e.value \in Params
             /\ e.name = "param" => e.value = MacOf(m)
  BY DEF AuthEntries, AuthMessage!Entry
<1>2. \A i \in DOMAIN w : w[i] \in AuthEntries(m)
  OBVIOUS
<1>3. AuthMessage!LastNamed(w, "subCommand") \in Nat \cup {Absent}
  <2>1. \/ AuthMessage!LastNamed(w, "subCommand") = Absent
        \/ \E i \in DOMAIN w :
             w[i].name = "subCommand" /\ AuthMessage!LastNamed(w, "subCommand") = w[i].value
    BY LastNamedIs
  <2> QED  BY <1>1, <1>2, <2>1
<1>4. AuthMessage!LastNamed(w, "params") \in Params \cup {Absent}
  <2>1. \/ AuthMessage!LastNamed(w, "params") = Absent
        \/ \E i \in DOMAIN w :
             w[i].name = "params" /\ AuthMessage!LastNamed(w, "params") = w[i].value
    BY LastNamedIs
  <2> QED  BY <1>1, <1>2, <2>1
<1>5. AuthMessage!LastNamed(w, "param") \in {MacOf(m), Absent}
  <2>1. \/ AuthMessage!LastNamed(w, "param") = Absent
        \/ \E i \in DOMAIN w :
             w[i].name = "param" /\ AuthMessage!LastNamed(w, "param") = w[i].value
    BY LastNamedIs
  <2> QED  BY <1>1, <1>2, <2>1
<1> QED  BY <1>3, <1>4, <1>5

MessageIs(m, c, s, p) ==
  LET at == IF c = "config" THEN 2 ELSE 1
  IN  /\ Len(m) = at + (IF p = Absent THEN 0 ELSE 1)
      /\ m[1] = IF c = "config" THEN 13 ELSE s
      /\ m[at] = s
      /\ p # Absent => m[at + 1] = p

\* A message tells its command, sub-command and parameters, for the sub-commands that
\* exist: 13 is none of them, so no message of one command is one of the other.
LEMMA MessageTells ==
  ASSUME Absent \notin Nat \cup Params,
         NEW c1 \in AuthMessage!Commands, NEW c2 \in AuthMessage!Commands,
         NEW s1 \in 1 .. 7, NEW s2 \in 1 .. 7,
         NEW p1 \in Params \cup {Absent}, NEW p2 \in Params \cup {Absent},
         AuthMsg(c1, s1, p1) = AuthMsg(c2, s2, p2)
  PROVE  c1 = c2 /\ s1 = s2 /\ p1 = p2
<1>1. ASSUME NEW c \in AuthMessage!Commands, NEW s \in 1 .. 7, NEW p \in Params \cup {Absent}
      PROVE  MessageIs(AuthMsg(c, s, p), c, s, p)
  BY DEF MessageIs, AuthMsg, AuthMessage!Commands
<1>2. PICK m : MessageIs(m, c1, s1, p1) /\ MessageIs(m, c2, s2, p2)
  <2>1. MessageIs(AuthMsg(c1, s1, p1), c1, s1, p1) /\ MessageIs(AuthMsg(c2, s2, p2), c2, s2, p2)
    BY <1>1, Zenon
  <2> QED  BY <2>1, Zenon
<1>3. c1 \in {"config", "credMgmt"} /\ c2 \in {"config", "credMgmt"}
  BY Zenon DEF AuthMessage!Commands
<1>4. c1 = c2
  BY ONLY <1>2, <1>3, s1 \in 1 .. 7, s2 \in 1 .. 7 DEF MessageIs
<1>5. s1 = s2
  BY ONLY <1>2, <1>4, Zenon DEF MessageIs
<1>6. (p1 = Absent <=> p2 = Absent) /\ (p1 # Absent => p1 = p2)
  BY ONLY <1>2, <1>4 DEF MessageIs
<1> QED  BY <1>4, <1>5, <1>6, Zenon

\* The request the handler carries out, and the message it authenticated, are read from
\* the same entries: the decoder may refuse, and otherwise both are made of these values.
LEMMA RequestAndMessage ==
  ASSUME NEW w, NEW c \in AuthMessage!Commands
  PROVE  LET s == AuthMessage!LastNamed(w, "subCommand")
             p == AuthMessage!LastNamed(w, "params")
             r == IF c = "config" THEN AuthMessage!decode_authnr_config_request(w)
                  ELSE AuthMessage!decode_cred_mgmt(w)
             e == IF c = "config" THEN AuthMessage!authnr_config_auth_message(w)
                  ELSE AuthMessage!credential_management_auth_message(w)
         IN  /\ \/ r = Absent
                \/ /\ s # Absent
                   /\ r = [sub |-> s, params |-> p, protocol |-> AuthMessage!LastNamed(w, "protocol"),
                           param |-> AuthMessage!LastNamed(w, "param")]
             /\ s # Absent => e = AuthMsg(c, s, p)
<1> QED
  BY DEF AuthMessage!decode_authnr_config_request, AuthMessage!decode_cred_mgmt, AuthMsg,
     AuthMessage!authnr_config_auth_message, AuthMessage!credential_management_auth_message,
     AuthMessage!Message, AuthMessage!Commands

\* The step of a handler, whichever it is.
Handled ==
  /\ meant # Absent /\ done = Absent /\ command \in AuthMessage!Commands
  /\ done' = AuthMessage!Carried(
               IF command = "config" THEN AuthMessage!decode_authnr_config_request(wire)
               ELSE AuthMessage!decode_cred_mgmt(wire),
               IF command = "config" THEN AuthMessage!authnr_config_auth_message(wire)
               ELSE AuthMessage!credential_management_auth_message(wire))
  /\ UNCHANGED <<token, issued, meant, command, wire, changes>>

LEMMA HandlersAre ==
  ASSUME AuthMessage!handle_authnr_config \/ AuthMessage!handle_credential_management
  PROVE  Handled
<1>1. CASE AuthMessage!handle_authnr_config
  BY <1>1 DEF Handled, AuthMessage!handle_authnr_config, AuthMessage!Commands
<1>2. CASE AuthMessage!handle_credential_management
  BY <1>2 DEF Handled, AuthMessage!handle_credential_management, AuthMessage!Commands
<1> QED  BY <1>1, <1>2

\* What a handler carries out is what was meant.
LEMMA HandledAsMeant ==
  ASSUME AuthMessage!ConstantsOK, AuthInv, Handled
  PROVE  /\ done'.cmd \in AuthMessage!Commands \cup {"refused"}
         /\ done'.cmd # "refused" =>
              /\ done' = [cmd |-> meant.cmd, sub |-> meant.sub, params |-> meant.params]
              /\ token = meant.token /\ token.rp = Absent
              /\ AuthMessage!Permission[done'.cmd] \in token.permissions
<1> DEFINE s == AuthMessage!LastNamed(wire, "subCommand")
           p == AuthMessage!LastNamed(wire, "params")
           k == AuthMessage!LastNamed(wire, "param")
           r == IF command = "config" THEN AuthMessage!decode_authnr_config_request(wire)
                ELSE AuthMessage!decode_cred_mgmt(wire)
           e == IF command = "config" THEN AuthMessage!authnr_config_auth_message(wire)
                ELSE AuthMessage!credential_management_auth_message(wire)
<1>1. /\ MeantOK(meant) /\ (token = meant.token \/ meant.token.id < token.id)
      /\ wire \in Seq(AuthEntries(meant)) /\ command \in AuthMessage!Commands
      /\ done' = AuthMessage!Carried(r, e)
      /\ token # Absent /\ token.id = issued /\ issued \in Nat
  <2>1. token # Absent /\ token \in AuthMessage!NewToken(issued) /\ issued \in Nat
    BY DEF AuthInv, Handled, AuthMessage!TypeOK
  <2>2. token.id = issued
    BY <2>1 DEF AuthMessage!NewToken
  <2> QED  BY <2>1, <2>2 DEF AuthInv, Handled
<1>2. /\ s \in Nat \cup {Absent} /\ p \in Params \cup {Absent} /\ k \in {MacOf(meant), Absent}
  BY <1>1, ReadFromWire
<1>3. /\ \/ r = Absent
         \/ s # Absent /\ r.sub = s /\ r.params = p /\ r.param = k
      /\ s # Absent => e = AuthMsg(command, s, p)
  <2> DEFINE n == AuthMessage!LastNamed(wire, "protocol")
  <2>1. /\ \/ r = Absent
           \/ s # Absent /\ r = [sub |-> s, params |-> p, protocol |-> n, param |-> k]
        /\ s # Absent => e = AuthMsg(command, s, p)
    BY <1>1, RequestAndMessage, Zenon
  <2> HIDE DEF s, p, k, r, e, n
  <2> QED  BY <2>1
<1> HIDE DEF s, p, k, r, e
<1> DEFINE Served == /\ r # Absent /\ e # Absent
                     /\ AuthMessage!verify_pin_uv_auth_for_operation(r, e, AuthMessage!Permission[command])
                     /\ r.sub \in AuthMessage!SubCommands[command]
<1>4. CASE ~Served
  <2>1. done' = [cmd |-> "refused"]
    BY <1>1, <1>4 DEF AuthMessage!Carried
  <2> QED  BY <2>1
<1>5. CASE Served
  <2>1. done' = [cmd |-> command, sub |-> r.sub, params |-> r.params]
    BY <1>1, <1>5 DEF AuthMessage!Carried
  <2>2. /\ k # Absent /\ k = [token |-> token.id, message |-> e]
        /\ AuthMessage!Permission[command] \in token.permissions /\ token.rp = Absent
        /\ s \in AuthMessage!SubCommands[command]
    BY <1>3, <1>5 DEF AuthMessage!verify_pin_uv_auth_for_operation,
       AuthMessage!verify_pin_uv_auth_message
  <2>3. s \in 1 .. 7 /\ meant.sub \in 1 .. 7 /\ meant.cmd \in AuthMessage!Commands
        /\ meant.params \in Params \cup {Absent}
    BY <1>1, <2>2 DEF MeantOK, AuthMessage!SubCommands, AuthMessage!Commands
  <2>4. k = MacOf(meant) /\ e = AuthMsg(command, s, p)
    BY <1>2, <1>3, <1>5, <2>2
  <2>5. token.id = meant.token.id /\ AuthMsg(command, s, p) = AuthMsg(meant.cmd, meant.sub, meant.params)
    BY <2>2, <2>4 DEF MacOf
  <2>6. token = meant.token
    BY <1>1, <2>5
  <2>7. command = meant.cmd /\ s = meant.sub /\ p = meant.params
    BY <1>1, <1>2, <2>3, <2>5, MessageTells DEF AuthMessage!ConstantsOK
  <2>8. r.sub = meant.sub /\ r.params = meant.params
    BY <1>3, <1>5, <2>7
  <2>9. done'.cmd = command
    BY <2>1
  <2> QED  BY <1>1, <2>1, <2>2, <2>6, <2>7, <2>8, <2>9
<1> QED  BY <1>4, <1>5

\* The value of the only entry of a name is the value read.
LEMMA OnlyNamed ==
  ASSUME NEW w, NEW name, NEW i \in DOMAIN w, i \in Nat, w[i].name = name,
         \A j \in DOMAIN w : w[j].name = name => j = i
  PROVE  AuthMessage!LastNamed(w, name) = w[i].value
<1> DEFINE at == AuthMessage!Named(w, name)
<1>1. at = {i}
  BY DEF AuthMessage!Named
<1>2. (CHOOSE n \in {i} : \A j \in {i} : j <= n) = i
  OBVIOUS
<1>3. at # {}
  BY <1>1
<1> QED  BY <1>1, <1>2, <1>3, Zenon DEF AuthMessage!LastNamed

\* What the platform wrote is read as it wrote it.
LEMMA WrittenRead ==
  ASSUME Absent \notin Nat \cup Params, NEW sub, NEW params \in Params \cup {Absent},
         NEW protocol, NEW param
  PROVE  LET w == AuthMessage!Written(sub, params, protocol, param)
         IN  /\ \A i, j \in DOMAIN w : i < j => w[i].name # w[j].name
             /\ AuthMessage!LastNamed(w, "subCommand") = sub
             /\ AuthMessage!LastNamed(w, "params") = params
             /\ AuthMessage!LastNamed(w, "protocol") = protocol
             /\ AuthMessage!LastNamed(w, "param") = param
<1> DEFINE w == AuthMessage!Written(sub, params, protocol, param)
           e1 == AuthMessage!Entry("subCommand", FALSE, sub)
           e2 == AuthMessage!Entry("params", FALSE, params)
           e3 == AuthMessage!Entry("protocol", FALSE, protocol)
           e4 == AuthMessage!Entry("param", FALSE, param)
<1>1. /\ e1.name = "subCommand" /\ e1.value = sub /\ e2.name = "params" /\ e2.value = params
      /\ e3.name = "protocol" /\ e3.value = protocol /\ e4.name = "param" /\ e4.value = param
  BY DEF AuthMessage!Entry
<1>2. w = <<e1>> \o (IF params = Absent THEN <<>> ELSE <<e2>>) \o <<e3, e4>>
  BY DEF AuthMessage!Written
<1> HIDE DEF w, e1, e2, e3, e4
<1>3. CASE params = Absent
  <2>1. w = <<e1>> \o <<>> \o <<e3, e4>>
    BY <1>2, <1>3
  <2>2. DOMAIN w = 1 .. 3 /\ w[1] = e1 /\ w[2] = e3 /\ w[3] = e4
    BY <2>1
  <2>3. \A i \in DOMAIN w : w[i].name # "params"
    BY <1>1, <2>2
  <2>4. AuthMessage!LastNamed(w, "params") = Absent
    BY <2>3 DEF AuthMessage!LastNamed, AuthMessage!Named
  <2>5. AuthMessage!LastNamed(w, "subCommand") = w[1].value
    BY <1>1, <2>2, OnlyNamed
  <2>6. AuthMessage!LastNamed(w, "protocol") = w[2].value
    BY <1>1, <2>2, OnlyNamed
  <2>7. AuthMessage!LastNamed(w, "param") = w[3].value
    BY <1>1, <2>2, OnlyNamed
  <2>8. \A i, j \in DOMAIN w : i < j => w[i].name # w[j].name
    BY <1>1, <2>2
  <2> QED  BY <1>1, <1>3, <2>2, <2>4, <2>5, <2>6, <2>7, <2>8 DEF w
<1>4. CASE params # Absent
  <2>1. w = <<e1>> \o <<e2>> \o <<e3, e4>>
    BY <1>2, <1>4
  <2>2. DOMAIN w = 1 .. 4 /\ w[1] = e1 /\ w[2] = e2 /\ w[3] = e3 /\ w[4] = e4
    BY <2>1
  <2>4. AuthMessage!LastNamed(w, "params") = w[2].value
    BY <1>1, <2>2, OnlyNamed
  <2>5. AuthMessage!LastNamed(w, "subCommand") = w[1].value
    BY <1>1, <2>2, OnlyNamed
  <2>6. AuthMessage!LastNamed(w, "protocol") = w[3].value
    BY <1>1, <2>2, OnlyNamed
  <2>7. AuthMessage!LastNamed(w, "param") = w[4].value
    BY <1>1, <2>2, OnlyNamed
  <2>8. \A i, j \in DOMAIN w : i < j => w[i].name # w[j].name
    BY <1>1, <2>2
  <2> QED  BY <1>1, <2>2, <2>4, <2>5, <2>6, <2>7, <2>8 DEF w
<1> QED  BY <1>3, <1>4

\* What arrives unchanged under a fitting token is carried out.
LEMMA HandledIsDone ==
  ASSUME AuthMessage!ConstantsOK, AuthInv, Handled, changes = 0, token.rp = Absent,
         AuthMessage!Permission[meant.cmd] \in token.permissions
  PROVE  done'.cmd = meant.cmd
<1> DEFINE n == meant.token.protocol
           r == IF command = "config" THEN AuthMessage!decode_authnr_config_request(wire)
                ELSE AuthMessage!decode_cred_mgmt(wire)
           e == IF command = "config" THEN AuthMessage!authnr_config_auth_message(wire)
                ELSE AuthMessage!credential_management_auth_message(wire)
<1>1. /\ MeantOK(meant) /\ command = meant.cmd /\ token = meant.token /\ token # Absent
      /\ wire = AuthMessage!Written(meant.sub, meant.params, n, MacOf(meant))
      /\ done' = AuthMessage!Carried(r, e)
  BY DEF AuthInv, Handled
<1>2. /\ meant.sub \in Nat /\ meant.params \in Params \cup {Absent} /\ meant.cmd \in AuthMessage!Commands
      /\ meant.sub \in AuthMessage!SubCommands[meant.cmd] /\ n \in {1, 2} /\ meant.token.id \in Nat
  BY <1>1 DEF MeantOK
<1>3. Absent \notin Nat \cup Params
  BY DEF AuthMessage!ConstantsOK
<1>4. /\ \A i, j \in DOMAIN wire : i < j => wire[i].name # wire[j].name
      /\ AuthMessage!LastNamed(wire, "subCommand") = meant.sub
      /\ AuthMessage!LastNamed(wire, "params") = meant.params
      /\ AuthMessage!LastNamed(wire, "protocol") = n
      /\ AuthMessage!LastNamed(wire, "param") = MacOf(meant)
  BY <1>1, <1>2, <1>3, WrittenRead
<1>5. meant.sub # Absent
  BY <1>2, <1>3
<1>6. r = [sub |-> meant.sub, params |-> meant.params, protocol |-> n, param |-> MacOf(meant)]
  BY <1>4, <1>5 DEF AuthMessage!decode_authnr_config_request, AuthMessage!decode_cred_mgmt
<1>7. e = AuthMsg(meant.cmd, meant.sub, meant.params)
  <2>1. AuthMessage!LastNamed(wire, "subCommand") # Absent =>
          e = AuthMsg(command, AuthMessage!LastNamed(wire, "subCommand"),
                      AuthMessage!LastNamed(wire, "params"))
    BY <1>1, <1>2, RequestAndMessage, Zenon
  <2> HIDE DEF e
  <2> QED  BY <1>1, <1>4, <1>5, <2>1
<1>8. e \in Seq(Nat \cup Params)
  <2> DEFINE T == Nat \cup Params
             a == IF meant.cmd = "config" THEN <<13>> ELSE <<>>
             b == IF meant.params = Absent THEN <<>> ELSE <<meant.params>>
  <2>1. 13 \in T /\ meant.sub \in T /\ (meant.params # Absent => meant.params \in T)
    BY <1>2
  <2>2. e = a \o <<meant.sub>> \o b
    BY <1>7 DEF AuthMsg
  <2> HIDE DEF T, e
  <2>3. a \in Seq(T) /\ <<meant.sub>> \in Seq(T) /\ b \in Seq(T)
    BY <2>1
  <2> HIDE DEF a, b
  <2>4. e \in Seq(T)
    BY <2>2, <2>3
  <2> QED  BY <2>4 DEF T
<1>9. MacOf(meant) = [token |-> token.id, message |-> e] /\ MacOf(meant) \in AuthMessage!Macs
  BY <1>1, <1>2, <1>7, <1>8 DEF MacOf, AuthMessage!Macs
<1> HIDE DEF r, e, n
<1>10. r # Absent /\ e # Absent /\ MacOf(meant) # Absent /\ n # Absent
  <2>1. r \in AuthMessage!Requests
    BY <1>2, <1>6, <1>9 DEF AuthMessage!Requests
  <2> QED  BY <1>2, <1>8, <1>9, <2>1 DEF AuthMessage!ConstantsOK
<1>11. r.sub = meant.sub /\ r.protocol = n /\ r.param = MacOf(meant)
  BY <1>6
<1>12. AuthMessage!verify_pin_uv_auth_for_operation(r, e, AuthMessage!Permission[command])
  BY <1>1, <1>9, <1>10, <1>11 DEF AuthMessage!verify_pin_uv_auth_for_operation,
     AuthMessage!verify_pin_uv_auth_message, n
<1>13. done' = [cmd |-> command, sub |-> r.sub, params |-> r.params]
  BY <1>1, <1>2, <1>10, <1>11, <1>12 DEF AuthMessage!Carried
<1> QED  BY <1>1, <1>13

LEMMA AuthInit ==
  ASSUME AuthMessage!ConstantsOK, AuthMessage!Init
  PROVE  AuthInv
<1> QED
  BY DEF AuthMessage!ConstantsOK, AuthMessage!Init, AuthInv, AuthMessage!TypeOK,
     AuthMessage!DoneAsAuthorized, AuthMessage!AuthorizedIsDone

LEMMA HandledStep ==
  ASSUME AuthMessage!ConstantsOK, AuthInv, Handled
  PROVE  AuthInv'
<1>1. /\ meant # Absent /\ token' = token /\ issued' = issued /\ meant' = meant
      /\ command' = command /\ wire' = wire /\ changes' = changes
  BY DEF Handled
<1>2. AuthMessage!DoneAsAuthorized'
  BY <1>1, HandledAsMeant DEF AuthMessage!DoneAsAuthorized
<1>3. AuthMessage!AuthorizedIsDone'
  BY <1>1, HandledIsDone DEF AuthMessage!AuthorizedIsDone
<1>4. AuthMessage!TypeOK'
  BY <1>1, HandledAsMeant DEF AuthInv, AuthMessage!TypeOK
<1> QED  BY <1>1, <1>2, <1>3, <1>4 DEF AuthInv

LEMMA NewTokenIsToken ==
  ASSUME NEW id \in Nat, NEW t \in AuthMessage!NewToken(id)
  PROVE  t \in AuthMessage!Tokens
<1>1. PICK p \in {1, 2}, ps \in (SUBSET {"acfg", "cm"}) \ {{}}, rp \in {Absent, "rp"} :
        t = [id |-> id, protocol |-> p, permissions |-> ps, rp |-> rp]
  BY DEF AuthMessage!NewToken
<1>2. ps \in SUBSET {"acfg", "cm"}
  BY Zenon
<1> QED  BY <1>1, <1>2, Zenon DEF AuthMessage!Tokens

LEMMA AuthIssueStep ==
  ASSUME AuthMessage!ConstantsOK, AuthInv, AuthMessage!Issue
  PROVE  AuthInv'
<1>1. /\ token = Absent \/ changes < MaxChanges
      /\ done = Absent /\ token' \in AuthMessage!NewToken(issued + 1) /\ issued' = issued + 1
      /\ changes' = IF token = Absent THEN changes ELSE changes + 1
      /\ meant' = meant /\ command' = command /\ wire' = wire /\ done' = done
  BY DEF AuthMessage!Issue
<1>2. token'.id = issued + 1 /\ issued \in Nat
  BY <1>1 DEF AuthMessage!NewToken, AuthInv
<1>3. /\ changes \in 0 .. MaxChanges /\ MaxChanges \in Nat /\ command \in AuthMessage!Commands \cup {Absent}
      /\ token # Absent => token \in AuthMessage!NewToken(issued)
  BY DEF AuthInv, AuthMessage!TypeOK, AuthMessage!ConstantsOK
<1>4. AuthMessage!TypeOK'
  BY <1>1, <1>2, <1>3 DEF AuthMessage!TypeOK
<1>5. AuthMessage!DoneAsAuthorized' /\ AuthMessage!AuthorizedIsDone'
  BY <1>1 DEF AuthMessage!DoneAsAuthorized, AuthMessage!AuthorizedIsDone
<1>6. ASSUME meant # Absent
      PROVE  /\ token' # Absent /\ meant.token.id < token'.id /\ changes' # 0
  <2>1. /\ token # Absent /\ (token = meant.token \/ meant.token.id < token.id)
        /\ meant.token.id \in Nat
    BY <1>6 DEF AuthInv, MeantOK
  <2>2. token.id = issued
    BY <1>3, <2>1 DEF AuthMessage!NewToken
  <2>3. token' # Absent
    <3>1. token' \in AuthMessage!Tokens
      <4>1. token' \in AuthMessage!NewToken(issued + 1) /\ issued + 1 \in Nat
        BY <1>1, <1>2
      <4> QED  BY <4>1, NewTokenIsToken
    <3> QED  BY <3>1 DEF AuthMessage!ConstantsOK
  <2> QED  BY <1>1, <1>2, <1>3, <2>1, <2>2, <2>3
<1>7. ASSUME meant' # Absent
      PROVE  /\ MeantOK(meant') /\ token' # Absent /\ (token' = meant'.token \/ meant'.token.id < token'.id)
             /\ wire' \in Seq(AuthEntries(meant')) /\ command' \in AuthMessage!Commands
             /\ changes' # 0
  BY <1>1, <1>6, <1>7 DEF AuthInv
<1> QED  BY <1>1, <1>2, <1>4, <1>5, <1>7 DEF AuthInv

LEMMA AuthorizeStep ==
  ASSUME AuthMessage!ConstantsOK, AuthInv, AuthMessage!Authorize
  PROVE  AuthInv'
<1>1. PICK cmd \in AuthMessage!Commands, params \in Params \cup {Absent} :
        \E sub \in AuthMessage!SubCommands[cmd] \cap {1, 4, 7} :
          LET message == (IF cmd = "config" THEN <<13>> ELSE <<>>) \o <<sub>>
                           \o (IF params = Absent THEN <<>> ELSE <<params>>)
          IN  /\ meant' = [cmd |-> cmd, sub |-> sub, params |-> params, token |-> token]
              /\ command' = cmd
              /\ wire' = AuthMessage!Written(sub, params, token.protocol,
                                             [token |-> token.id, message |-> message])
  BY Zenon DEF AuthMessage!Authorize
<1>2. PICK sub \in AuthMessage!SubCommands[cmd] \cap {1, 4, 7} :
          /\ meant' = [cmd |-> cmd, sub |-> sub, params |-> params, token |-> token]
          /\ command' = cmd
          /\ wire' = AuthMessage!Written(sub, params, token.protocol,
                        [token |-> token.id, message |-> AuthMsg(cmd, sub, params)])
  BY <1>1, Zenon DEF AuthMsg
<1>3. /\ token # Absent /\ meant = Absent /\ token' = token /\ issued' = issued
      /\ done' = done /\ changes' = changes
  BY DEF AuthMessage!Authorize
<1>4. done = Absent
  BY <1>3 DEF AuthInv
<1>5. /\ meant'.cmd = cmd /\ meant'.sub = sub /\ meant'.params = params /\ meant'.token = token
  BY <1>2
<1>6. wire' = AuthMessage!Written(meant'.sub, meant'.params, meant'.token.protocol, MacOf(meant'))
  BY <1>2, <1>5 DEF MacOf
<1>7. token.id \in Nat /\ token.protocol \in {1, 2}
  <2>1. token \in AuthMessage!NewToken(issued) /\ issued \in Nat
    BY <1>3 DEF AuthInv, AuthMessage!TypeOK
  <2> QED  BY <2>1 DEF AuthMessage!NewToken
<1>8. MeantOK(meant')
  BY <1>2, <1>5, <1>7 DEF MeantOK
<1>9. wire' \in Seq(AuthEntries(meant'))
  <2> DEFINE E == AuthEntries(meant')
             e1 == AuthMessage!Entry("subCommand", FALSE, sub)
             e2 == AuthMessage!Entry("params", FALSE, params)
             e3 == AuthMessage!Entry("protocol", FALSE, meant'.token.protocol)
             e4 == AuthMessage!Entry("param", FALSE, MacOf(meant'))
             b == IF params = Absent THEN <<>> ELSE <<e2>>
  <2>1. e1 \in E /\ (params # Absent => e2 \in E) /\ e3 \in E /\ e4 \in E
    <3>1. sub \in Nat
      OBVIOUS
    <3>2. e1 \in E
      BY <3>1 DEF AuthEntries, AuthMessage!Entry
    <3>3. params # Absent => e2 \in E
      BY DEF AuthEntries, AuthMessage!Entry
    <3>4. e3 \in E /\ e4 \in E
      BY DEF AuthEntries, AuthMessage!Entry
    <3> QED  BY <3>2, <3>3, <3>4
  <2>2. wire' = <<e1>> \o b \o <<e3, e4>>
    BY <1>5, <1>6 DEF AuthMessage!Written
  <2> HIDE DEF E, e1, e2, e3, e4
  <2>3. <<e1>> \in Seq(E) /\ b \in Seq(E) /\ <<e3, e4>> \in Seq(E)
    BY <2>1
  <2> HIDE DEF b
  <2>4. wire' \in Seq(E)
    BY <2>2, <2>3
  <2> QED  BY <2>4 DEF E
<1>10. AuthMessage!TypeOK'
  BY <1>2, <1>3, <1>4 DEF AuthInv, AuthMessage!TypeOK
<1>11. AuthMessage!DoneAsAuthorized' /\ AuthMessage!AuthorizedIsDone'
  BY <1>3, <1>4 DEF AuthMessage!DoneAsAuthorized, AuthMessage!AuthorizedIsDone
<1> QED  BY <1>2, <1>3, <1>4, <1>5, <1>6, <1>8, <1>9, <1>10, <1>11 DEF AuthInv

LEMMA AuthChangeStep ==
  ASSUME AuthMessage!ConstantsOK, AuthInv, AuthMessage!Change
  PROVE  AuthInv'
<1> DEFINE E == AuthEntries(meant)
<1>1. /\ meant # Absent /\ done = Absent /\ changes < MaxChanges /\ changes' = changes + 1
      /\ token' = token /\ issued' = issued /\ meant' = meant /\ done' = done
  BY DEF AuthMessage!Change
<1>2. wire \in Seq(E) /\ command \in AuthMessage!Commands
  BY <1>1 DEF AuthInv
<1>3. ASSUME NEW e \in E, wire' \in {Append(wire, e), <<e>> \o wire}
      PROVE  wire' \in Seq(E)
  <2> HIDE DEF E
  <2>1. <<e>> \in Seq(E)
    OBVIOUS
  <2>2. Append(wire, e) \in Seq(E)
    BY <1>2
  <2> DEFINE one == <<e>>
  <2> HIDE DEF one
  <2>3. one \in Seq(E)
    BY <2>1 DEF one
  <2>4. one \o wire \in Seq(E)
    BY <1>2, <2>3
  <2> QED  BY <1>3, <2>2, <2>4, Zenon DEF one
<1>4. \A sub \in {1, 4, 13}, text \in BOOLEAN : AuthMessage!Entry("subCommand", text, sub) \in E
  BY DEF AuthMessage!Entry, AuthEntries
<1>5. \A params \in Params, text \in BOOLEAN : AuthMessage!Entry("params", text, params) \in E
  BY DEF AuthMessage!Entry, AuthEntries
<1>6. ASSUME NEW i \in DOMAIN wire, wire' = SubSeq(wire, 1, i - 1) \o SubSeq(wire, i + 1, Len(wire))
      PROVE  wire' \in Seq(E)
  <2> HIDE DEF E
  <2>2. i \in 1 .. Len(wire) /\ Len(wire) \in Nat
    BY <1>2, <1>6
  <2>3. SubSeq(wire, 1, i - 1) \in Seq(E)
    BY <1>2, <2>2
  <2>4. SubSeq(wire, i + 1, Len(wire)) \in Seq(E)
    BY <1>2, <2>2
  <2> QED  BY <1>6, <2>3, <2>4
<1>7. wire' \in Seq(E) /\ command' \in AuthMessage!Commands
  <2>1. CASE /\ \E sub \in {1, 4, 13}, text \in BOOLEAN :
                  wire' \in {Append(wire, AuthMessage!Entry("subCommand", text, sub)),
                             <<AuthMessage!Entry("subCommand", text, sub)>> \o wire}
             /\ command' = command
    <3> HIDE DEF E
    <3> QED  BY <1>2, <1>3, <1>4, <2>1, Zenon
  <2>2. CASE /\ \E params \in Params, text \in BOOLEAN :
                  wire' \in {Append(wire, AuthMessage!Entry("params", text, params)),
                             <<AuthMessage!Entry("params", text, params)>> \o wire}
             /\ command' = command
    <3> HIDE DEF E
    <3> QED  BY <1>2, <1>3, <1>5, <2>2, Zenon
  <2>3. CASE /\ \E i \in DOMAIN wire : wire' = SubSeq(wire, 1, i - 1) \o SubSeq(wire, i + 1, Len(wire))
             /\ command' = command
    <3> HIDE DEF E
    <3> QED  BY <1>2, <1>6, <2>3, Zenon
  <2>4. CASE command' \in AuthMessage!Commands /\ wire' = wire
    BY <1>2, <2>4
  <2> HIDE DEF E
  <2> QED  BY <2>1, <2>2, <2>3, <2>4, Zenon DEF AuthMessage!Change
<1>8. changes' \in 0 .. MaxChanges /\ changes' # 0
  BY <1>1 DEF AuthInv, AuthMessage!TypeOK, AuthMessage!ConstantsOK
<1>9. AuthMessage!TypeOK'
  BY <1>1, <1>7, <1>8 DEF AuthInv, AuthMessage!TypeOK
<1>10. AuthMessage!DoneAsAuthorized' /\ AuthMessage!AuthorizedIsDone'
  BY <1>1 DEF AuthMessage!DoneAsAuthorized, AuthMessage!AuthorizedIsDone
<1> QED  BY <1>1, <1>7, <1>8, <1>9, <1>10 DEF AuthInv

LEMMA AuthStep ==
  ASSUME AuthMessage!ConstantsOK, AuthInv, AuthMessage!Next \/ UNCHANGED AuthMessage!vars
  PROVE  AuthInv'
<1>1. CASE UNCHANGED AuthMessage!vars
  BY <1>1 DEF AuthMessage!vars, AuthInv, AuthMessage!TypeOK, AuthMessage!DoneAsAuthorized,
     AuthMessage!AuthorizedIsDone
<1>2. CASE AuthMessage!handle_authnr_config \/ AuthMessage!handle_credential_management
  BY <1>2, HandlersAre, HandledStep
<1> QED
  BY <1>1, <1>2, AuthIssueStep, AuthorizeStep, AuthChangeStep DEF AuthMessage!Next

\* For any parameters and any number of changes on the way: a sub-command is carried out
\* only as the platform's MAC covers it, under the token that is still current, and one
\* that arrives unchanged is carried out (authnr_config_auth_message, decode_cred_mgmt,
\* verify_pin_uv_auth_for_operation).
THEOREM CommandsAreAuthorized == MCSpec => []DoneAsAuthorized
<1> DEFINE I == part = "authorized" => AuthInv
<1>1. AuthMessage!ConstantsOK
  BY Constants
<1>2. MCInit => I
  BY <1>1, AuthInit DEF MCInit
<1>3. I /\ [MCNext]_allvars => I'
  <2> SUFFICES ASSUME I, [MCNext]_allvars, part' = "authorized" PROVE AuthInv'
    OBVIOUS
  <2>1. part = "authorized" /\ (AuthMessage!Next \/ UNCHANGED AuthMessage!vars)
    BY DEF MCNext, allvars, AuthMessage!vars
  <2> QED  BY <1>1, <2>1, AuthStep
<1>4. I => DoneAsAuthorized
  BY DEF DoneAsAuthorized, AuthInv
<1> QED  BY <1>2, <1>3, <1>4, PTL DEF MCSpec

----------------------------------------------------------------------------
(* The links (Links), for any links, message lengths and number of messages   *)
(* and faults.  MessagesIntact looks at what recv returned; the invariant     *)
(* follows the fragments from the host through the driver into the assembler: *)
(* over HID each one continues the one before it or begins a message; on a    *)
(* link that is not torn every message ends before the next begins, and a     *)
(* message that waits has its last fragment in the driver.                    *)

LinkFields == {"initialized", "up", "rx", "inq"}

\* An assembler that holds the beginning of one message.
Partial(rx) ==
  /\ rx \in Links!Assemblies
  /\ Len(rx.buf) \in 1 .. rx.of - 1
  /\ \E m \in 1 .. MaxMsgs : \A k \in 1 .. Len(rx.buf) : rx.buf[k] = Links!Unit(m, k, rx.of)
LastOf(rx) == rx.buf[Len(rx.buf)]

\* The fragment after a, of the same message, and one that may come after a.
Continues(a, b) == a.part < a.of /\ b = Links!Unit(a.msg, a.part + 1, a.of)
Adjacent(a, b) == b.part = 1 \/ Continues(a, b)
InOrder(a, b) == IF a.part = a.of THEN b.part = 1 ELSE Continues(a, b)

\* A HID link: h is the fragment its host wrote last, of a message under way.
WeakLink(link, h) ==
  LET n == Len(link.inq) IN
  /\ link.rx # Absent => Partial(link.rx)
  /\ \A k \in 1 .. n - 1 : Adjacent(link.inq[k], link.inq[k + 1])
  /\ link.rx # Absent /\ n > 0 => Adjacent(LastOf(link.rx), link.inq[1])
  /\ h # Absent /\ n > 0 => link.inq[n] = h
  /\ h # Absent /\ n = 0 /\ link.rx # Absent => LastOf(link.rx) = h

\* A link that is not torn.
StrongLink(link, h) ==
  LET n == Len(link.inq) IN
  /\ link.rx # Absent => Partial(link.rx)
  /\ \A k \in 1 .. n - 1 : InOrder(link.inq[k], link.inq[k + 1])
  /\ n > 0 => IF link.rx = Absent THEN link.inq[1].part = 1
              ELSE Continues(LastOf(link.rx), link.inq[1])
  /\ n > 0 => IF h # Absent THEN link.inq[n] = h ELSE link.inq[n].part = link.inq[n].of
  /\ n = 0 => IF h # Absent THEN link.rx # Absent /\ LastOf(link.rx) = h ELSE link.rx = Absent

Fragments == {u \in Links!Units : u.part <= u.of}

\* The last fragment of each message of w waits in the driver.
Ends(u) == u.part = u.of
Waits(w, q) == \A m \in w : \E k \in 1 .. Len(q) : q[k].msg = m /\ Ends(q[k])

LinkOK(i, link, h, t, w) ==
  /\ link = [f \in LinkFields |-> link[f]]
  /\ link.initialized \in BOOLEAN /\ link.up \in BOOLEAN /\ link.inq \in Seq(Fragments)
  /\ link.rx # Absent => Links!Framed(i) /\ link.rx \in Links!Assemblies
  /\ h # Absent => Links!Framed(i) /\ h \in Fragments /\ h.part < h.of
  /\ ~Links!Framed(i) => \A k \in 1 .. Len(link.inq) : link.inq[k].of = 1
  /\ Kinds[i] = "hid" => WeakLink(link, h)
  /\ ~t => StrongLink(link, h) /\ Waits(w, link.inq)

LinksInv ==
  /\ begun \in 0 .. MaxMsgs /\ faults \in 0 .. LinkFaults
  /\ waiting \in [Links!Ids -> SUBSET (1 .. MaxMsgs)] /\ severed \in [Links!Ids -> BOOLEAN]
  /\ links = [i \in Links!Ids |-> links[i]] /\ host = [i \in Links!Ids |-> host[i]]
  /\ \A i \in Links!Ids : LinkOK(i, links[i], host[i], severed[i], waiting[i])
  /\ Links!MessagesIntact /\ Links!NothingHidden

\* One fragment of the read loop.
ReadNext(i, link, len, before, k) ==
  IF before.out # Absent THEN before
  ELSE [rx |-> Links!Step(i, before.rx, link.inq[k], len).rx,
        out |-> Links!Step(i, before.rx, link.inq[k], len).out, used |-> k]

\* The read loop is defined, fragment by fragment.
LEMMA ReadIs ==
  ASSUME NEW i, NEW link, NEW len, Len(link.inq) \in Nat
  PROVE  /\ Links!Read(i, link, len)[0] = [rx |-> link.rx, out |-> Absent, used |-> 0]
         /\ \A k \in 1 .. Len(link.inq) :
              Links!Read(i, link, len)[k] = ReadNext(i, link, len, Links!Read(i, link, len)[k - 1], k)
<1> DEFINE n == Len(link.inq)
           first == [rx |-> link.rx, out |-> Absent, used |-> 0]
           Is(N, g) == g = [k \in 0 .. N |-> IF k = 0 THEN first
                                             ELSE ReadNext(i, link, len, g[k - 1], k)]
           T == {N \in Nat : ~\E g : Is(N, g)}
<1>1. T = {}
  <2> SUFFICES ASSUME T # {} PROVE FALSE
    OBVIOUS
  <2>1. PICK N \in T : \A m \in T : N <= m
    <3>1. T \subseteq Nat
      OBVIOUS
    <3> HIDE DEF T
    <3> QED  BY <3>1, LeastNat
  <2>2. N \in Nat /\ ~\E g : Is(N, g)
    OBVIOUS
  <2>3. N # 0
    <3> DEFINE g == [k \in 0 .. 0 |-> first]
    <3> HIDE DEF first
    <3>1. Is(0, g)
      OBVIOUS
    <3> QED  BY <2>2, <3>1
  <2>4. PICK g : Is(N - 1, g)
    <3>1. N - 1 \in Nat /\ ~(N <= N - 1)
      BY <2>2, <2>3
    <3>2. N - 1 \notin T
      BY <2>1, <3>1
    <3> QED  BY <3>1, <3>2
  <2> DEFINE g2 == [k \in 0 .. N |-> IF k = N THEN ReadNext(i, link, len, g[N - 1], N) ELSE g[k]]
  <2> HIDE DEF first, T
  <2>5. ASSUME NEW k \in 0 .. N
        PROVE  g2[k] = IF k = 0 THEN first ELSE ReadNext(i, link, len, g2[k - 1], k)
    <3>1. CASE k = N
      <4>1. g2[k - 1] = g[N - 1]
        BY <2>2, <2>3, <3>1
      <4> QED  BY <2>2, <2>3, <3>1, <4>1
    <3>2. CASE k # N
      <4>1. k \in 0 .. N - 1 /\ g2[k] = g[k]
        BY <2>2, <3>2
      <4>2. g[k] = IF k = 0 THEN first ELSE ReadNext(i, link, len, g[k - 1], k)
        BY <2>4, <4>1
      <4>3. k # 0 => g2[k - 1] = g[k - 1]
        BY <2>2, <4>1
      <4> QED  BY <4>1, <4>2, <4>3
    <3> QED  BY <3>1, <3>2
  <2>6. Is(N, g2)
    <3> DEFINE g3 == [k \in 0 .. N |-> IF k = 0 THEN first
                                       ELSE ReadNext(i, link, len, g2[k - 1], k)]
    <3>1. DOMAIN g2 = 0 .. N /\ g2 = [k \in 0 .. N |-> g2[k]]
      OBVIOUS
    <3>2. \A k \in 0 .. N : g2[k] = g3[k]
      BY <2>5
    <3> HIDE DEF g2
    <3>3. g2 = g3
      BY <3>1, <3>2
    <3> QED  BY <3>3
  <2> QED  BY <2>2, <2>6
<1>2. PICK g : Is(n, g)
  BY <1>1
<1> DEFINE R == CHOOSE h : Is(n, h)
<1>3. Is(n, R)
  BY <1>2
<1>4. Links!Read(i, link, len) = R
  BY DEF Links!Read, ReadNext
<1> HIDE DEF R, first
<1>5. R[0] = first /\ \A k \in 1 .. n : R[k] = ReadNext(i, link, len, R[k - 1], k)
  <2>1. n \in Nat
    OBVIOUS
  <2> HIDE DEF n
  <2>2. 0 \in 0 .. n /\ (\A k \in 1 .. n : k \in 0 .. n /\ k # 0)
    BY <2>1
  <2>3. \A k \in 0 .. n : R[k] = IF k = 0 THEN first ELSE ReadNext(i, link, len, R[k - 1], k)
    BY <1>3, Zenon
  <2> QED  BY <2>2, <2>3
<1> QED  BY <1>4, <1>5 DEF first

LEMMA FragmentIs ==
  ASSUME NEW f \in Fragments
  PROVE  /\ f \in Links!Units /\ f.msg \in 1 .. MaxMsgs /\ f.part \in 1 .. MaxLen
         /\ f.of \in 1 .. MaxLen /\ f.part <= f.of
         /\ f = Links!Unit(f.msg, f.part, f.of)
<1> QED  BY DEF Fragments, Links!Units, Links!Unit

\* An assembler begun with a first fragment.
LEMMA PartialFirst ==
  ASSUME Links!ConstantsOK, NEW f \in Fragments, f.part = 1
  PROVE  /\ f.of = 1 => <<f>> = Links!Whole(f.msg, f.of)
         /\ f.of # 1 => LET r == [of |-> f.of, buf |-> <<f>>] IN Partial(r) /\ LastOf(r) = f
<1>1. /\ f \in Links!Units /\ f.msg \in 1 .. MaxMsgs /\ f.of \in 1 .. MaxLen
      /\ f = Links!Unit(f.msg, 1, f.of)
  BY FragmentIs
<1> DEFINE b == <<f>>
<1>2. b \in Seq(Links!Units) /\ Len(b) = 1 /\ b[1] = f
  BY <1>1
<1>3. f.of = 1 => <<f>> = Links!Whole(f.msg, f.of)
  <2> SUFFICES ASSUME f.of = 1 PROVE b = Links!Whole(f.msg, 1)
    OBVIOUS
  <2>1. Links!Whole(f.msg, 1) = [k \in 1 .. 1 |-> Links!Unit(f.msg, k, 1)]
    BY DEF Links!Whole
  <2>2. b = [k \in 1 .. 1 |-> b[k]]
    OBVIOUS
  <2>3. b[1] = Links!Unit(f.msg, 1, 1)
    BY <1>1, <1>2
  <2> HIDE DEF b
  <2> QED  BY <2>1, <2>2, <2>3
<1> HIDE DEF b
<1> DEFINE r == [of |-> f.of, buf |-> b]
<1>4. f.of # 1 => Partial(r) /\ LastOf(r) = f
  <2> SUFFICES ASSUME f.of # 1 PROVE Partial(r) /\ LastOf(r) = f
    OBVIOUS
  <2>1. r.of = f.of /\ r.buf = b /\ r \in Links!Assemblies
    BY <1>1, <1>2 DEF Links!Assemblies
  <2> HIDE DEF r
  <2>2. Len(r.buf) \in 1 .. r.of - 1
    <3>1. f.of \in Int /\ f.of >= 2
      BY <1>1
    <3>2. Len(r.buf) = 1
      BY <1>2, <2>1, Zenon
    <3>3. r.of - 1 = f.of - 1
      BY <2>1
    <3> QED  BY <3>1, <3>2, <3>3
  <2>3. \A k \in 1 .. Len(r.buf) : r.buf[k] = Links!Unit(f.msg, k, r.of)
    <3>1. Len(r.buf) = 1 /\ r.buf[1] = f
      BY <1>2, <2>1, Zenon
    <3>2. f = Links!Unit(f.msg, 1, r.of)
      BY <1>1, <2>1, Zenon
    <3>3. \A k \in 1 .. 1 : k = 1
      OBVIOUS
    <3> QED  BY <3>1, <3>2, <3>3, Zenon
  <2> QED  BY <1>1, <1>2, <2>1, <2>2, <2>3 DEF Partial, LastOf
<1> QED  BY <1>3, <1>4 DEF b

\* An assembler continued with the next fragment of its message.
LEMMA PartialNext ==
  ASSUME Links!ConstantsOK, NEW rx, Partial(rx), NEW f \in Fragments, Continues(LastOf(rx), f)
  PROVE  /\ f.of = rx.of /\ f.part = Len(rx.buf) + 1 /\ f.part # 1
         /\ Len(Append(rx.buf, f)) = f.part
         /\ f.part = f.of => Append(rx.buf, f) = Links!Whole(f.msg, f.of)
         /\ f.part # f.of => LET r == [rx EXCEPT !.buf = Append(@, f)]
                             IN  /\ Partial(r) /\ LastOf(r) = f
                                 /\ r.of = rx.of /\ r.buf = Append(rx.buf, f)
<1> DEFINE b == Append(rx.buf, f)
           l == Len(rx.buf)
<1>1. /\ f \in Links!Units /\ f.msg \in 1 .. MaxMsgs /\ f.part \in 1 .. MaxLen
      /\ f.of \in 1 .. MaxLen /\ f.part <= f.of
  BY FragmentIs
<1>2. /\ rx \in Links!Assemblies /\ rx.buf \in Seq(Links!Units) /\ rx.of \in 1 .. MaxLen
      /\ l \in 1 .. rx.of - 1 /\ l \in Nat
  BY DEF Partial, Links!Assemblies
<1>3. PICK m \in 1 .. MaxMsgs : \A k \in 1 .. l : rx.buf[k] = Links!Unit(m, k, rx.of)
  BY DEF Partial
<1>4. LastOf(rx) = Links!Unit(m, l, rx.of)
  BY <1>2, <1>3 DEF LastOf
<1>5. f = Links!Unit(m, l + 1, rx.of)
  BY <1>4 DEF Continues, Links!Unit
<1>6. f.msg = m /\ f.part = l + 1 /\ f.of = rx.of
  BY <1>5 DEF Links!Unit
<1>7. b \in Seq(Links!Units) /\ Len(b) = l + 1 /\ \A k \in 1 .. l + 1 : b[k] = Links!Unit(m, k, rx.of)
  <2>1. /\ b \in Seq(Links!Units) /\ Len(b) = l + 1 /\ b[l + 1] = f
        /\ \A k \in 1 .. l : b[k] = rx.buf[k]
    BY <1>1, <1>2
  <2> HIDE DEF b, l
  <2> QED  BY <1>2, <1>3, <1>5, <2>1
<1> HIDE DEF b
<1>8. f.part = f.of => b = Links!Whole(f.msg, f.of)
  <2> SUFFICES ASSUME f.part = f.of PROVE b = Links!Whole(m, l + 1)
    BY <1>6
  <2>1. Links!Whole(m, l + 1) = [k \in 1 .. l + 1 |-> Links!Unit(m, k, l + 1)]
    BY DEF Links!Whole
  <2>2. b = [k \in 1 .. l + 1 |-> b[k]]
    BY <1>7
  <2>3. rx.of = l + 1
    BY <1>6
  <2>4. \A k \in 1 .. l + 1 : b[k] = Links!Unit(m, k, l + 1)
    BY <1>7, <2>3
  <2> HIDE DEF l
  <2> QED  BY <2>1, <2>2, <2>4
<1> DEFINE r == [rx EXCEPT !.buf = b]
<1>9. f.part # f.of => Partial(r) /\ LastOf(r) = f /\ r.of = rx.of /\ r.buf = b
  <2> SUFFICES ASSUME f.part # f.of PROVE Partial(r) /\ LastOf(r) = f /\ r.of = rx.of /\ r.buf = b
    OBVIOUS
  <2>1. r.of = rx.of /\ r.buf = b /\ r \in Links!Assemblies
    BY <1>2, <1>7 DEF Links!Assemblies
  <2> HIDE DEF r
  <2>2. Len(r.buf) \in 1 .. r.of - 1
    BY <1>1, <1>2, <1>6, <1>7, <2>1
  <2>3. \A k \in 1 .. Len(r.buf) : r.buf[k] = Links!Unit(m, k, r.of)
    BY <1>7, <2>1
  <2>4. Partial(r)
    BY <2>1, <2>2, <2>3 DEF Partial
  <2>5. LastOf(r) = f
    BY <1>2, <1>5, <1>7, <2>1 DEF LastOf
  <2> QED  BY <2>1, <2>4, <2>5
<1>10. f.part # 1
  BY <1>2, <1>6
<1> QED  BY <1>6, <1>7, <1>8, <1>9, <1>10 DEF b

\* One fragment of a link in order: a message that ends is returned whole.
LEMMA StrongStep ==
  ASSUME Links!ConstantsOK, NEW i \in Links!Ids, NEW rx, NEW f \in Fragments, NEW len,
         Links!Framed(i) \/ (rx = Absent /\ f.of = 1),
         rx = Absent => f.part = 1,
         rx # Absent => Partial(rx) /\ Continues(LastOf(rx), f)
  PROVE  LET s == Links!Step(i, rx, f, len) IN
         /\ f.part = f.of => s.out = Links!Whole(f.msg, f.of) /\ s.rx = Absent
         /\ f.part # f.of => s.out = Absent /\ Partial(s.rx) /\ LastOf(s.rx) = f
<1> DEFINE s == Links!Step(i, rx, f, len)
           Good(t) == /\ f.part = f.of => t.out = Links!Whole(f.msg, f.of) /\ t.rx = Absent
                      /\ f.part # f.of => t.out = Absent /\ Partial(t.rx) /\ LastOf(t.rx) = f
           one == [of |-> f.of, buf |-> <<f>>]
           more == [rx EXCEPT !.buf = Append(@, f)]
<1>1. /\ f \in Links!Units /\ f.msg \in 1 .. MaxMsgs /\ f.part \in 1 .. MaxLen
      /\ f.of \in 1 .. MaxLen /\ f.part <= f.of
  BY FragmentIs
<1>2. CASE ~Links!Framed(i)
  <2>1. s = [rx |-> Absent, out |-> <<f>>]
    BY <1>2 DEF Links!Step, Links!Framed
  <2>2. f.part = 1 /\ f.of = 1 /\ <<f>> = Links!Whole(f.msg, f.of)
    BY <1>2, PartialFirst
  <2>3. s.rx = Absent /\ s.out = <<f>>
    BY <2>1
  <2> HIDE DEF s
  <2> QED  BY <2>2, <2>3 DEF s
<1>3. CASE rx = Absent /\ Links!Framed(i)
  <2>1. f.part = 1
    BY <1>3
  <2>2. /\ f.of = 1 => <<f>> = Links!Whole(f.msg, f.of)
        /\ f.of # 1 => Partial(one) /\ LastOf(one) = f
    BY <2>1, PartialFirst
  <2>3. one.of = f.of /\ one.buf = <<f>> /\ Len(<<f>>) = 1
    OBVIOUS
  <2> HIDE DEF one
  <2>4. IF f.of = 1 THEN s.out = <<f>> /\ s.rx = Absent ELSE s.out = Absent /\ s.rx = one
    <3>1. CASE Kinds[i] = "hid"
      <4>1. s = Links!HidStep(rx, f)
        BY <3>1 DEF Links!Step
      <4>2. s = IF f.of = 1 THEN [rx |-> Absent, out |-> <<f>>] ELSE [rx |-> one, out |-> Absent]
        BY <2>1, <4>1 DEF Links!HidStep, one
      <4> HIDE DEF s
      <4> QED  BY <4>2
    <3>2. CASE Kinds[i] = "ble"
      <4>1. s = Links!BleStep(rx, f, len)
        BY <3>2 DEF Links!Step
      <4>2. s = IF Len(one.buf) > one.of THEN [rx |-> Absent, out |-> Nothing]
                ELSE IF Len(one.buf) = one.of THEN [rx |-> Absent, out |-> one.buf]
                ELSE [rx |-> one, out |-> Absent]
        BY <1>3, <2>1, <4>1 DEF Links!BleStep, one
      <4>3. s = IF f.of = 1 THEN [rx |-> Absent, out |-> <<f>>] ELSE [rx |-> one, out |-> Absent]
        BY <1>1, <2>3, <4>2
      <4> HIDE DEF s
      <4> QED  BY <4>3
    <3> QED  BY <1>3, <3>1, <3>2 DEF Links!Framed
  <2> HIDE DEF s
  <2> QED  BY <2>1, <2>2, <2>4 DEF s
<1>4. CASE rx # Absent /\ Links!Framed(i)
  <2>1. Partial(rx) /\ Continues(LastOf(rx), f)
    BY <1>4
  <2>2. /\ f.of = rx.of /\ f.part = Len(rx.buf) + 1 /\ f.part # 1
        /\ Len(Append(rx.buf, f)) = f.part
        /\ f.part = f.of => Append(rx.buf, f) = Links!Whole(f.msg, f.of)
        /\ f.part # f.of => Partial(more) /\ LastOf(more) = f
    BY <2>1, PartialNext
  <2>3. more.of = rx.of /\ more.buf = Append(rx.buf, f)
    BY <2>1 DEF Partial, Links!Assemblies
  <2> HIDE DEF more
  <2>4. IF f.part = f.of THEN s.out = Append(rx.buf, f) /\ s.rx = Absent
        ELSE s.out = Absent /\ s.rx = more
    <3>1. CASE Kinds[i] = "hid"
      <4>1. s = Links!HidStep(rx, f)
        BY <3>1 DEF Links!Step
      <4>2. s = IF f.part = rx.of THEN [rx |-> Absent, out |-> Append(rx.buf, f)]
                ELSE [rx |-> more, out |-> Absent]
        BY <1>4, <2>2, <4>1 DEF Links!HidStep, more
      <4> HIDE DEF s
      <4> QED  BY <2>2, <4>2
    <3>2. CASE Kinds[i] = "ble"
      <4>1. s = Links!BleStep(rx, f, len)
        BY <3>2 DEF Links!Step
      <4>2. s = IF Len(more.buf) > more.of THEN [rx |-> Absent, out |-> Nothing]
                ELSE IF Len(more.buf) = more.of THEN [rx |-> Absent, out |-> more.buf]
                ELSE [rx |-> more, out |-> Absent]
        BY <1>4, <4>1 DEF Links!BleStep, more
      <4>3. s = IF f.part = f.of THEN [rx |-> Absent, out |-> Append(rx.buf, f)]
                ELSE [rx |-> more, out |-> Absent]
        BY <1>1, <2>2, <2>3, <4>2
      <4> HIDE DEF s
      <4> QED  BY <4>3
    <3> QED  BY <1>4, <3>1, <3>2 DEF Links!Framed
  <2> HIDE DEF s
  <2> QED  BY <2>2, <2>4 DEF s
<1> QED  BY <1>2, <1>3, <1>4

\* One fragment of a HID link: whatever came before, nothing but a whole message is returned.
LEMMA WeakStep ==
  ASSUME Links!ConstantsOK, NEW i \in Links!Ids, Kinds[i] = "hid", NEW rx, NEW f \in Fragments, NEW len,
         rx # Absent => Partial(rx) /\ Adjacent(LastOf(rx), f)
  PROVE  LET s == Links!Step(i, rx, f, len) IN
         \/ s.out = Absent /\ Partial(s.rx) /\ LastOf(s.rx) = f
         \/ s.rx = Absent /\ s.out \in {Nothing, Links!Whole(f.msg, f.of)}
<1> DEFINE s == Links!Step(i, rx, f, len)
<1>1. s = Links!HidStep(rx, f)
  BY DEF Links!Step
<1>2. CASE f.part = 1
  <2> DEFINE one == [of |-> f.of, buf |-> <<f>>]
  <2>1. s = IF f.of = 1 THEN [rx |-> Absent, out |-> <<f>>] ELSE [rx |-> one, out |-> Absent]
    BY <1>1, <1>2 DEF Links!HidStep
  <2>2. /\ f.of = 1 => <<f>> = Links!Whole(f.msg, f.of)
        /\ f.of # 1 => Partial(one) /\ LastOf(one) = f
    BY <1>2, PartialFirst
  <2> HIDE DEF s, one
  <2>3. IF f.of = 1 THEN s.out = <<f>> /\ s.rx = Absent ELSE s.out = Absent /\ s.rx = one
    BY <2>1
  <2> QED  BY <2>2, <2>3 DEF s
<1>3. CASE f.part # 1 /\ (rx = Absent \/ f.part # Len(rx.buf) + 1)
  <2>1. s = [rx |-> Absent, out |-> Nothing]
    BY <1>1, <1>3 DEF Links!HidStep
  <2> HIDE DEF s
  <2>2. s.rx = Absent /\ s.out = Nothing
    BY <2>1
  <2> QED  BY <2>2 DEF s
<1>4. CASE f.part # 1 /\ rx # Absent /\ f.part = Len(rx.buf) + 1
  <2>1. Partial(rx) /\ Continues(LastOf(rx), f)
    BY <1>4 DEF Adjacent
  <2>2. Links!Framed(i)
    BY DEF Links!Framed
  <2>3. /\ f.part = f.of => s.out = Links!Whole(f.msg, f.of) /\ s.rx = Absent
        /\ f.part # f.of => s.out = Absent /\ Partial(s.rx) /\ LastOf(s.rx) = f
    BY <1>4, <2>1, <2>2, StrongStep
  <2> HIDE DEF s
  <2> QED  BY <2>3 DEF s
<1> QED  BY <1>2, <1>3, <1>4

\* One fragment of any link: assemblers hold, and links return, fragments.
LEMMA TypedStep ==
  ASSUME Links!ConstantsOK, NEW i \in Links!Ids, NEW rx, NEW f \in Fragments, NEW len \in 1 .. MaxLen,
         rx # Absent => Links!Framed(i) /\ rx \in Links!Assemblies
  PROVE  LET s == Links!Step(i, rx, f, len) IN
         /\ s.rx # Absent => Links!Framed(i) /\ s.rx \in Links!Assemblies
         /\ s.out \in Seq(Links!Units) \cup {Absent, Nothing}
<1> DEFINE s == Links!Step(i, rx, f, len)
           of == IF f.part = 1 THEN f.of ELSE len
           one == [of |-> of, buf |-> <<f>>]
           more == [rx EXCEPT !.buf = Append(@, f)]
<1>1. f \in Links!Units /\ f.of \in 1 .. MaxLen /\ of \in 1 .. MaxLen
  BY FragmentIs
<1>2. <<f>> \in Seq(Links!Units) /\ one \in Links!Assemblies /\ one.buf = <<f>>
  <2>1. <<f>> \in Seq(Links!Units)
    BY <1>1
  <2> HIDE DEF of
  <2> QED  BY <1>1, <2>1 DEF Links!Assemblies
<1>3. rx # Absent => /\ more \in Links!Assemblies /\ more.buf = Append(rx.buf, f)
                     /\ Append(rx.buf, f) \in Seq(Links!Units)
  <2> SUFFICES ASSUME rx # Absent
               PROVE  /\ more \in Links!Assemblies /\ more.buf = Append(rx.buf, f)
                      /\ Append(rx.buf, f) \in Seq(Links!Units)
    OBVIOUS
  <2> DEFINE b == Append(rx.buf, f)
  <2>1. rx.buf \in Seq(Links!Units) /\ b \in Seq(Links!Units)
    BY <1>1 DEF Links!Assemblies
  <2>2. more = [rx EXCEPT !.buf = b]
    OBVIOUS
  <2> HIDE DEF b, more
  <2> QED  BY <2>1, <2>2 DEF Links!Assemblies, b
<1>4. \/ s \in {[rx |-> Absent, out |-> <<f>>], [rx |-> Absent, out |-> Nothing]}
      \/ Links!Framed(i) /\ s = [rx |-> one, out |-> Absent]
      \/ Links!Framed(i) /\ rx # Absent
           /\ s \in {[rx |-> Absent, out |-> Append(rx.buf, f)], [rx |-> more, out |-> Absent]}
  <2>1. CASE Kinds[i] = "hid"
    BY <2>1 DEF Links!Step, Links!HidStep, Links!Framed
  <2>2. CASE Kinds[i] = "ble"
    <3>1. s = Links!BleStep(rx, f, len)
      BY <2>2 DEF Links!Step
    <3> DEFINE next == IF rx = Absent THEN one ELSE more
    <3>2. s = IF Len(next.buf) > next.of THEN [rx |-> Absent, out |-> Nothing]
              ELSE IF Len(next.buf) = next.of THEN [rx |-> Absent, out |-> next.buf]
              ELSE [rx |-> next, out |-> Absent]
      BY <3>1 DEF Links!BleStep
    <3>3. Links!Framed(i)
      BY <2>2 DEF Links!Framed
    <3> HIDE DEF one, more, s
    <3> QED  BY <1>2, <1>3, <3>2, <3>3
  <2>3. CASE Kinds[i] \notin {"hid", "ble"}
    BY <2>3 DEF Links!Step
  <2> QED  BY <2>1, <2>2, <2>3
<1> HIDE DEF s, one, more
<1>5. \/ s.rx = Absent /\ s.out \in {<<f>>, Nothing}
      \/ Links!Framed(i) /\ s.rx = one /\ s.out = Absent
      \/ Links!Framed(i) /\ rx # Absent /\ s.rx = Absent /\ s.out = Append(rx.buf, f)
      \/ Links!Framed(i) /\ rx # Absent /\ s.rx = more /\ s.out = Absent
  BY <1>4
<1>6. /\ s.rx # Absent => Links!Framed(i) /\ s.rx \in Links!Assemblies
      /\ s.out \in Seq(Links!Units) \cup {Absent, Nothing}
  BY <1>2, <1>3, <1>5, Zenon
<1> QED  BY <1>6 DEF s

\* Induction up to n, for sets.
LEMMA UpTo ==
  ASSUME NEW n \in Nat, NEW S, 0 \in S, \A k \in 1 .. n : k - 1 \in S => k \in S
  PROVE  \A k \in 0 .. n : k \in S
<1> DEFINE T == {k \in 0 .. n : k \notin S}
<1> SUFFICES ASSUME T # {} PROVE FALSE
  OBVIOUS
<1>1. T \subseteq Nat
  OBVIOUS
<1>2. PICK k \in T : \A m \in T : k <= m
  <2> HIDE DEF T
  <2> QED  BY <1>1, LeastNat
<1>3. k \in 0 .. n /\ k \notin S /\ k # 0
  OBVIOUS
<1>4. k \in 1 .. n /\ k - 1 \in 0 .. n /\ ~(k <= k - 1)
  BY <1>3
<1>5. k - 1 \in S
  BY <1>2, <1>4
<1> QED  BY <1>3, <1>4, <1>5

LEMMA WholeTyped ==
  ASSUME Links!ConstantsOK, NEW m \in 1 .. MaxMsgs, NEW of \in 1 .. MaxLen
  PROVE  Links!Whole(m, of) \in Seq(Links!Units)
<1>1. \A k \in 1 .. of : Links!Unit(m, k, of) \in Links!Units
  <2>1. \A k \in 1 .. of : k \in 1 .. MaxLen
    BY DEF Links!ConstantsOK
  <2> QED  BY <2>1, Zenon DEF Links!Unit, Links!Units
<1>2. of \in Nat
  OBVIOUS
<1> QED  BY <1>1, <1>2 DEF Links!Whole

\* The read loop after k fragments: of any link, of a HID link, of a link in order.
TypedRead(i, k, r) ==
  /\ r.used \in 0 .. k /\ (r.out = Absent => r.used = k)
  /\ r.rx # Absent => Links!Framed(i) /\ r.rx \in Links!Assemblies
  /\ r.out \in Seq(Links!Units) \cup {Absent, Nothing}

WeakRead(link, k, r) ==
  \/ /\ r.out = Absent
     /\ k = 0 => r.rx = link.rx
     /\ k > 0 => Partial(r.rx) /\ LastOf(r.rx) = link.inq[k]
  \/ /\ r.out # Absent /\ r.rx = Absent
     /\ r.out = Nothing \/ \E m \in 1 .. MaxMsgs, of \in 1 .. MaxLen : r.out = Links!Whole(m, of)

StrongRead(link, k, r) ==
  \/ /\ r.out = Absent
     /\ \A j \in 1 .. k : ~Ends(link.inq[j])
     /\ k = 0 => r.rx = link.rx
     /\ k > 0 => Partial(r.rx) /\ LastOf(r.rx) = link.inq[k]
  \/ /\ r.out # Absent /\ r.rx = Absent /\ r.used \in 1 .. k
     /\ r.out = Links!Whole(link.inq[r.used].msg, link.inq[r.used].of)
     /\ Ends(link.inq[r.used]) /\ \A j \in 1 .. r.used - 1 : ~Ends(link.inq[j])

IsRead(R, i, link, len, n) ==
  /\ R[0] = [rx |-> link.rx, out |-> Absent, used |-> 0]
  /\ \A k \in 1 .. n : R[k] = ReadNext(i, link, len, R[k - 1], k)

LEMMA ReadIsRead ==
  ASSUME NEW i, NEW link, NEW len, Len(link.inq) \in Nat
  PROVE  IsRead(Links!Read(i, link, len), i, link, len, Len(link.inq))
<1> QED  BY ReadIs DEF IsRead

LEMMA LoopTyped ==
  ASSUME Links!ConstantsOK, NEW i \in Links!Ids, NEW link, link.inq \in Seq(Fragments),
         link.rx # Absent => Links!Framed(i) /\ link.rx \in Links!Assemblies, NEW len \in 1 .. MaxLen
  PROVE  TypedRead(i, Len(link.inq), Links!Loop(i, link, len))
<1> DEFINE n == Len(link.inq)
           R == Links!Read(i, link, len)
           S == {k \in 0 .. n : TypedRead(i, k, R[k])}
<1>1. n \in Nat
  OBVIOUS
<1>2. R[0] = [rx |-> link.rx, out |-> Absent, used |-> 0]
      /\ \A k \in 1 .. n : R[k] = ReadNext(i, link, len, R[k - 1], k)
  <2>1. IsRead(R, i, link, len, n)
    BY ONLY <1>1, ReadIsRead, Zenon
  <2> HIDE DEF R, n
  <2> QED  BY ONLY <2>1, Zenon DEF IsRead
<1> HIDE DEF R
<1>3. 0 \in S
  <2>1. R[0].rx = link.rx /\ R[0].out = Absent /\ R[0].used = 0
    BY <1>2
  <2> QED  BY <1>1, <2>1 DEF TypedRead
<1>4. ASSUME NEW k \in 1 .. n, k - 1 \in S PROVE k \in S
  <2> DEFINE r == R[k - 1]
             f == link.inq[k]
             s == Links!Step(i, r.rx, f, len)
  <2>1. TypedRead(i, k - 1, r) /\ R[k] = ReadNext(i, link, len, r, k)
    BY <1>2, <1>4
  <2>2. f \in Fragments
    OBVIOUS
  <2>3. CASE r.out # Absent
    <3>1. R[k] = r
      BY <2>1, <2>3 DEF ReadNext
    <3> QED  BY <1>1, <2>1, <2>3, <3>1 DEF TypedRead
  <2>4. CASE r.out = Absent
    <3>1. R[k] = [rx |-> s.rx, out |-> s.out, used |-> k]
      BY <2>1, <2>4 DEF ReadNext
    <3>2. /\ s.rx # Absent => Links!Framed(i) /\ s.rx \in Links!Assemblies
          /\ s.out \in Seq(Links!Units) \cup {Absent, Nothing}
      <4>1. r.rx # Absent => Links!Framed(i) /\ r.rx \in Links!Assemblies
        BY <2>1 DEF TypedRead
      <4> HIDE DEF r, f
      <4> QED  BY <2>2, <4>1, TypedStep
    <3> HIDE DEF s
    <3>3. R[k].rx = s.rx /\ R[k].out = s.out /\ R[k].used = k
      BY <3>1
    <3> QED  BY <1>1, <3>2, <3>3 DEF TypedRead
  <2> QED  BY <2>3, <2>4
<1>5. n \in S
  <2> HIDE DEF S
  <2>1. \A k \in 0 .. n : k \in S
    BY <1>1, <1>3, <1>4, UpTo
  <2> QED  BY <1>1, <2>1
<1> QED  BY <1>5 DEF Links!Loop, R

LEMMA LoopWeak ==
  ASSUME Links!ConstantsOK, NEW i \in Links!Ids, Kinds[i] = "hid", NEW link,
         link.inq \in Seq(Fragments), NEW h, WeakLink(link, h), NEW len
  PROVE  WeakRead(link, Len(link.inq), Links!Loop(i, link, len))
<1> DEFINE n == Len(link.inq)
           R == Links!Read(i, link, len)
           S == {k \in 0 .. n : WeakRead(link, k, R[k])}
<1>1. n \in Nat
  OBVIOUS
<1>2. R[0] = [rx |-> link.rx, out |-> Absent, used |-> 0]
      /\ \A k \in 1 .. n : R[k] = ReadNext(i, link, len, R[k - 1], k)
  <2>1. IsRead(R, i, link, len, n)
    BY ONLY <1>1, ReadIsRead, Zenon
  <2> HIDE DEF R, n
  <2> QED  BY ONLY <2>1, Zenon DEF IsRead
<1> HIDE DEF R
<1>3. 0 \in S
  <2>1. R[0].rx = link.rx /\ R[0].out = Absent
    BY <1>2
  <2> QED  BY <1>1, <2>1 DEF WeakRead
<1>4. ASSUME NEW k \in 1 .. n, k - 1 \in S PROVE k \in S
  <2> DEFINE r == R[k - 1]
             f == link.inq[k]
             s == Links!Step(i, r.rx, f, len)
  <2>1. WeakRead(link, k - 1, r) /\ R[k] = ReadNext(i, link, len, r, k)
    BY <1>2, <1>4
  <2>2. f \in Fragments /\ f.msg \in 1 .. MaxMsgs /\ f.of \in 1 .. MaxLen
    <3>1. f \in Fragments
      OBVIOUS
    <3> QED  BY <3>1, FragmentIs
  <2>3. CASE r.out # Absent
    <3>1. R[k] = r
      BY <2>1, <2>3 DEF ReadNext
    <3> QED  BY <1>1, <2>1, <2>3, <3>1 DEF WeakRead
  <2>4. CASE r.out = Absent
    <3>1. R[k] = [rx |-> s.rx, out |-> s.out, used |-> k]
      BY <2>1, <2>4 DEF ReadNext
    <3>2. r.rx # Absent => Partial(r.rx) /\ Adjacent(LastOf(r.rx), f)
      <4>1. CASE k = 1
        <5>1. r.rx = link.rx
          BY <2>1, <2>4, <4>1 DEF WeakRead
        <5> QED  BY <1>1, <4>1, <5>1 DEF WeakLink
      <4>2. CASE k # 1
        <5>1. Partial(r.rx) /\ LastOf(r.rx) = link.inq[k - 1]
          BY <2>1, <2>4, <4>2 DEF WeakRead
        <5>2. k - 1 \in 1 .. n - 1 /\ (k - 1) + 1 = k
          BY <1>1, <4>2
        <5>3. Adjacent(link.inq[k - 1], link.inq[(k - 1) + 1])
          BY <5>2 DEF WeakLink
        <5> QED  BY <5>1, <5>2, <5>3
      <4> QED  BY <4>1, <4>2
    <3>3. \/ s.out = Absent /\ Partial(s.rx) /\ LastOf(s.rx) = f
          \/ s.rx = Absent /\ s.out \in {Nothing, Links!Whole(f.msg, f.of)}
      <4> HIDE DEF r, f
      <4> QED  BY <2>2, <3>2, WeakStep
    <3> HIDE DEF s
    <3>4. R[k].rx = s.rx /\ R[k].out = s.out
      BY <3>1
    <3>5. CASE s.out = Absent /\ Partial(s.rx) /\ LastOf(s.rx) = f
      BY <1>1, <3>4, <3>5 DEF WeakRead
    <3>6. CASE s.rx = Absent /\ s.out \in {Nothing, Links!Whole(f.msg, f.of)}
      <4>1. Links!Whole(f.msg, f.of) \in Seq(Links!Units)
        BY <2>2, WholeTyped
      <4>2. s.out # Absent
        BY <3>6, <4>1 DEF Links!ConstantsOK
      <4> HIDE DEF f
      <4>3. WeakRead(link, k, R[k])
        BY <2>2, <3>4, <3>6, <4>2, Zenon DEF WeakRead
      <4> QED  BY <1>1, <4>3
    <3> QED  BY <3>3, <3>5, <3>6
  <2> QED  BY <2>3, <2>4
<1>5. n \in S
  <2> HIDE DEF S
  <2>1. \A k \in 0 .. n : k \in S
    BY <1>1, <1>3, <1>4, UpTo
  <2> QED  BY <1>1, <2>1
<1> QED  BY <1>5 DEF Links!Loop, R

LEMMA LoopStrong ==
  ASSUME Links!ConstantsOK, NEW i \in Links!Ids, NEW link, link.inq \in Seq(Fragments),
         NEW h, StrongLink(link, h), NEW len,
         Links!Framed(i) \/ (link.rx = Absent /\ \A k \in 1 .. Len(link.inq) : link.inq[k].of = 1)
  PROVE  StrongRead(link, Len(link.inq), Links!Loop(i, link, len))
<1> DEFINE n == Len(link.inq)
           R == Links!Read(i, link, len)
           S == {k \in 0 .. n : StrongRead(link, k, R[k])}
<1>1. n \in Nat
  OBVIOUS
<1>2. R[0] = [rx |-> link.rx, out |-> Absent, used |-> 0]
      /\ \A k \in 1 .. n : R[k] = ReadNext(i, link, len, R[k - 1], k)
  <2>1. IsRead(R, i, link, len, n)
    BY ONLY <1>1, ReadIsRead, Zenon
  <2> HIDE DEF R, n
  <2> QED  BY ONLY <2>1, Zenon DEF IsRead
<1> HIDE DEF R
<1>3. 0 \in S
  <2>1. R[0].rx = link.rx /\ R[0].out = Absent
    BY <1>2
  <2> QED  BY <1>1, <2>1 DEF StrongRead
<1>4. ASSUME NEW k \in 1 .. n, k - 1 \in S PROVE k \in S
  <2> DEFINE r == R[k - 1]
             f == link.inq[k]
             s == Links!Step(i, r.rx, f, len)
  <2>1. StrongRead(link, k - 1, r) /\ R[k] = ReadNext(i, link, len, r, k)
    BY <1>2, <1>4
  <2>2. f \in Fragments /\ f.msg \in 1 .. MaxMsgs /\ f.of \in 1 .. MaxLen
    <3>1. f \in Fragments
      OBVIOUS
    <3> QED  BY <3>1, FragmentIs
  <2>3. CASE r.out # Absent
    <3>1. R[k] = r
      BY <2>1, <2>3 DEF ReadNext
    <3>2. r.used \in 1 .. k - 1 => r.used \in 1 .. k
      OBVIOUS
    <3>3. StrongRead(link, k, r)
      BY <2>1, <2>3, <3>2, Zenon DEF StrongRead
    <3> QED  BY <1>1, <3>1, <3>3
  <2>4. CASE r.out = Absent
    <3>1. R[k] = [rx |-> s.rx, out |-> s.out, used |-> k]
      BY <2>1, <2>4 DEF ReadNext
    <3>2. /\ \A j \in 1 .. k - 1 : ~Ends(link.inq[j])
          /\ k - 1 = 0 => r.rx = link.rx
          /\ k - 1 > 0 => Partial(r.rx) /\ LastOf(r.rx) = link.inq[k - 1]
      BY <2>1, <2>4 DEF StrongRead
    <3>3. /\ r.rx = Absent => f.part = 1
          /\ r.rx # Absent => Partial(r.rx) /\ Continues(LastOf(r.rx), f)
          /\ Links!Framed(i) \/ (r.rx = Absent /\ f.of = 1)
      <4>1. CASE k = 1
        <5>1. r.rx = link.rx
          BY <3>2, <4>1
        <5> QED  BY <1>1, <4>1, <5>1 DEF StrongLink
      <4>2. CASE k # 1
        <5>1. Partial(r.rx) /\ LastOf(r.rx) = link.inq[k - 1]
          BY <3>2, <4>2
        <5>2. k - 1 \in 1 .. n - 1 /\ (k - 1) + 1 = k /\ k - 1 \in 1 .. k - 1
          BY <1>1, <4>2
        <5>3. InOrder(link.inq[k - 1], link.inq[(k - 1) + 1])
          BY <5>2 DEF StrongLink
        <5>4. Continues(link.inq[k - 1], f)
          BY <3>2, <5>2, <5>3 DEF InOrder, Ends
        <5>5. r.rx # Absent
          BY <5>1 DEF Partial, Links!ConstantsOK
        <5>6. Links!Framed(i)
          <6> SUFFICES ASSUME \A j \in 1 .. n : link.inq[j].of = 1 PROVE FALSE
            OBVIOUS
          <6>1. k - 1 \in 1 .. n /\ link.inq[k - 1] \in Fragments
            BY <1>1, <5>2
          <6>2. link.inq[k - 1].of = 1 /\ ~Ends(link.inq[k - 1])
            BY <3>2, <5>2, <6>1
          <6>3. link.inq[k - 1].part <= link.inq[k - 1].of /\ link.inq[k - 1].part \in 1 .. MaxLen
            BY <6>1, FragmentIs
          <6> QED  BY <6>2, <6>3 DEF Ends
        <5> QED  BY <5>1, <5>4, <5>5, <5>6
      <4> QED  BY <4>1, <4>2
    <3>4. /\ f.part = f.of => s.out = Links!Whole(f.msg, f.of) /\ s.rx = Absent
          /\ f.part # f.of => s.out = Absent /\ Partial(s.rx) /\ LastOf(s.rx) = f
      <4> HIDE DEF r, f
      <4> QED  BY <2>2, <3>3, StrongStep
    <3> HIDE DEF s
    <3>5. R[k].rx = s.rx /\ R[k].out = s.out /\ R[k].used = k
      BY <3>1
    <3>6. CASE f.part # f.of
      <4>1. \A j \in 1 .. k : ~Ends(link.inq[j])
        BY <3>2, <3>6 DEF Ends
      <4>2. s.out = Absent /\ Partial(s.rx) /\ LastOf(s.rx) = f /\ k # 0
        BY <3>4, <3>6
      <4>3. StrongRead(link, k, R[k])
        BY <3>5, <4>1, <4>2, Zenon DEF StrongRead
      <4> QED  BY <1>1, <4>3
    <3>7. CASE f.part = f.of
      <4>1. Links!Whole(f.msg, f.of) \in Seq(Links!Units)
        BY <2>2, WholeTyped
      <4>2. s.out = Links!Whole(f.msg, f.of) /\ s.rx = Absent /\ s.out # Absent /\ Ends(f)
        BY <3>4, <3>7, <4>1 DEF Links!ConstantsOK, Ends
      <4>3. k \in 1 .. k
        OBVIOUS
      <4>4. StrongRead(link, k, R[k])
        BY <3>2, <3>5, <4>2, <4>3, Zenon DEF StrongRead
      <4> QED  BY <1>1, <4>4
    <3> QED  BY <3>6, <3>7
  <2> QED  BY <2>3, <2>4
<1>5. n \in S
  <2> HIDE DEF S
  <2>1. \A k \in 0 .. n : k \in S
    BY <1>1, <1>3, <1>4, UpTo
  <2> QED  BY <1>1, <2>1
<1> QED  BY <1>5 DEF Links!Loop, R

\* What is left in the driver after u fragments were read.
IsRest(d, S, q, u) ==
  /\ d \in Seq(S) /\ Len(d) = Len(q) - u /\ Len(q) \in Nat
  /\ \A k \in 1 .. Len(q) - u : d[k] = q[u + k]

LEMMA Rest ==
  ASSUME NEW S, NEW q \in Seq(S), NEW u \in 0 .. Len(q)
  PROVE  IsRest(SubSeq(q, u + 1, Len(q)), S, q, u)
<1> QED  BY DEF IsRest

LEMMA AfterWeak ==
  ASSUME Links!ConstantsOK, NEW i, NEW link, link.inq \in Seq(Fragments), NEW h, WeakLink(link, h),
         NEW r, TypedRead(i, Len(link.inq), r), WeakRead(link, Len(link.inq), r),
         NEW after, after.rx = r.rx, after.inq = SubSeq(link.inq, r.used + 1, Len(link.inq))
  PROVE  WeakLink(after, h)
<1> DEFINE q == link.inq
           n == Len(q)
           u == r.used
           d == after.inq
<1>1. n \in Nat /\ u \in 0 .. n /\ (r.out = Absent => u = n)
  BY DEF TypedRead
<1>2. d \in Seq(Fragments) /\ Len(d) = n - u /\ \A k \in 1 .. n - u : d[k] = q[u + k]
  <2>1. d = SubSeq(q, u + 1, Len(q)) /\ q \in Seq(Fragments) /\ u \in 0 .. Len(q)
    BY <1>1
  <2> HIDE DEF d, q, u
  <2>2. IsRest(d, Fragments, q, u)
    BY ONLY <2>1, Rest, Zenon
  <2> QED  BY ONLY <2>2, Zenon DEF IsRest, n
<1>3. \A k \in 1 .. n - 1 : Adjacent(q[k], q[k + 1])
  BY DEF WeakLink
<1>4. h # Absent /\ n > 0 => q[n] = h
  BY DEF WeakLink
<1> HIDE DEF u, d
<1>5. \A k \in 1 .. Len(d) - 1 : Adjacent(d[k], d[k + 1])
  <2> SUFFICES ASSUME NEW k \in 1 .. Len(d) - 1 PROVE Adjacent(d[k], d[k + 1])
    OBVIOUS
  <2>1. u + k \in 1 .. n - 1 /\ d[k] = q[u + k] /\ d[k + 1] = q[(u + k) + 1]
    BY <1>1, <1>2
  <2> QED  BY <1>3, <2>1
<1>6. h # Absent /\ Len(d) > 0 => d[Len(d)] = h
  <2> SUFFICES ASSUME h # Absent, Len(d) > 0 PROVE d[Len(d)] = h
    OBVIOUS
  <2>1. Len(d) \in 1 .. n - u /\ u + Len(d) = n /\ n > 0
    BY <1>1, <1>2
  <2> QED  BY <1>2, <1>4, <2>1
<1>7. CASE r.out = Absent
  <2>1. Len(d) = 0
    BY <1>1, <1>2, <1>7
  <2>2. /\ n = 0 => r.rx = link.rx
        /\ n > 0 => Partial(r.rx) /\ LastOf(r.rx) = q[n]
    BY <1>7 DEF WeakRead
  <2>3. r.rx # Absent => Partial(r.rx)
    BY <1>1, <2>2 DEF WeakLink
  <2>4. h # Absent /\ r.rx # Absent => LastOf(r.rx) = h
    BY <1>1, <1>4, <2>2 DEF WeakLink
  <2>5. ~(Len(d) > 0)
    BY <2>1
  <2> QED  BY <1>5, <2>3, <2>4, <2>5, Zenon DEF WeakLink, d
<1>8. CASE r.out # Absent
  <2>1. r.rx = Absent
    BY <1>8 DEF WeakRead
  <2> QED  BY <1>5, <1>6, <2>1 DEF WeakLink, d
<1> QED  BY <1>7, <1>8

LEMMA AfterStrong ==
  ASSUME Links!ConstantsOK, NEW i, NEW link, link.inq \in Seq(Fragments), NEW h, StrongLink(link, h),
         h # Absent => h.part < h.of /\ h.of \in Int /\ h.part \in Int,
         NEW r, TypedRead(i, Len(link.inq), r), StrongRead(link, Len(link.inq), r),
         NEW after, after.rx = r.rx, after.inq = SubSeq(link.inq, r.used + 1, Len(link.inq))
  PROVE  StrongLink(after, h)
<1> DEFINE q == link.inq
           n == Len(q)
           u == r.used
           d == after.inq
<1>1. n \in Nat /\ u \in 0 .. n /\ (r.out = Absent => u = n)
  BY DEF TypedRead
<1>2. d \in Seq(Fragments) /\ Len(d) = n - u /\ \A k \in 1 .. n - u : d[k] = q[u + k]
  <2>1. d = SubSeq(q, u + 1, Len(q)) /\ q \in Seq(Fragments) /\ u \in 0 .. Len(q)
    BY <1>1
  <2> HIDE DEF d, q, u
  <2>2. IsRest(d, Fragments, q, u)
    BY ONLY <2>1, Rest, Zenon
  <2> QED  BY ONLY <2>2, Zenon DEF IsRest, n
<1>3. \A k \in 1 .. n - 1 : InOrder(q[k], q[k + 1])
  BY DEF StrongLink
<1>4. n > 0 => IF h # Absent THEN q[n] = h ELSE Ends(q[n])
  BY DEF StrongLink, Ends
<1> HIDE DEF u, d
<1>5. \A k \in 1 .. Len(d) - 1 : InOrder(d[k], d[k + 1])
  <2> SUFFICES ASSUME NEW k \in 1 .. Len(d) - 1 PROVE InOrder(d[k], d[k + 1])
    OBVIOUS
  <2>1. u + k \in 1 .. n - 1 /\ d[k] = q[u + k] /\ d[k + 1] = q[(u + k) + 1]
    BY <1>1, <1>2
  <2> QED  BY <1>3, <2>1
<1>6. Len(d) > 0 => IF h # Absent THEN d[Len(d)] = h ELSE Ends(d[Len(d)])
  <2> SUFFICES ASSUME Len(d) > 0 PROVE IF h # Absent THEN d[Len(d)] = h ELSE Ends(d[Len(d)])
    OBVIOUS
  <2>1. Len(d) \in 1 .. n - u /\ u + Len(d) = n /\ n > 0
    BY <1>1, <1>2
  <2>2. d[Len(d)] = q[n]
    BY <1>2, <2>1
  <2> QED  BY <1>4, <2>1, <2>2
<1>7. CASE r.out = Absent
  <2>1. Len(d) = 0
    BY <1>1, <1>2, <1>7
  <2>2. /\ n = 0 => r.rx = link.rx
        /\ n > 0 => Partial(r.rx) /\ LastOf(r.rx) = q[n] /\ ~Ends(q[n])
    BY <1>1, <1>7 DEF StrongRead
  <2>3. r.rx # Absent => Partial(r.rx)
    BY <1>1, <2>2 DEF StrongLink
  <2>4. IF h # Absent THEN r.rx # Absent /\ LastOf(r.rx) = h ELSE r.rx = Absent
    <3>1. CASE n = 0
      BY <2>2, <3>1 DEF StrongLink
    <3>2. CASE n > 0
      <4>1. h # Absent /\ LastOf(r.rx) = h /\ Partial(r.rx)
        BY <1>4, <2>2, <3>2
      <4>2. r.rx # Absent
        BY <4>1 DEF Partial, Links!ConstantsOK
      <4> QED  BY <4>1, <4>2
    <3> QED  BY <1>1, <3>1, <3>2
  <2>5. ~(Len(d) > 0)
    BY <2>1
  <2> QED  BY <1>5, <2>3, <2>4, <2>5, Zenon DEF StrongLink, d
<1>8. CASE r.out # Absent
  <2>1. r.rx = Absent /\ u \in 1 .. n /\ Ends(q[u])
    BY <1>8 DEF StrongRead, u
  <2>2. Len(d) > 0 => d[1].part = 1
    <3> SUFFICES ASSUME Len(d) > 0 PROVE d[1].part = 1
      OBVIOUS
    <3>1. u \in 1 .. n - 1 /\ d[1] = q[u + 1]
      BY <1>1, <1>2, <2>1
    <3>2. InOrder(q[u], q[u + 1])
      BY <1>3, <3>1
    <3> QED  BY <2>1, <3>1, <3>2 DEF InOrder, Ends
  <2>3. Len(d) = 0 => h = Absent
    <3> SUFFICES ASSUME Len(d) = 0, h # Absent PROVE FALSE
      OBVIOUS
    <3>1. u = n /\ q[n] = h
      BY <1>1, <1>2, <1>4, <2>1
    <3> QED  BY <2>1, <3>1 DEF Ends
  <2> QED  BY <1>5, <1>6, <2>1, <2>2, <2>3 DEF StrongLink, d, Ends
<1> QED  BY <1>7, <1>8

\* The messages whose last fragment waits: none when nothing was returned, and the one
\* returned is no longer among them.
LEMMA AfterWaiting ==
  ASSUME NEW i, NEW link, link.inq \in Seq(Fragments), NEW w, Waits(w, link.inq),
         NEW r, TypedRead(i, Len(link.inq), r), StrongRead(link, Len(link.inq), r),
         NEW after, after.inq = SubSeq(link.inq, r.used + 1, Len(link.inq))
  PROVE  /\ r.out = Absent => w = {}
         /\ r.out # Absent => Waits(w \ {link.inq[r.used].msg}, after.inq)
<1> DEFINE q == link.inq
           n == Len(q)
           u == r.used
           d == after.inq
<1>1. n \in Nat /\ u \in 0 .. n /\ (r.out = Absent => u = n)
  BY DEF TypedRead
<1>2. d \in Seq(Fragments) /\ Len(d) = n - u /\ \A k \in 1 .. n - u : d[k] = q[u + k]
  <2>1. d = SubSeq(q, u + 1, Len(q)) /\ q \in Seq(Fragments) /\ u \in 0 .. Len(q)
    BY <1>1
  <2> HIDE DEF u, d, q
  <2>2. IsRest(d, Fragments, q, u)
    BY ONLY <2>1, Rest, Zenon
  <2> QED  BY ONLY <2>2, Zenon DEF IsRest, n
<1>3. r.out = Absent => w = {}
  BY DEF StrongRead, Waits
<1>4. ASSUME r.out # Absent, NEW m \in w, m # q[u].msg
      PROVE  \E k \in 1 .. Len(d) : d[k].msg = m /\ Ends(d[k])
  <2>1. PICK k \in 1 .. n : q[k].msg = m /\ Ends(q[k])
    BY DEF Waits
  <2>2. \A j \in 1 .. u - 1 : ~Ends(q[j])
    BY <1>4 DEF StrongRead
  <2> HIDE DEF u, d
  <2>3. k > u
    BY <1>1, <1>4, <2>1, <2>2
  <2>4. k - u \in 1 .. n - u /\ u + (k - u) = k
    BY <1>1, <2>3
  <2>5. d[k - u] = q[k]
    BY <1>2, <2>4
  <2> QED  BY <1>2, <2>1, <2>4, <2>5
<1> QED  BY <1>3, <1>4 DEF Waits

\* The fragments of a link that is not framed are in order whatever happened to it.
LEMMA PlainStrong ==
  ASSUME Links!ConstantsOK, NEW i, NEW link, NEW h, NEW t, NEW w, LinkOK(i, link, h, t, w),
         ~Links!Framed(i)
  PROVE  StrongLink(link, h) /\ link.rx = Absent /\ \A k \in 1 .. Len(link.inq) : link.inq[k].of = 1
<1>1. /\ link.rx = Absent /\ h = Absent /\ link.inq \in Seq(Fragments)
      /\ \A k \in 1 .. Len(link.inq) : link.inq[k].of = 1
  BY DEF LinkOK
<1>2. Len(link.inq) \in Nat
  BY <1>1
<1>3. \A k \in 1 .. Len(link.inq) : link.inq[k].part = 1 /\ link.inq[k].of = 1
  <2> SUFFICES ASSUME NEW k \in 1 .. Len(link.inq) PROVE link.inq[k].part = 1 /\ link.inq[k].of = 1
    OBVIOUS
  <2>1. link.inq[k] \in Fragments /\ link.inq[k].of = 1
    BY <1>1
  <2>2. link.inq[k].part \in 1 .. MaxLen /\ link.inq[k].part <= link.inq[k].of
    BY <2>1, FragmentIs
  <2> QED  BY <2>1, <2>2
<1>4. \A k \in 1 .. Len(link.inq) - 1 : InOrder(link.inq[k], link.inq[k + 1])
  BY <1>2, <1>3 DEF InOrder
<1> QED  BY <1>1, <1>2, <1>3, <1>4 DEF StrongLink

\* A link of which recv has read what r says.
AfterRead(link, r) ==
  [link EXCEPT !.rx = r.rx, !.inq = SubSeq(link.inq, r.used + 1, Len(link.inq))]

\* What a link is after recv tried it, and what it returned.
ReadOutcome(i, link, h, t, w, r, after) ==
  /\ Links!CanRecv(i, after) <=> Links!CanRecv(i, link)
  /\ r.out \in Seq(Links!Units) \cup {Absent, Nothing}
  /\ ~Links!IsMessage(r.out) =>
       LinkOK(i, after, h, t, w) /\ (Links!CanRecv(i, link) /\ ~t => w = {})
  /\ Links!IsMessage(r.out) =>
       /\ LinkOK(i, after, h, t, w \ {r.out[k].msg : k \in DOMAIN r.out})
       /\ ~(t /\ Kinds[i] = "ble") =>
            \E m \in 1 .. MaxMsgs, of \in 1 .. MaxLen : r.out = Links!Whole(m, of)

LEMMA LinkRead ==
  ASSUME Links!ConstantsOK, NEW i \in Links!Ids, NEW link, NEW h, NEW t \in BOOLEAN, NEW w,
         LinkOK(i, link, h, t, w), NEW len \in 1 .. MaxLen
  PROVE  ReadOutcome(i, link, h, t, w, Links!RecvOf(i, link, len),
                     AfterRead(link, Links!RecvOf(i, link, len)))
<1> DEFINE r == Links!RecvOf(i, link, len)
           after == AfterRead(link, r)
           q == link.inq
           n == Len(q)
           d == SubSeq(q, r.used + 1, n)
<1> SUFFICES ReadOutcome(i, link, h, t, w, r, after)
  OBVIOUS
<1>1. /\ link = [f \in LinkFields |-> link[f]] /\ q \in Seq(Fragments) /\ n \in Nat
      /\ link.initialized \in BOOLEAN /\ link.up \in BOOLEAN
      /\ link.rx # Absent => Links!Framed(i) /\ link.rx \in Links!Assemblies
      /\ h # Absent => Links!Framed(i) /\ h \in Fragments /\ h.part < h.of
  BY DEF LinkOK
<1>2. CASE ~Links!CanRecv(i, link)
  <2>1. r = [rx |-> link.rx, out |-> Absent, used |-> 0]
    BY <1>2 DEF Links!RecvOf
  <2> HIDE DEF r
  <2>2. r.rx = link.rx /\ r.out = Absent /\ r.used = 0
    BY <2>1
  <2>3. d = q
    BY <1>1, <2>2
  <2>4. after = link
    <3>1. after = [link EXCEPT !.rx = link.rx, !.inq = q]
      BY <2>2, <2>3 DEF AfterRead
    <3> HIDE DEF after
    <3> QED  BY <1>1, <3>1 DEF LinkFields
  <2>5. ~Links!IsMessage(r.out)
    BY <2>2 DEF Links!IsMessage
  <2> HIDE DEF after
  <2> QED  BY <1>2, <2>2, <2>4, <2>5 DEF ReadOutcome
<1>3. CASE Links!CanRecv(i, link)
  <2>1. r = Links!Loop(i, link, len)
    BY <1>3 DEF Links!RecvOf
  <2>2. TypedRead(i, n, r)
    BY <1>1, <2>1, LoopTyped
  <2>3. Kinds[i] = "hid" => WeakLink(link, h) /\ WeakRead(link, n, r)
    BY <1>1, <2>1, LoopWeak DEF LinkOK
  <2>4. ~t \/ ~Links!Framed(i) => StrongLink(link, h) /\ StrongRead(link, n, r)
    <3>1. CASE ~Links!Framed(i)
      BY <1>1, <2>1, <3>1, PlainStrong, LoopStrong
    <3>2. CASE Links!Framed(i) /\ ~t
      BY <1>1, <2>1, <3>2, LoopStrong DEF LinkOK
    <3> QED  BY <3>1, <3>2
  <2> HIDE DEF r
  <2>5. /\ after.initialized = link.initialized /\ after.up = link.up /\ after.rx = r.rx
        /\ after.inq = d /\ after = [f \in LinkFields |-> after[f]]
    <3> DEFINE a == r.rx
    <3> HIDE DEF d, a
    <3>1. after = [link EXCEPT !.rx = a, !.inq = d]
      BY DEF d, a, AfterRead
    <3> HIDE DEF after
    <3> QED  BY <1>1, <3>1 DEF LinkFields, a
  <2> HIDE DEF after
  <2>6. r.used \in 0 .. n
    BY <2>2 DEF TypedRead
  <2>7. d \in Seq(Fragments) /\ Len(d) = n - r.used /\ \A k \in 1 .. n - r.used : d[k] = q[r.used + k]
    <3>1. IsRest(d, Fragments, q, r.used)
      BY <1>1, <2>6, Rest, Zenon
    <3> QED  BY ONLY <3>1, Zenon DEF IsRest, n
  <2>8. ~Links!Framed(i) => \A k \in 1 .. Len(d) : d[k].of = 1
    <3>1. \A k \in 1 .. Len(d) : r.used + k \in 1 .. n
      BY <1>1, <2>6, <2>7
    <3>2. ~Links!Framed(i) => \A k \in 1 .. n : q[k].of = 1
      BY Zenon DEF LinkOK
    <3> HIDE DEF d, q
    <3> QED  BY <2>7, <3>1, <3>2
  <2>9. Kinds[i] = "hid" => WeakLink(after, h)
    <3>1. after.inq = SubSeq(link.inq, r.used + 1, Len(link.inq)) /\ after.rx = r.rx
      BY <2>5
    <3> QED  BY <1>1, <2>2, <2>3, <3>1, AfterWeak, Zenon
  <2>10. ~t => StrongLink(after, h)
    <3>1. h # Absent => h.part < h.of /\ h.of \in Int /\ h.part \in Int
      BY <1>1, FragmentIs
    <3>2. after.inq = SubSeq(link.inq, r.used + 1, Len(link.inq)) /\ after.rx = r.rx
      BY <2>5
    <3> QED  BY <1>1, <2>2, <2>4, <3>1, <3>2, AfterStrong, Zenon
  <2>11. ASSUME NEW x, ~t => Waits(x, after.inq) PROVE LinkOK(i, after, h, t, x)
    <3>1. r.rx # Absent => Links!Framed(i) /\ r.rx \in Links!Assemblies
      BY <2>2 DEF TypedRead
    <3> HIDE DEF d
    <3>2. /\ after.rx # Absent => Links!Framed(i) /\ after.rx \in Links!Assemblies
          /\ after.inq \in Seq(Fragments)
          /\ ~Links!Framed(i) => \A k \in 1 .. Len(after.inq) : after.inq[k].of = 1
      BY <2>5, <2>7, <2>8, <3>1
    <3>3. after.initialized \in BOOLEAN /\ after.up \in BOOLEAN /\ after = [f \in LinkFields |-> after[f]]
      BY <1>1, <2>5
    <3> QED  BY <1>1, <2>9, <2>10, <2>11, <3>2, <3>3, Zenon DEF LinkOK
  <2>12. Links!CanRecv(i, after) <=> Links!CanRecv(i, link)
    BY <2>5 DEF Links!CanRecv
  <2>13. r.out \in Seq(Links!Units) \cup {Absent, Nothing}
    BY <2>2 DEF TypedRead
  <2>14. ~t => /\ r.out = Absent => w = {}
               /\ r.out # Absent => Waits(w \ {q[r.used].msg}, after.inq)
    <3>1. ~t => Waits(w, link.inq)
      BY Zenon DEF LinkOK
    <3>2. after.inq = SubSeq(link.inq, r.used + 1, Len(link.inq))
      BY <2>5
    <3> QED  BY <1>1, <2>2, <2>4, <3>1, <3>2, AfterWaiting, Zenon
  <2>15. CASE ~Links!IsMessage(r.out)
    <3>1. r.out = Absent \/ r.out = Nothing
      BY <2>15 DEF Links!IsMessage
    <3>2. ~t => r.out = Absent
      <4> SUFFICES ASSUME ~t, r.out # Absent PROVE FALSE
        OBVIOUS
      <4>1. /\ r.out = Links!Whole(q[r.used].msg, q[r.used].of) /\ r.used \in 1 .. n
        BY <2>4 DEF StrongRead
      <4>2. q[r.used] \in Fragments
        BY <1>1, <4>1
      <4>3. r.out \in Seq(Links!Units)
        BY <4>1, <4>2, FragmentIs, WholeTyped
      <4> QED  BY <3>1, <4>3 DEF Links!ConstantsOK
    <3>3. ~t => w = {}
      BY <2>14, <3>2
    <3>4. LinkOK(i, after, h, t, w)
      BY <2>11, <3>3 DEF Waits
    <3> QED  BY <2>12, <2>13, <2>15, <3>3, <3>4 DEF ReadOutcome
  <2>16. CASE Links!IsMessage(r.out)
    <3> DEFINE x == w \ {r.out[k].msg : k \in DOMAIN r.out}
    <3>1. r.out # Absent /\ r.out # Nothing
      BY <2>16 DEF Links!IsMessage
    <3>2. ~t \/ ~Links!Framed(i) =>
            /\ r.out = Links!Whole(q[r.used].msg, q[r.used].of)
            /\ q[r.used].msg \in 1 .. MaxMsgs /\ q[r.used].of \in 1 .. MaxLen
      <4> SUFFICES ASSUME ~t \/ ~Links!Framed(i)
                   PROVE  /\ r.out = Links!Whole(q[r.used].msg, q[r.used].of)
                          /\ q[r.used].msg \in 1 .. MaxMsgs /\ q[r.used].of \in 1 .. MaxLen
        OBVIOUS
      <4>1. /\ r.out = Links!Whole(q[r.used].msg, q[r.used].of) /\ r.used \in 1 .. n
        BY <2>4, <3>1 DEF StrongRead
      <4>2. q[r.used] \in Fragments
        BY <1>1, <4>1
      <4> QED  BY <4>1, <4>2, FragmentIs
    <3>3. ~t => q[r.used].msg \in {r.out[k].msg : k \in DOMAIN r.out}
      <4> SUFFICES ASSUME ~t PROVE \E k \in DOMAIN r.out : q[r.used].msg = r.out[k].msg
        OBVIOUS
      <4> DEFINE m == q[r.used].msg
                 of == q[r.used].of
      <4>1. r.out = Links!Whole(m, of) /\ of \in 1 .. MaxLen
        BY <3>2
      <4> HIDE DEF m, of
      <4>2. DOMAIN r.out = 1 .. of /\ r.out[1] = Links!Unit(m, 1, of) /\ 1 \in 1 .. of
        BY <4>1 DEF Links!Whole
      <4>3. r.out[1].msg = m
        BY <4>2 DEF Links!Unit
      <4> QED  BY <4>2, <4>3 DEF m
    <3>4. ~t => Waits(x, after.inq)
      BY <2>14, <3>1, <3>3 DEF Waits
    <3>5. LinkOK(i, after, h, t, x)
      <4> HIDE DEF x
      <4> QED  BY <2>11, <3>4
    <3>6. ~(t /\ Kinds[i] = "ble") =>
             \E m \in 1 .. MaxMsgs, of \in 1 .. MaxLen : r.out = Links!Whole(m, of)
      <4>1. CASE ~t \/ ~Links!Framed(i)
        BY <3>2, <4>1
      <4>2. CASE Kinds[i] = "hid"
        BY <2>3, <3>1, <4>2 DEF WeakRead
      <4> QED  BY <4>1, <4>2 DEF Links!Framed
    <3> QED  BY <2>12, <2>13, <2>16, <3>5, <3>6 DEF ReadOutcome
  <2> QED  BY <2>15, <2>16
<1> QED  BY <1>2, <1>3

\* A link whose assembler or driver was emptied.
LEMMA Cleared ==
  ASSUME NEW i, NEW link, NEW h, NEW t, NEW w, LinkOK(i, link, h, t, w),
         NEW link2, link2 = [f \in LinkFields |-> link2[f]],
         link2.initialized \in BOOLEAN, link2.up \in BOOLEAN,
         link2.rx \in {link.rx, Absent}, Kinds[i] = "hid" => link2.rx = Absent,
         link2.inq \in {link.inq, <<>>}, NEW h2 \in {h, Absent}, NEW t2, NEW w2,
         ~t2 => link2.rx = Absent /\ link2.inq = <<>> /\ h2 = Absent /\ w2 = {}
  PROVE  LinkOK(i, link2, h2, t2, w2)
<1>1. /\ link.inq \in Seq(Fragments) /\ (link.rx # Absent => Links!Framed(i) /\ link.rx \in Links!Assemblies)
      /\ h # Absent => Links!Framed(i) /\ h \in Fragments /\ h.part < h.of
      /\ ~Links!Framed(i) => \A k \in 1 .. Len(link.inq) : link.inq[k].of = 1
      /\ Kinds[i] = "hid" => WeakLink(link, h)
  BY Zenon DEF LinkOK
<1>2. <<>> \in Seq(Fragments) /\ Len(<<>>) = 0
  OBVIOUS
<1>3. link2.inq \in Seq(Fragments) /\ (link2.inq = link.inq \/ Len(link2.inq) = 0)
  BY <1>1, <1>2
<1>4. ~Links!Framed(i) => \A k \in 1 .. Len(link2.inq) : link2.inq[k].of = 1
  BY <1>1, <1>3
<1>5. Kinds[i] = "hid" => WeakLink(link2, h2)
  BY <1>1, <1>3 DEF WeakLink
<1>6. ~t2 => StrongLink(link2, h2) /\ Waits(w2, link2.inq)
  BY <1>2, <1>3 DEF StrongLink, Waits
<1>7. link2.rx # Absent => Links!Framed(i) /\ link2.rx \in Links!Assemblies
  BY <1>1
<1>8. h2 # Absent => Links!Framed(i) /\ h2 \in Fragments /\ h2.part < h2.of
  BY <1>1
<1> QED  BY <1>3, <1>4, <1>5, <1>6, <1>7, <1>8, Zenon DEF LinkOK

\* A link whose host has written one more fragment.
LEMMA HostWrote ==
  ASSUME Links!ConstantsOK, NEW i, NEW link, NEW h, NEW t, NEW w, LinkOK(i, link, h, t, w),
         NEW f \in Fragments, ~Links!Framed(i) => f.of = 1,
         IF h = Absent THEN f.part = 1 ELSE Continues(h, f),
         NEW link2, link2 = [e \in LinkFields |-> link2[e]],
         link2.initialized = link.initialized, link2.up = link.up, link2.rx = link.rx,
         link2.inq = Append(link.inq, f),
         NEW h2, h2 = IF Ends(f) THEN Absent ELSE f,
         NEW w2, w2 = IF Ends(f) THEN w \cup {f.msg} ELSE w
  PROVE  LinkOK(i, link2, h2, t, w2)
<1> DEFINE q == link.inq
           n == Len(q)
           d == link2.inq
<1>1. /\ q \in Seq(Fragments) /\ (link.rx # Absent => Links!Framed(i) /\ link.rx \in Links!Assemblies)
      /\ link.initialized \in BOOLEAN /\ link.up \in BOOLEAN
      /\ h # Absent => Links!Framed(i) /\ h \in Fragments /\ h.part < h.of
      /\ ~Links!Framed(i) => \A k \in 1 .. n : q[k].of = 1
      /\ Kinds[i] = "hid" => WeakLink(link, h)
      /\ ~t => StrongLink(link, h) /\ Waits(w, q)
  BY Zenon DEF LinkOK
<1>2. /\ n \in Nat /\ d \in Seq(Fragments) /\ Len(d) = n + 1 /\ d[n + 1] = f
      /\ \A k \in 1 .. n : d[k] = q[k]
  <2>1. d = Append(q, f) /\ q \in Seq(Fragments) /\ f \in Fragments
    BY <1>1
  <2> HIDE DEF d, q
  <2> QED  BY <2>1
<1>3. f.part \in 1 .. MaxLen /\ f.of \in 1 .. MaxLen /\ f.part <= f.of
  BY FragmentIs
<1>4. h2 # Absent => Links!Framed(i) /\ h2 \in Fragments /\ h2.part < h2.of
  <2> SUFFICES ASSUME h2 # Absent PROVE Links!Framed(i) /\ f.part < f.of /\ h2 = f
    OBVIOUS
  <2>1. ~Ends(f) /\ h2 = f
    OBVIOUS
  <2> QED  BY <1>3, <2>1 DEF Ends
<1>5. ~Links!Framed(i) => \A k \in 1 .. Len(d) : d[k].of = 1
  <2> HIDE DEF q, d
  <2> QED  BY <1>1, <1>2
<1>6. n > 0 => \A k \in 1 .. n : k = n \/ k \in 1 .. n - 1
  BY <1>2
<1>7. Kinds[i] = "hid" => WeakLink(link2, h2)
  <2> SUFFICES ASSUME Kinds[i] = "hid" PROVE WeakLink(link2, h2)
    OBVIOUS
  <2>1. /\ link.rx # Absent => Partial(link.rx)
        /\ \A k \in 1 .. n - 1 : Adjacent(q[k], q[k + 1])
        /\ link.rx # Absent /\ n > 0 => Adjacent(LastOf(link.rx), q[1])
        /\ h # Absent /\ n > 0 => q[n] = h
        /\ h # Absent /\ n = 0 /\ link.rx # Absent => LastOf(link.rx) = h
    BY <1>1 DEF WeakLink
  <2> HIDE DEF q, d
  <2>2. ASSUME NEW k \in 1 .. Len(d) - 1 PROVE Adjacent(d[k], d[k + 1])
    <3>1. CASE k = n
      <4>1. d[k] = q[n] /\ d[k + 1] = f /\ n > 0
        BY <1>2, <2>2, <3>1
      <4> QED  BY <2>1, <4>1 DEF Adjacent
    <3>2. CASE k # n
      <4>1. k \in 1 .. n - 1 /\ k \in 1 .. n /\ k + 1 \in 1 .. n
        BY <1>2, <2>2, <3>2
      <4> QED  BY <1>2, <2>1, <4>1
    <3> QED  BY <3>1, <3>2
  <2>3. link.rx # Absent => Adjacent(LastOf(link.rx), d[1])
    <3>1. CASE n = 0
      BY <1>2, <2>1, <3>1 DEF Adjacent
    <3>2. CASE n > 0
      <4>1. d[1] = q[1]
        BY <1>2, <3>2
      <4> QED  BY <2>1, <3>2, <4>1
    <3> QED  BY <1>2, <3>1, <3>2
  <2>4. h2 # Absent => d[Len(d)] = h2
    BY <1>2
  <2>5. Len(d) # 0
    BY <1>2
  <2> QED  BY <2>1, <2>2, <2>3, <2>4, <2>5 DEF WeakLink, d
<1>8. ~t => StrongLink(link2, h2) /\ Waits(w2, d)
  <2> SUFFICES ASSUME ~t PROVE StrongLink(link2, h2) /\ Waits(w2, d)
    OBVIOUS
  <2>1. /\ link.rx # Absent => Partial(link.rx)
        /\ \A k \in 1 .. n - 1 : InOrder(q[k], q[k + 1])
        /\ n > 0 => IF link.rx = Absent THEN q[1].part = 1 ELSE Continues(LastOf(link.rx), q[1])
        /\ n > 0 => IF h # Absent THEN q[n] = h ELSE q[n].part = q[n].of
        /\ n = 0 => IF h # Absent THEN link.rx # Absent /\ LastOf(link.rx) = h ELSE link.rx = Absent
    BY <1>1 DEF StrongLink
  <2>2. Waits(w, q)
    BY <1>1
  <2>3. h # Absent => h.part # h.of
    <3>1. h # Absent => h \in Fragments /\ h.part < h.of
      BY <1>1
    <3>2. h # Absent => h.part \in 1 .. MaxLen /\ h.of \in 1 .. MaxLen
      BY <3>1, FragmentIs
    <3> QED  BY <3>1, <3>2
  <2> HIDE DEF q, d
  <2>4. ASSUME NEW k \in 1 .. Len(d) - 1 PROVE InOrder(d[k], d[k + 1])
    <3>1. CASE k = n
      <4>1. d[k] = q[n] /\ d[k + 1] = f /\ n > 0
        BY <1>2, <2>4, <3>1
      <4> QED  BY <2>1, <2>3, <4>1 DEF InOrder
    <3>2. CASE k # n
      <4>1. k \in 1 .. n - 1 /\ k \in 1 .. n /\ k + 1 \in 1 .. n
        BY <1>2, <2>4, <3>2
      <4> QED  BY <1>2, <2>1, <4>1
    <3> QED  BY <3>1, <3>2
  <2>5. IF link.rx = Absent THEN d[1].part = 1 ELSE Continues(LastOf(link.rx), d[1])
    <3>1. CASE n = 0
      BY <1>2, <2>1, <3>1
    <3>2. CASE n > 0
      <4>1. d[1] = q[1]
        BY <1>2, <3>2
      <4> QED  BY <2>1, <3>2, <4>1
    <3> QED  BY <1>2, <3>1, <3>2
  <2>6. IF h2 # Absent THEN d[Len(d)] = h2 ELSE d[Len(d)].part = d[Len(d)].of
    <3>1. d[Len(d)] = f
      BY <1>2
    <3>2. CASE h2 # Absent
      BY <3>1, <3>2
    <3>3. CASE h2 = Absent
      <4>1. f # Absent
        BY FragmentIs DEF Links!ConstantsOK
      <4>2. Ends(f)
        BY <3>3, <4>1
      <4> QED  BY <3>1, <3>3, <4>2 DEF Ends
    <3> QED  BY <3>2, <3>3
  <2>7. Len(d) # 0
    BY <1>2
  <2>8. StrongLink(link2, h2)
    BY <2>1, <2>4, <2>5, <2>6, <2>7, Zenon DEF StrongLink, d
  <2>9. Waits(w2, d)
    <3> SUFFICES ASSUME NEW m \in w2 PROVE \E k \in 1 .. Len(d) : d[k].msg = m /\ Ends(d[k])
      BY DEF Waits
    <3>1. CASE m \in w
      <4>1. PICK k \in 1 .. n : q[k].msg = m /\ Ends(q[k])
        BY <2>2, <3>1 DEF Waits
      <4> QED  BY <1>2, <4>1
    <3>2. CASE m \notin w
      <4>1. Ends(f) /\ m = f.msg
        BY <3>2
      <4> QED  BY <1>2, <4>1
    <3> QED  BY <3>1, <3>2
  <2> QED  BY <2>8, <2>9
<1>9. link2.rx # Absent => Links!Framed(i) /\ link2.rx \in Links!Assemblies
  BY <1>1
<1>10. link2.initialized \in BOOLEAN /\ link2.up \in BOOLEAN
  BY <1>1
<1> QED  BY <1>2, <1>4, <1>5, <1>7, <1>8, <1>9, <1>10, Zenon DEF LinkOK

\* Until recv is called again, it has returned nothing to speak of.
LEMMA NothingGot ==
  ASSUME Links!ConstantsOK, got' = Absent
  PROVE  Links!MessagesIntact' /\ Links!NothingHidden'
<1> QED  BY DEF Links!MessagesIntact, Links!NothingHidden, Links!ConstantsOK

LEMMA LinksInit ==
  ASSUME Links!ConstantsOK, Links!Init
  PROVE  LinksInv
<1>1. ASSUME NEW i \in Links!Ids PROVE LinkOK(i, links[i], host[i], severed[i], waiting[i])
  <2> DEFINE link == links[i]
  <2>1. link = [initialized |-> FALSE, up |-> TRUE, rx |-> Absent, inq |-> <<>>]
    BY DEF Links!Init
  <2>2. host[i] = Absent /\ severed[i] = FALSE /\ waiting[i] = {}
    BY DEF Links!Init
  <2> HIDE DEF link
  <2>3. link = [f \in LinkFields |-> link[f]]
    BY <2>1 DEF LinkFields
  <2>4. link.initialized = FALSE /\ link.up = TRUE /\ link.rx = Absent /\ link.inq = <<>>
    BY <2>1
  <2>5. link.inq \in Seq(Fragments) /\ Len(link.inq) = 0
    BY <2>4
  <2>6. WeakLink(link, Absent) /\ StrongLink(link, Absent) /\ Waits({}, link.inq)
    BY <2>4, <2>5 DEF WeakLink, StrongLink, Waits
  <2>7. LinkOK(i, link, Absent, FALSE, {})
    <3>1. \A k \in 1 .. Len(link.inq) : link.inq[k].of = 1
      BY <2>5
    <3>2. link.initialized \in BOOLEAN /\ link.up \in BOOLEAN
      BY <2>4
    <3> QED  BY <2>3, <2>4, <2>5, <2>6, <3>1, <3>2, Zenon DEF LinkOK
  <2> QED  BY <2>2, <2>7 DEF link
<1>2. /\ begun \in 0 .. MaxMsgs /\ faults \in 0 .. LinkFaults
      /\ waiting \in [Links!Ids -> SUBSET (1 .. MaxMsgs)] /\ severed \in [Links!Ids -> BOOLEAN]
  BY DEF Links!Init, Links!ConstantsOK
<1>3. links = [i \in Links!Ids |-> links[i]] /\ host = [i \in Links!Ids |-> host[i]]
  BY DEF Links!Init
<1>4. Links!MessagesIntact /\ Links!NothingHidden
  BY DEF Links!Init, Links!MessagesIntact, Links!NothingHidden, Links!ConstantsOK
<1> QED  BY <1>1, <1>2, <1>3, <1>4 DEF LinksInv

LEMMA InitTransportsStep ==
  ASSUME Links!ConstantsOK, LinksInv, Links!InitTransports
  PROVE  LinksInv'
<1>1. PICK bad \in SUBSET {i \in Links!Ids : Kinds[i] # "stub"} :
        /\ (bad = {} /\ faults' = faults) \/ (bad # {} /\ faults < LinkFaults /\ faults' = faults + 1)
        /\ links' = Links!multi_init(bad)
        /\ severed' = [i \in Links!Ids |-> IF links'[i] = links[i] THEN severed[i]
                                           ELSE host[i] # Absent \/ links[i].inq # <<>>]
        /\ waiting' = [i \in Links!Ids |-> IF links'[i] = links[i] THEN waiting[i]
                                           ELSE waiting[i] \cap Links!Held(links[i].inq)]
        /\ got' = Absent /\ host' = host /\ begun' = begun
  BY DEF Links!InitTransports
<1>2. ASSUME NEW i \in Links!Ids PROVE LinkOK(i, links'[i], host'[i], severed'[i], waiting'[i])
  <2> DEFINE link == links[i]
             link2 == links'[i]
  <2>1. LinkOK(i, link, host[i], severed[i], waiting[i])
    BY DEF LinksInv
  <2>2. CASE link2 = link
    BY <1>1, <2>1, <2>2
  <2>3. CASE link2 # link
    <3>1. /\ severed'[i] = (host[i] # Absent \/ link.inq # <<>>)
          /\ waiting'[i] = waiting[i] \cap Links!Held(link.inq)
      BY <1>1, <2>3
    <3>2. link2 = Links!Inited(link) \/ (Kinds[i] = "stub" /\ link2 = Links!StubInit(link))
      BY <1>1, <2>3 DEF Links!multi_init
    <3> HIDE DEF link, link2
    <3>3. /\ link = [f \in LinkFields |-> link[f]] /\ link.up \in BOOLEAN
          /\ link.rx # Absent => Links!Framed(i)
      BY <2>1, Zenon DEF LinkOK
    <3>4. /\ link2 = [f \in LinkFields |-> link2[f]] /\ link2.initialized = TRUE
          /\ link2.up = link.up /\ link2.inq = link.inq /\ link2.rx = Absent
      <4>1. Kinds[i] = "stub" => link.rx = Absent
        BY <3>3 DEF Links!Framed
      <4> QED  BY <3>2, <3>3, <4>1 DEF LinkFields, Links!Inited, Links!StubInit
    <3>5. link.inq = <<>> => Links!Held(link.inq) = {}
      BY DEF Links!Held
    <3>6. ~severed'[i] => link2.inq = <<>> /\ host[i] = Absent /\ waiting'[i] = {}
      BY <3>1, <3>4, <3>5
    <3>7. LinkOK(i, link2, host[i], severed'[i], waiting'[i])
      BY <2>1, <3>3, <3>4, <3>6, Cleared
    <3> QED  BY <1>1, <3>7 DEF link2
  <2> QED  BY <2>2, <2>3
<1>3. faults' \in 0 .. LinkFaults
  BY <1>1 DEF LinksInv, Links!ConstantsOK
<1>4. severed' \in [Links!Ids -> BOOLEAN]
  BY <1>1 DEF LinksInv
<1>5. waiting' \in [Links!Ids -> SUBSET (1 .. MaxMsgs)]
  BY <1>1 DEF LinksInv
<1>6. links' = [i \in Links!Ids |-> links'[i]]
  BY <1>1 DEF Links!multi_init
<1> QED  BY <1>1, <1>2, <1>3, <1>4, <1>5, <1>6, NothingGot DEF LinksInv

LEMMA CloseTransportsStep ==
  ASSUME Links!ConstantsOK, LinksInv, Links!CloseTransports
  PROVE  LinksInv'
<1>1. /\ faults < LinkFaults /\ faults' = faults + 1
      /\ links' = [i \in Links!Ids |-> Links!Closed(i, links[i])]
      /\ host' = [i \in Links!Ids |-> IF links'[i].up THEN host[i] ELSE Absent]
      /\ severed' = [i \in Links!Ids |-> host'[i] # Absent \/ links'[i].inq # <<>>]
      /\ waiting' = [i \in Links!Ids |-> {}]
      /\ got' = Absent /\ begun' = begun
  BY DEF Links!CloseTransports
<1>2. ASSUME NEW i \in Links!Ids PROVE LinkOK(i, links'[i], host'[i], severed'[i], waiting'[i])
  <2> DEFINE link == links[i]
             link2 == links'[i]
  <2>1. LinkOK(i, link, host[i], severed[i], waiting[i])
    BY DEF LinksInv
  <2>2. /\ link2 = Links!Closed(i, link) /\ host'[i] \in {host[i], Absent}
        /\ severed'[i] = (host'[i] # Absent \/ link2.inq # <<>>) /\ waiting'[i] = {}
    BY <1>1
  <2> HIDE DEF link, link2
  <2>3. link = [f \in LinkFields |-> link[f]] /\ link.up \in BOOLEAN
    BY <2>1, Zenon DEF LinkOK
  <2>4. /\ link2 = [f \in LinkFields |-> link2[f]] /\ link2.initialized = FALSE
        /\ link2.up \in BOOLEAN /\ link2.inq \in {link.inq, <<>>} /\ link2.rx = Absent
    BY <2>2, <2>3 DEF LinkFields, Links!Closed
  <2>5. LinkOK(i, link2, host'[i], severed'[i], waiting'[i])
    BY <2>1, <2>2, <2>4, Cleared
  <2> QED  BY <2>5 DEF link2
<1>3. faults' \in 0 .. LinkFaults
  BY <1>1 DEF LinksInv, Links!ConstantsOK
<1>4. severed' \in [Links!Ids -> BOOLEAN] /\ waiting' \in [Links!Ids -> SUBSET (1 .. MaxMsgs)]
  BY <1>1
<1>5. links' = [i \in Links!Ids |-> links'[i]] /\ host' = [i \in Links!Ids |-> host'[i]]
  BY <1>1
<1> QED  BY <1>1, <1>2, <1>3, <1>4, <1>5, NothingGot DEF LinksInv

\* A step of one link leaves the invariant true when that link is in order.
LEMMA OneLink ==
  ASSUME Links!ConstantsOK, LinksInv, NEW i \in Links!Ids,
         links' = [j \in Links!Ids |-> links'[j]], host' = [j \in Links!Ids |-> host'[j]],
         begun' \in 0 .. MaxMsgs, faults' \in 0 .. LinkFaults,
         waiting' \in [Links!Ids -> SUBSET (1 .. MaxMsgs)], severed' \in [Links!Ids -> BOOLEAN],
         \A j \in Links!Ids : j # i => /\ links'[j] = links[j] /\ host'[j] = host[j]
                                       /\ severed'[j] = severed[j] /\ waiting'[j] = waiting[j],
         LinkOK(i, links'[i], host'[i], severed'[i], waiting'[i]), got' = Absent
  PROVE  LinksInv'
<1>1. ASSUME NEW j \in Links!Ids PROVE LinkOK(j, links'[j], host'[j], severed'[j], waiting'[j])
  <2>1. CASE j = i
    BY <2>1
  <2>2. CASE j # i
    <3>1. LinkOK(j, links[j], host[j], severed[j], waiting[j])
      BY DEF LinksInv
    <3> QED  BY <2>2, <3>1
  <2> QED  BY <2>1, <2>2
<1> QED  BY <1>1, NothingGot DEF LinksInv

LEMMA WriteStep ==
  ASSUME Links!ConstantsOK, LinksInv, NEW i \in Links!Ids, Links!Write(i)
  PROVE  LinksInv'
<1> DEFINE w(of) == IF host[i] = Absent THEN Links!Unit(begun + 1, 1, of)
                    ELSE Links!Unit(host[i].msg, host[i].part + 1, host[i].of)
<1>1. PICK of \in 1 .. (IF Links!Framed(i) THEN MaxLen ELSE 1) :
        /\ host[i] = Absent => begun < MaxMsgs
        /\ links' = [links EXCEPT ![i].inq = Append(@, w(of))]
        /\ host' = [host EXCEPT ![i] = IF w(of).part = w(of).of THEN Absent ELSE w(of)]
        /\ begun' = IF host[i] = Absent THEN begun + 1 ELSE begun
        /\ waiting' = [waiting EXCEPT ![i] = IF w(of).part = w(of).of THEN @ \cup {w(of).msg} ELSE @]
  BY DEF Links!Write
<1> DEFINE f == w(of)
           link == links[i]
           link2 == links'[i]
<1>2. /\ got' = Absent /\ severed' = severed /\ faults' = faults /\ begun \in 0 .. MaxMsgs
      /\ faults \in 0 .. LinkFaults /\ severed \in [Links!Ids -> BOOLEAN]
      /\ waiting \in [Links!Ids -> SUBSET (1 .. MaxMsgs)]
      /\ links = [j \in Links!Ids |-> links[j]] /\ host = [j \in Links!Ids |-> host[j]]
      /\ LinkOK(i, link, host[i], severed[i], waiting[i])
  BY DEF Links!Write, LinksInv
<1>3. /\ link = [e \in LinkFields |-> link[e]]
      /\ host[i] # Absent => Links!Framed(i) /\ host[i] \in Fragments /\ host[i].part < host[i].of
  BY <1>2, Zenon DEF LinkOK
<1>4. /\ f \in Fragments /\ (~Links!Framed(i) => f.of = 1)
      /\ IF host[i] = Absent THEN f.part = 1 ELSE Continues(host[i], f)
  <2>1. MaxLen \in Nat \ {0} /\ MaxMsgs \in Nat /\ of \in 1 .. MaxLen /\ (~Links!Framed(i) => of = 1)
    BY <1>1 DEF Links!ConstantsOK
  <2>2. CASE host[i] = Absent
    <3>1. f = Links!Unit(begun + 1, 1, of)
      BY <2>2
    <3> HIDE DEF f
    <3>2. begun + 1 \in 1 .. MaxMsgs /\ 1 \in 1 .. MaxLen /\ 1 <= of
      BY <1>1, <1>2, <2>1, <2>2
    <3> QED  BY <2>1, <2>2, <3>1, <3>2 DEF Fragments, Links!Units, Links!Unit
  <2>3. CASE host[i] # Absent
    <3> DEFINE h == host[i]
    <3>1. f = Links!Unit(h.msg, h.part + 1, h.of)
      BY <2>3
    <3>2. h \in Fragments /\ Links!Framed(i) /\ h.part < h.of
      BY <1>3, <2>3
    <3> HIDE DEF f, h
    <3>3. h.msg \in 1 .. MaxMsgs /\ h.part \in 1 .. MaxLen /\ h.of \in 1 .. MaxLen
      BY <3>2, FragmentIs
    <3>4. h.part + 1 \in 1 .. MaxLen /\ h.part + 1 <= h.of
      BY <2>1, <3>2, <3>3
    <3>5. f \in Fragments
      BY <3>1, <3>3, <3>4 DEF Fragments, Links!Units, Links!Unit
    <3>6. Continues(h, f)
      BY <3>1, <3>2 DEF Continues
    <3> QED  BY <2>3, <3>2, <3>5, <3>6 DEF h
  <2> QED  BY <2>2, <2>3
<1>5. links' = [links EXCEPT ![i].inq = Append(@, f)]
  BY <1>1
<1>6. host' = [host EXCEPT ![i] = IF Ends(f) THEN Absent ELSE f]
  BY <1>1 DEF Ends
<1>7. waiting' = [waiting EXCEPT ![i] = IF Ends(f) THEN @ \cup {f.msg} ELSE @]
  BY <1>1 DEF Ends
<1>8. f.msg \in 1 .. MaxMsgs
  <2> HIDE DEF f
  <2> QED  BY <1>4, FragmentIs
<1> HIDE DEF f
<1>9. link2 = [link EXCEPT !.inq = Append(@, f)]
  BY <1>2, <1>5
<1>10. /\ links' = [j \in Links!Ids |-> links'[j]] /\ host' = [j \in Links!Ids |-> host'[j]]
       /\ waiting' \in [Links!Ids -> SUBSET (1 .. MaxMsgs)]
       /\ \A j \in Links!Ids : j # i => /\ links'[j] = links[j] /\ host'[j] = host[j]
                                        /\ severed'[j] = severed[j] /\ waiting'[j] = waiting[j]
  <2>1. links' = [j \in Links!Ids |-> links'[j]] /\ \A j \in Links!Ids : j # i => links'[j] = links[j]
    BY <1>2, <1>5
  <2>2. host' = [j \in Links!Ids |-> host'[j]] /\ \A j \in Links!Ids : j # i => host'[j] = host[j]
    BY <1>2, <1>6
  <2>3. /\ waiting' \in [Links!Ids -> SUBSET (1 .. MaxMsgs)]
        /\ \A j \in Links!Ids : j # i => waiting'[j] = waiting[j]
    BY <1>2, <1>7, <1>8
  <2> QED  BY <1>2, <2>1, <2>2, <2>3
<1>11. /\ host'[i] = IF Ends(f) THEN Absent ELSE f
       /\ waiting'[i] = IF Ends(f) THEN waiting[i] \cup {f.msg} ELSE waiting[i]
  BY <1>2, <1>6, <1>7
<1> HIDE DEF link, link2
<1>12. /\ link2 = [e \in LinkFields |-> link2[e]] /\ link2.initialized = link.initialized
       /\ link2.up = link.up /\ link2.rx = link.rx /\ link2.inq = Append(link.inq, f)
  BY <1>3, <1>9 DEF LinkFields
<1>13. LinkOK(i, link2, host'[i], severed[i], waiting'[i])
  <2> DEFINE h2 == host'[i]
             w2 == waiting'[i]
             t == severed[i]
             h == host[i]
             x == waiting[i]
  <2>1. /\ h2 = IF Ends(f) THEN Absent ELSE f
        /\ w2 = IF Ends(f) THEN x \cup {f.msg} ELSE x
    BY <1>11
  <2>2. LinkOK(i, link, h, t, x) /\ IF h = Absent THEN f.part = 1 ELSE Continues(h, f)
    BY <1>2, <1>4
  <2> HIDE DEF h2, w2, t, h, x
  <2>3. LinkOK(i, link2, h2, t, w2)
    BY <1>4, <1>12, <2>1, <2>2, HostWrote, Zenon
  <2> QED  BY <2>3 DEF h2, w2, t
<1>14. begun' \in 0 .. MaxMsgs
  BY <1>1, <1>2 DEF Links!ConstantsOK
<1> QED  BY <1>2, <1>10, <1>13, <1>14, OneLink DEF link2

LEMMA GiveUpStep ==
  ASSUME Links!ConstantsOK, LinksInv, NEW i \in Links!Ids, Links!GiveUp(i)
  PROVE  LinksInv'
<1>1. /\ faults < LinkFaults /\ faults' = faults + 1 /\ got' = Absent
      /\ host' = [host EXCEPT ![i] = Absent] /\ severed' = [severed EXCEPT ![i] = TRUE]
      /\ links' = links /\ waiting' = waiting /\ begun' = begun
  BY DEF Links!GiveUp
<1>2. /\ begun \in 0 .. MaxMsgs /\ faults \in 0 .. LinkFaults /\ severed \in [Links!Ids -> BOOLEAN]
      /\ waiting \in [Links!Ids -> SUBSET (1 .. MaxMsgs)]
      /\ links = [j \in Links!Ids |-> links[j]] /\ host = [j \in Links!Ids |-> host[j]]
      /\ LinkOK(i, links[i], host[i], severed[i], waiting[i])
  BY DEF LinksInv
<1>3. LinkOK(i, links[i], Absent, TRUE, waiting[i])
  <2>1. Kinds[i] = "hid" => WeakLink(links[i], Absent)
    <3>1. Kinds[i] = "hid" => WeakLink(links[i], host[i])
      BY <1>2, Zenon DEF LinkOK
    <3> QED  BY <3>1 DEF WeakLink
  <2> QED  BY <1>2, <2>1, Zenon DEF LinkOK
<1>4. host'[i] = Absent /\ severed'[i] = TRUE
  BY <1>1, <1>2
<1>5. /\ host' = [j \in Links!Ids |-> host'[j]] /\ severed' \in [Links!Ids -> BOOLEAN]
      /\ \A j \in Links!Ids : j # i => host'[j] = host[j] /\ severed'[j] = severed[j]
  BY <1>1, <1>2
<1>6. faults' \in 0 .. LinkFaults
  BY <1>1, <1>2 DEF Links!ConstantsOK
<1>7. LinkOK(i, links'[i], host'[i], severed'[i], waiting'[i])
  BY <1>1, <1>3, <1>4, Zenon
<1>8. \A j \in Links!Ids : j # i => /\ links'[j] = links[j] /\ host'[j] = host[j]
                                   /\ severed'[j] = severed[j] /\ waiting'[j] = waiting[j]
  BY <1>1, <1>5, Zenon
<1> QED  BY <1>1, <1>2, <1>5, <1>6, <1>7, <1>8, OneLink

LEMMA DropStep ==
  ASSUME Links!ConstantsOK, LinksInv, NEW i \in Links!Ids, Links!Drop(i)
  PROVE  LinksInv'
<1> DEFINE link == links[i]
           link2 == links'[i]
           t2 == severed[i] \/ host[i] # Absent \/ link.rx # Absent \/ link.inq # <<>>
<1>1. /\ faults < LinkFaults /\ faults' = faults + 1 /\ got' = Absent
      /\ Kinds[i] \in {"nfc", "ble"} /\ links' = [links EXCEPT ![i].up = FALSE, ![i].inq = <<>>]
      /\ severed' = [severed EXCEPT ![i] = @ \/ host[i] # Absent \/ links[i].rx # Absent \/ links[i].inq # <<>>]
      /\ host' = [host EXCEPT ![i] = Absent] /\ waiting' = [waiting EXCEPT ![i] = {}]
      /\ begun' = begun
  BY DEF Links!Drop
<1>2. /\ begun \in 0 .. MaxMsgs /\ faults \in 0 .. LinkFaults /\ severed \in [Links!Ids -> BOOLEAN]
      /\ waiting \in [Links!Ids -> SUBSET (1 .. MaxMsgs)]
      /\ links = [j \in Links!Ids |-> links[j]] /\ host = [j \in Links!Ids |-> host[j]]
      /\ LinkOK(i, link, host[i], severed[i], waiting[i])
  BY DEF LinksInv
<1>3. /\ link2 = [link EXCEPT !.up = FALSE, !.inq = <<>>] /\ links' = [j \in Links!Ids |-> links'[j]]
      /\ \A j \in Links!Ids : j # i => links'[j] = links[j]
  BY <1>1, <1>2
<1>4. host'[i] = Absent /\ severed'[i] = t2 /\ waiting'[i] = {}
  BY <1>1, <1>2
<1>5. /\ host' = [j \in Links!Ids |-> host'[j]] /\ severed' \in [Links!Ids -> BOOLEAN]
      /\ waiting' \in [Links!Ids -> SUBSET (1 .. MaxMsgs)]
      /\ \A j \in Links!Ids : j # i => host'[j] = host[j] /\ severed'[j] = severed[j] /\ waiting'[j] = waiting[j]
  BY <1>1, <1>2
<1>6. faults' \in 0 .. LinkFaults
  BY <1>1, <1>2 DEF Links!ConstantsOK
<1> HIDE DEF link, link2
<1>7. link = [f \in LinkFields |-> link[f]] /\ link.initialized \in BOOLEAN
  BY <1>2, Zenon DEF LinkOK
<1>8. /\ link2 = [f \in LinkFields |-> link2[f]] /\ link2.initialized = link.initialized
      /\ link2.up = FALSE /\ link2.inq = <<>> /\ link2.rx = link.rx
  BY <1>3, <1>7 DEF LinkFields
<1>9. LinkOK(i, link2, Absent, t2, {})
  BY <1>1, <1>2, <1>7, <1>8, Cleared
<1> QED  BY <1>1, <1>2, <1>3, <1>4, <1>5, <1>6, <1>9, OneLink DEF link2

LEMMA ReturnStep ==
  ASSUME Links!ConstantsOK, LinksInv, NEW i \in Links!Ids, Links!Return(i)
  PROVE  LinksInv'
<1> DEFINE link == links[i]
           link2 == links'[i]
<1>1. /\ links' = [links EXCEPT ![i].up = TRUE] /\ got' = Absent /\ host' = host
      /\ severed' = severed /\ waiting' = waiting /\ begun' = begun /\ faults' = faults
  BY DEF Links!Return
<1>2. /\ begun \in 0 .. MaxMsgs /\ faults \in 0 .. LinkFaults /\ severed \in [Links!Ids -> BOOLEAN]
      /\ waiting \in [Links!Ids -> SUBSET (1 .. MaxMsgs)]
      /\ links = [j \in Links!Ids |-> links[j]] /\ host = [j \in Links!Ids |-> host[j]]
      /\ LinkOK(i, link, host[i], severed[i], waiting[i])
  BY DEF LinksInv
<1>3. /\ link2 = [link EXCEPT !.up = TRUE] /\ links' = [j \in Links!Ids |-> links'[j]]
      /\ \A j \in Links!Ids : j # i => links'[j] = links[j]
  BY <1>1, <1>2
<1> HIDE DEF link, link2
<1>4. link = [f \in LinkFields |-> link[f]]
  BY <1>2, Zenon DEF LinkOK
<1>5. /\ link2 = [f \in LinkFields |-> link2[f]] /\ link2.initialized = link.initialized
      /\ link2.up = TRUE /\ link2.inq = link.inq /\ link2.rx = link.rx
  BY <1>3, <1>4 DEF LinkFields
<1>6. LinkOK(i, link2, host[i], severed[i], waiting[i])
  <2>1. /\ WeakLink(link, host[i]) => WeakLink(link2, host[i])
        /\ StrongLink(link, host[i]) => StrongLink(link2, host[i])
    BY <1>5 DEF WeakLink, StrongLink
  <2>2. link2.up \in BOOLEAN
    BY <1>5
  <2> QED  BY <1>2, <1>5, <2>1, <2>2, Zenon DEF LinkOK
<1> QED  BY <1>1, <1>2, <1>3, <1>6, OneLink DEF link2

\* The first link that returned a message.
LEMMA FirstIs ==
  ASSUME Links!ConstantsOK, NEW results
  PROVE  LET ok == {i \in Links!Ids : Links!IsMessage(results[i].out)}
             first == Links!FirstOk(results)
         IN  /\ Links!Ids \subseteq Nat
             /\ first = Absent => ok = {}
             /\ first # Absent => first \in ok /\ \A j \in ok : first <= j
<1> DEFINE ok == {i \in Links!Ids : Links!IsMessage(results[i].out)}
<1>1. Links!Ids \subseteq Nat
  BY DEF Links!ConstantsOK, Links!Ids
<1>2. ok \subseteq Nat /\ ok \subseteq Links!Ids
  BY <1>1
<1>3. Links!FirstOk(results) = IF ok = {} THEN Absent ELSE CHOOSE i \in ok : \A j \in ok : i <= j
  BY DEF Links!FirstOk
<1> HIDE DEF ok
<1>4. ok # {} => LET i == CHOOSE i \in ok : \A j \in ok : i <= j
                 IN  i \in ok /\ \A j \in ok : i <= j
  BY <1>2, LeastNat
<1>5. Absent \notin ok
  BY <1>2 DEF Links!ConstantsOK
<1> QED  BY <1>1, <1>3, <1>4, <1>5 DEF ok

LEMMA RecvStep ==
  ASSUME Links!ConstantsOK, LinksInv, Links!Recv
  PROVE  LinksInv'
<1> DEFINE R(len) == [i \in Links!Ids |-> Links!RecvOf(i, links[i], len)]
<1>1. PICK len \in 1 .. MaxLen :
        LET results == R(len)
            first == Links!FirstOk(results)
        IN  /\ links' = Links!multi_recv(results, first)
            /\ IF first = Absent THEN got' = Nothing /\ UNCHANGED waiting
               ELSE LET units == results[first].out IN
                    /\ got' = [link |-> first, units |-> units, torn |-> severed[first]]
                    /\ waiting' = [waiting EXCEPT ![first] = @ \ {units[k].msg : k \in DOMAIN units}]
            /\ UNCHANGED <<host, severed, begun, faults>>
  BY DEF Links!Recv
<1> DEFINE results == R(len)
           first == Links!FirstOk(results)
           r(i) == Links!RecvOf(i, links[i], len)
           after(i) == AfterRead(links[i], r(i))
           told(i) == {r(i).out[k].msg : k \in DOMAIN r(i).out}
<1>2. /\ begun \in 0 .. MaxMsgs /\ faults \in 0 .. LinkFaults /\ severed \in [Links!Ids -> BOOLEAN]
      /\ waiting \in [Links!Ids -> SUBSET (1 .. MaxMsgs)]
      /\ links = [j \in Links!Ids |-> links[j]] /\ host = [j \in Links!Ids |-> host[j]]
      /\ \A i \in Links!Ids : LinkOK(i, links[i], host[i], severed[i], waiting[i])
  BY DEF LinksInv
<1>3. ASSUME NEW i \in Links!Ids
      PROVE  ReadOutcome(i, links[i], host[i], severed[i], waiting[i], r(i), after(i))
  <2>1. LinkOK(i, links[i], host[i], severed[i], waiting[i]) /\ severed[i] \in BOOLEAN
    BY <1>2
  <2> QED  BY <1>1, <2>1, LinkRead
<1> DEFINE X(j) == IF first # Absent /\ j > first THEN links[j]
                   ELSE [links[j] EXCEPT !.rx = results[j].rx,
                                         !.inq = SubSeq(@, results[j].used + 1, Len(@))]
<1>4. links' = [j \in Links!Ids |-> X(j)]
  <2>1. links' = Links!multi_recv(results, first)
    BY <1>1
  <2> HIDE DEF results, first
  <2> QED  BY <2>1, Zenon DEF Links!multi_recv
<1>5. links' = [i \in Links!Ids |-> links'[i]]
  <2> HIDE DEF X
  <2> QED  BY <1>4
<1>6. ASSUME NEW i \in Links!Ids
      PROVE  /\ results[i] = r(i)
             /\ links'[i] = IF first # Absent /\ i > first THEN links[i] ELSE after(i)
  <2>1. results[i] = r(i)
    OBVIOUS
  <2>2. links'[i] = X(i)
    <3> HIDE DEF X
    <3> QED  BY <1>4
  <2> HIDE DEF results, first, r
  <2> QED  BY <2>1, <2>2, Zenon DEF AfterRead
<1>7. /\ host' = host /\ severed' = severed /\ begun' = begun /\ faults' = faults
      /\ first = Absent => got' = Nothing /\ waiting' = waiting
      /\ first # Absent =>
           /\ got' = [link |-> first, units |-> results[first].out, torn |-> severed[first]]
           /\ waiting' = [waiting EXCEPT ![first] =
                            @ \ {results[first].out[k].msg : k \in DOMAIN results[first].out}]
  BY <1>1
<1>8. /\ Links!Ids \subseteq Nat
      /\ first = Absent => \A i \in Links!Ids : ~Links!IsMessage(results[i].out)
      /\ first # Absent => /\ first \in Links!Ids /\ Links!IsMessage(results[first].out)
                           /\ \A j \in Links!Ids : Links!IsMessage(results[j].out) => first <= j
  <2> HIDE DEF results
  <2> QED  BY FirstIs
<1> HIDE DEF results, first, r, after
<1>9. CASE first = Absent
  <2>1. ASSUME NEW i \in Links!Ids
        PROVE  /\ LinkOK(i, links'[i], host'[i], severed'[i], waiting'[i])
               /\ Links!CanRecv(i, links'[i]) /\ ~severed'[i] => waiting'[i] = {}
    <3>1. ~Links!IsMessage(r(i).out) /\ links'[i] = after(i)
      BY <1>6, <1>8, <1>9
    <3> QED  BY <1>3, <1>7, <1>9, <3>1 DEF ReadOutcome
  <2>2. Links!MessagesIntact'
    BY <1>7, <1>9 DEF Links!MessagesIntact
  <2>3. Links!NothingHidden'
    BY <2>1 DEF Links!NothingHidden
  <2> QED  BY <1>2, <1>5, <1>7, <1>9, <2>1, <2>2, <2>3 DEF LinksInv
<1>10. CASE first # Absent
  <2>1. first \in Links!Ids /\ Links!IsMessage(r(first).out) /\ results[first] = r(first)
    BY <1>6, <1>8, <1>10
  <2>2. /\ got' = [link |-> first, units |-> r(first).out, torn |-> severed[first]]
        /\ waiting' = [waiting EXCEPT ![first] = @ \ told(first)]
    BY <1>7, <1>10, <2>1
  <2>3. r(first).out \in Seq(Links!Units)
    BY <1>3, <2>1 DEF ReadOutcome, Links!IsMessage
  <2>4. got' \in Links!Received
    BY <1>2, <2>1, <2>2, <2>3 DEF Links!Received
  <2>5. got' # Absent /\ got' # Nothing
    BY <2>4 DEF Links!ConstantsOK
  <2>6. Links!NothingHidden'
    BY <2>5 DEF Links!NothingHidden
  <2>7. Links!MessagesIntact'
    <3>1. got'.link = first /\ got'.units = r(first).out /\ got'.torn = severed[first]
      BY <2>2
    <3>2. ~(severed[first] /\ Kinds[first] = "ble") =>
            \E m \in 1 .. MaxMsgs, of \in 1 .. MaxLen : r(first).out = Links!Whole(m, of)
      BY <1>3, <2>1 DEF ReadOutcome
    <3> QED  BY <3>1, <3>2 DEF Links!MessagesIntact
  <2> DEFINE seen == told(first)
  <2> HIDE DEF seen
  <2>8. /\ waiting' \in [Links!Ids -> SUBSET (1 .. MaxMsgs)] /\ waiting'[first] = waiting[first] \ seen
        /\ \A j \in Links!Ids : j # first => waiting'[j] = waiting[j]
    <3>1. waiting' = [waiting EXCEPT ![first] = @ \ seen]
      BY <2>2 DEF seen
    <3> QED  BY <1>2, <2>1, <3>1
  <2>9. ASSUME NEW i \in Links!Ids
        PROVE  LinkOK(i, links'[i], host'[i], severed'[i], waiting'[i])
    <3>1. i \in Nat /\ first \in Nat
      BY <1>8, <2>1
    <3>2. CASE i = first
      <4>1. links'[i] = after(i)
        BY <1>6, <3>1, <3>2
      <4>2. LinkOK(i, after(i), host[i], severed[i], waiting[i] \ seen)
        BY <1>3, <2>1, <3>2 DEF ReadOutcome, seen
      <4> QED  BY <1>7, <2>8, <3>2, <4>1, <4>2
    <3>3. CASE i < first
      <4>1. links'[i] = after(i) /\ i # first
        BY <1>6, <3>1, <3>3
      <4>2. ~Links!IsMessage(r(i).out)
        BY <1>6, <1>8, <1>10, <3>1, <3>3
      <4>3. LinkOK(i, after(i), host[i], severed[i], waiting[i])
        BY <1>3, <4>2 DEF ReadOutcome
      <4> QED  BY <1>7, <2>8, <4>1, <4>3
    <3>4. CASE i > first
      <4>1. links'[i] = links[i] /\ i # first
        BY <1>6, <1>10, <3>1, <3>4
      <4> QED  BY <1>2, <1>7, <2>8, <4>1
    <3> QED  BY <3>1, <3>2, <3>3, <3>4
  <2> QED  BY <1>2, <1>5, <1>7, <2>6, <2>7, <2>8, <2>9 DEF LinksInv
<1> QED  BY <1>9, <1>10

LEMMA LinksStep ==
  ASSUME Links!ConstantsOK, LinksInv, Links!Next \/ UNCHANGED Links!vars
  PROVE  LinksInv'
<1>1. CASE UNCHANGED Links!vars
  BY <1>1 DEF Links!vars, LinksInv, Links!MessagesIntact, Links!NothingHidden
<1> QED
  BY <1>1, InitTransportsStep, CloseTransportsStep, RecvStep, WriteStep, GiveUpStep, DropStep,
     ReturnStep DEF Links!Next

LEMMA LinksTyped ==
  ASSUME Links!ConstantsOK, LinksInv
  PROVE  Links!TypeOK
<1>1. ASSUME NEW i \in Links!Ids
      PROVE  /\ links[i].initialized \in BOOLEAN /\ links[i].up \in BOOLEAN
             /\ links[i].inq \in Seq(Links!Units)
             /\ links[i].rx # Absent => Links!Framed(i) /\ links[i].rx.buf \in Seq(Links!Units)
  <2>1. LinkOK(i, links[i], host[i], severed[i], waiting[i])
    BY DEF LinksInv
  <2>2. /\ links[i].initialized \in BOOLEAN /\ links[i].up \in BOOLEAN
        /\ links[i].inq \in Seq(Fragments)
        /\ links[i].rx # Absent => Links!Framed(i) /\ links[i].rx \in Links!Assemblies
    BY <2>1, Zenon DEF LinkOK
  <2>3. Fragments \subseteq Links!Units
    BY DEF Fragments
  <2>4. links[i].inq \in Seq(Links!Units)
    BY <2>2, <2>3
  <2> QED  BY <2>2, <2>4 DEF Links!Assemblies
<1> QED  BY <1>1 DEF LinksInv, Links!TypeOK

\* For any links, message lengths and number of messages and faults: what recv returns is
\* one whole message of one host, unless over BLE a message was abandoned since the
\* adapter was last initialized (CtaphidAssembler, push_fragment), and when it returns
\* nothing no working link holds one (MultiTransport::recv).
THEOREM MessagesStayWhole == MCSpec => []MessagesIntact
<1> DEFINE I == part = "links" => LinksInv
<1>1. Links!ConstantsOK
  BY Constants
<1>2. MCInit => I
  BY <1>1, LinksInit DEF MCInit
<1>3. I /\ [MCNext]_allvars => I'
  <2> SUFFICES ASSUME I, [MCNext]_allvars, part' = "links" PROVE LinksInv'
    OBVIOUS
  <2>1. part = "links" /\ (Links!Next \/ UNCHANGED Links!vars)
    BY DEF MCNext, allvars, Links!vars
  <2> QED  BY <1>1, <2>1, LinksStep
<1>4. I => MessagesIntact
  BY <1>1, LinksTyped DEF MessagesIntact, LinksInv
<1> QED  BY <1>2, <1>3, <1>4, PTL DEF MCSpec

----------------------------------------------------------------------------
(* The PIN protocols (PinProtocol), for any PINs, block and pad lengths and   *)
(* number of keys, requests and faults.  PinAsTyped looks at a request that   *)
(* was answered; the invariant says what a request may be: as the platform    *)
(* made it, or altered in one part.  What it carries tells the version and    *)
(* the secret it was made with, so that anything altered is either refused or *)
(* decrypts to noise; the blocks of an unaltered one decrypt to what was      *)
(* encrypted; and an answered request has spent its key or secret.            *)

LEMMA DivMod ==
  ASSUME NEW a \in Nat, NEW b \in Nat \ {0}
  PROVE  a = b * (a \div b) + (a % b) /\ a \div b \in Nat /\ a % b \in 0 .. b - 1
<1> QED  OBVIOUS

LEMMA InBlock ==
  ASSUME NEW n \in Nat, NEW b \in Nat \ {0}, NEW j \in 1 .. n * b
  PROVE  /\ ((j - 1) \div b) + 1 \in 1 .. n /\ ((j - 1) % b) + 1 \in 1 .. b
         /\ ((j - 1) \div b) * b + (((j - 1) % b) + 1) = j
<1> DEFINE q == (j - 1) \div b
           r == (j - 1) % b
<1>1. j - 1 \in Nat /\ j - 1 < n * b /\ j \in Int
  OBVIOUS
<1>2. j - 1 = b * q + r /\ q \in Nat /\ r \in 0 .. b - 1
  BY <1>1, DivMod
<1> HIDE DEF q, r
<1>3. q < n
  BY <1>1, <1>2
<1> QED  BY <1>1, <1>2, <1>3 DEF q, r

\* A PIN's digest is defined, byte by byte, and is a number.
LEMMA DigestIs ==
  ASSUME NEW p \in Seq(Nat)
  PROVE  PinProtocol!Digest(p)[Len(p)] \in Nat
<1> DEFINE n == Len(p)
           Is(N, g) == g = [k \in 0 .. N |-> IF k = 0 THEN n ELSE 4 * g[k - 1] + p[k]]
           T == {N \in Nat : ~\E g : Is(N, g)}
<1>1. T = {}
  <2> SUFFICES ASSUME T # {} PROVE FALSE
    OBVIOUS
  <2>1. PICK N \in T : \A m \in T : N <= m
    <3>1. T \subseteq Nat
      OBVIOUS
    <3> HIDE DEF T
    <3> QED  BY <3>1, LeastNat
  <2>2. N \in Nat /\ ~\E g : Is(N, g)
    OBVIOUS
  <2>3. N # 0
    <3> DEFINE g == [k \in 0 .. 0 |-> n]
    <3> HIDE DEF n
    <3>1. Is(0, g)
      OBVIOUS
    <3> QED  BY <2>2, <3>1
  <2>4. PICK g : Is(N - 1, g)
    <3>1. N - 1 \in Nat /\ ~(N <= N - 1)
      BY <2>2, <2>3
    <3>2. N - 1 \notin T
      BY <2>1, <3>1
    <3> QED  BY <3>1, <3>2
  <2> DEFINE g2 == [k \in 0 .. N |-> IF k = N THEN 4 * g[N - 1] + p[N] ELSE g[k]]
  <2> HIDE DEF n, T
  <2>5. ASSUME NEW k \in 0 .. N
        PROVE  g2[k] = IF k = 0 THEN n ELSE 4 * g2[k - 1] + p[k]
    <3>1. CASE k = N
      <4>1. g2[k - 1] = g[N - 1]
        BY <2>2, <2>3, <3>1
      <4> QED  BY <2>2, <2>3, <3>1, <4>1
    <3>2. CASE k # N
      <4>1. k \in 0 .. N - 1 /\ g2[k] = g[k]
        BY <2>2, <3>2
      <4>2. g[k] = IF k = 0 THEN n ELSE 4 * g[k - 1] + p[k]
        BY <2>4, <4>1
      <4>3. k # 0 => g2[k - 1] = g[k - 1]
        BY <2>2, <4>1
      <4> QED  BY <4>1, <4>2, <4>3
    <3> QED  BY <3>1, <3>2
  <2>6. Is(N, g2)
    <3> DEFINE g3 == [k \in 0 .. N |-> IF k = 0 THEN n ELSE 4 * g2[k - 1] + p[k]]
    <3>1. g2 = [k \in 0 .. N |-> g2[k]]
      OBVIOUS
    <3>2. \A k \in 0 .. N : g2[k] = g3[k]
      BY <2>5
    <3> HIDE DEF g2
    <3>3. g2 = g3
      BY <3>1, <3>2
    <3> QED  BY <3>3
  <2> QED  BY <2>2, <2>6
<1>2. n \in Nat
  OBVIOUS
<1>3. PICK g : Is(n, g)
  BY <1>1, <1>2
<1> DEFINE R == CHOOSE h : Is(n, h)
<1>4. Is(n, R)
  BY <1>3
<1>5. PinProtocol!Digest(p) = R
  BY DEF PinProtocol!Digest
<1> HIDE DEF R
<1>6. \A k \in 0 .. n : R[k] = IF k = 0 THEN n ELSE 4 * R[k - 1] + p[k]
  BY <1>4, Zenon
<1>7. \A k \in 1 .. n : p[k] \in Nat
  OBVIOUS
<1> DEFINE S == {k \in 0 .. n : R[k] \in Nat}
<1> HIDE DEF n
<1>8. 0 \in S
  BY <1>2, <1>6
<1>9. ASSUME NEW k \in 1 .. n, k - 1 \in S PROVE k \in S
  <2>1. R[k - 1] \in Nat /\ k \in 0 .. n /\ k # 0 /\ p[k] \in Nat
    BY <1>2, <1>7, <1>9
  <2>2. R[k] = 4 * R[k - 1] + p[k]
    BY <1>6, <2>1
  <2>3. R[k] \in Nat
    BY <2>1, <2>2
  <2> QED  BY <2>1, <2>3
<1> HIDE DEF S
<1>10. n \in S
  <2>1. \A k \in 0 .. n : k \in S
    BY <1>2, <1>8, <1>9, UpTo
  <2> QED  BY <1>2, <2>1
<1> QED  BY <1>5, <1>10 DEF S, n

\* A PIN's hash is one block of bytes and is not noise.
LEMMA HashIs ==
  ASSUME PinProtocol!ConstantsOK, NEW p \in Seq(Nat)
  PROVE  LET h == PinProtocol!sha256(p) IN
         h \in Seq(Nat) /\ Len(h) = BlockLen /\ h[1] # 9 /\ h # <<>> /\ h # Absent
<1> DEFINE h == PinProtocol!sha256(p)
           d == PinProtocol!Digest(p)[Len(p)]
<1>1. BlockLen \in Nat \ {0} /\ Absent \notin Seq(Nat)
  BY DEF PinProtocol!ConstantsOK
<1>2. d \in Nat
  BY DigestIs
<1>3. h = [i \in 1..BlockLen |-> IF i = 1 THEN 100 + d
                                 ELSE IF Len(p) = PIN_MAX_LENGTH THEN 0 ELSE 1]
  BY DEF PinProtocol!sha256
<1> HIDE DEF h, d
<1>4. h \in [1 .. BlockLen -> Nat] /\ h[1] = 100 + d
  BY <1>1, <1>2, <1>3
<1>5. h \in Seq(Nat) /\ Len(h) = BlockLen
  BY <1>1, <1>4
<1> QED  BY <1>1, <1>2, <1>4, <1>5 DEF h

LEMMA SameSeq ==
  ASSUME NEW S, NEW a \in Seq(S), NEW b \in Seq(S), Len(a) = Len(b),
         \A j \in 1 .. Len(a) : a[j] = b[j]
  PROVE  a = b
<1>1. a = [j \in 1 .. Len(a) |-> a[j]] /\ b = [j \in 1 .. Len(b) |-> b[j]]
  OBVIOUS
<1> QED  BY <1>1

LEMMA BlocksJoined ==
  ASSUME PinProtocol!ConstantsOK, NEW data \in Seq(Nat), Len(data) % BlockLen = 0
  PROVE  LET bs == PinProtocol!Blocks(data) IN
         /\ bs \in Seq(Seq(Nat)) /\ Len(bs) = Len(data) \div BlockLen
         /\ Len(data) = Len(bs) * BlockLen
         /\ PinProtocol!Joined(bs) = data
<1> DEFINE bs == PinProtocol!Blocks(data)
           n == Len(data) \div BlockLen
           B == BlockLen
<1>1. B \in Nat \ {0} /\ Len(data) \in Nat
  BY DEF PinProtocol!ConstantsOK
<1>2. n \in Nat /\ Len(data) = n * B
  BY <1>1
<1>3. bs = [i \in 1 .. n |-> SubSeq(data, (i - 1) * B + 1, i * B)]
  BY DEF PinProtocol!Blocks
<1> HIDE DEF bs, n, B
<1>4. ASSUME NEW i \in 1 .. n
      PROVE  /\ bs[i] \in Seq(Nat) /\ Len(bs[i]) = B
             /\ \A k \in 1 .. B : bs[i][k] = data[(i - 1) * B + k]
  <2> DEFINE lo == (i - 1) * B
  <2>1. lo \in Nat /\ i * B = lo + B
    BY <1>1, <1>2
  <2>2. lo + B <= Len(data)
    <3>1. i <= n
      BY <1>2
    <3>2. i * B <= n * B
      BY <1>1, <1>2, <3>1
    <3> QED  BY <1>2, <2>1, <3>2
  <2>3. bs[i] = SubSeq(data, lo + 1, lo + B)
    BY <1>3, <2>1
  <2> HIDE DEF lo
  <2> DEFINE s == SubSeq(data, lo + 1, lo + B)
  <2>4. s \in Seq(Nat) /\ Len(s) = B /\ \A k \in 1 .. B : s[k] = data[lo + k]
    BY <1>1, <2>1, <2>2
  <2> HIDE DEF s
  <2> QED  BY <2>3, <2>4 DEF lo, s
<1>5. bs \in Seq(Seq(Nat)) /\ Len(bs) = n
  <2>1. bs \in [1 .. n -> Seq(Nat)]
    BY <1>3, <1>4
  <2> QED  BY <1>2, <2>1
<1>6. PinProtocol!Joined(bs) = [j \in 1 .. n * B |-> bs[((j - 1) \div B) + 1][((j - 1) % B) + 1]]
  BY <1>5 DEF PinProtocol!Joined, B
<1>7. ASSUME NEW j \in 1 .. n * B
      PROVE  bs[((j - 1) \div B) + 1][((j - 1) % B) + 1] = data[j]
  <2> DEFINE q == (j - 1) \div B
             r == (j - 1) % B
  <2>1. q + 1 \in 1 .. n /\ r + 1 \in 1 .. B /\ q * B + (r + 1) = j /\ q \in Int
    BY <1>1, <1>2, InBlock
  <2> HIDE DEF q, r
  <2>2. bs[q + 1][r + 1] = data[((q + 1) - 1) * B + (r + 1)]
    BY <1>4, <2>1
  <2>3. (q + 1) - 1 = q
    BY <2>1
  <2> QED  BY <2>1, <2>2, <2>3 DEF q, r
<1>8. PinProtocol!Joined(bs) = data
  <2> DEFINE J == [j \in 1 .. n * B |-> bs[((j - 1) \div B) + 1][((j - 1) % B) + 1]]
  <2>1. DOMAIN J = 1 .. n * B /\ \A j \in 1 .. n * B : J[j] = data[j]
    BY <1>7
  <2>2. J = [j \in 1 .. n * B |-> J[j]]
    OBVIOUS
  <2> HIDE DEF J
  <2>3. data = [j \in 1 .. n * B |-> data[j]]
    BY <1>2
  <2>4. J = data
    BY <2>1, <2>2, <2>3
  <2> QED  BY <1>6, <2>4 DEF J
<1> QED  BY <1>2, <1>5, <1>8 DEF bs, n, B

\* What is encrypted: block i holds the plaintext up to it.
ChainOf(c, k, iv, ps, n) ==
  /\ n \in Nat /\ DOMAIN c = 1 .. n /\ c \in Seq({c[i] : i \in 1 .. n}) /\ Len(c) = n
  /\ \A i \in 1 .. n : c[i] = [k |-> k, iv |-> iv, ps |-> SubSeq(ps, 1, i)]

LEMMA CipherIs ==
  ASSUME PinProtocol!ConstantsOK, NEW data \in Seq(Nat), Len(data) % BlockLen = 0, NEW k, NEW iv
  PROVE  ChainOf(PinProtocol!aes256_cbc_encrypt(k, PinProtocol!Iv(iv), data), k, iv,
                 PinProtocol!Blocks(data), Len(data) \div BlockLen)
<1> DEFINE c == PinProtocol!aes256_cbc_encrypt(k, PinProtocol!Iv(iv), data)
           ps == PinProtocol!Blocks(data)
           n == Len(data) \div BlockLen
<1>1. ps \in Seq(Seq(Nat)) /\ Len(ps) = n
  BY BlocksJoined
<1>2. n \in Nat /\ DOMAIN ps = 1 .. n
  BY <1>1
<1>3. PinProtocol!Iv(iv).iv = iv
  BY DEF PinProtocol!Iv
<1>4. c = [i \in DOMAIN ps |-> [k |-> k, iv |-> iv, ps |-> SubSeq(ps, 1, i)]]
  BY <1>3 DEF PinProtocol!aes256_cbc_encrypt
<1> HIDE DEF c, ps, n
<1>5. DOMAIN c = 1 .. n /\ \A i \in 1 .. n : c[i] = [k |-> k, iv |-> iv, ps |-> SubSeq(ps, 1, i)]
  BY <1>2, <1>4
<1>6. c \in [1 .. n -> {c[i] : i \in 1 .. n}]
  BY <1>2, <1>4
<1>7. c \in Seq({c[i] : i \in 1 .. n}) /\ Len(c) = n
  <2> DEFINE S == {c[i] : i \in 1 .. n}
  <2>1. c \in [1 .. n -> S] /\ DOMAIN c = 1 .. n
    BY <1>5, <1>6
  <2> HIDE DEF S
  <2>2. c \in Seq(S)
    BY ONLY <1>2, <2>1
  <2>3. Len(c) = n
    BY ONLY <1>2, <2>1
  <2> QED  BY <2>2, <2>3 DEF S
<1>8. ChainOf(c, k, iv, ps, n)
  BY <1>2, <1>5, <1>7 DEF ChainOf
<1> QED  BY <1>8 DEF c, ps, n

LEMMA CbcRoundTrip ==
  ASSUME PinProtocol!ConstantsOK, NEW data \in Seq(Nat), Len(data) % BlockLen = 0, NEW k,
         NEW iv \in Nat
  PROVE  PinProtocol!aes256_cbc_decrypt(k, PinProtocol!Iv(iv),
           PinProtocol!aes256_cbc_encrypt(k, PinProtocol!Iv(iv), data)) = data
<1> DEFINE c == PinProtocol!aes256_cbc_encrypt(k, PinProtocol!Iv(iv), data)
           ps == PinProtocol!Blocks(data)
           n == Len(data) \div BlockLen
           IV == PinProtocol!Iv(iv)
           prev(i) == IF i = 1 THEN IV ELSE c[i - 1]
<1>1. ps \in Seq(Seq(Nat)) /\ Len(ps) = n /\ PinProtocol!Joined(ps) = data
  BY BlocksJoined
<1>2. /\ n \in Nat /\ DOMAIN c = 1 .. n
      /\ \A i \in 1 .. n : c[i] = [k |-> k, iv |-> iv, ps |-> SubSeq(ps, 1, i)]
  <2>1. ChainOf(c, k, iv, ps, n)
    BY CipherIs
  <2> HIDE DEF c, ps, n
  <2> QED  BY <2>1 DEF ChainOf
<1>3. IV.k = PinProtocol!NoKey /\ IV.iv = iv /\ IV.ps = <<>>
  BY DEF PinProtocol!Iv
<1> HIDE DEF c, ps, n, IV
<1>4. ASSUME NEW i \in 1 .. n
      PROVE  /\ c[i].k = k /\ c[i].iv = iv /\ c[i].ps = SubSeq(ps, 1, i)
             /\ Len(SubSeq(ps, 1, i)) = i /\ SubSeq(ps, 1, i)[i] = ps[i]
             /\ SubSeq(ps, 1, i) # <<>>
             /\ SubSeq(SubSeq(ps, 1, i), 1, i - 1) = SubSeq(ps, 1, i - 1)
             /\ i = 1 => SubSeq(ps, 1, i - 1) = <<>>
  <2>1. c[i].k = k /\ c[i].iv = iv /\ c[i].ps = SubSeq(ps, 1, i)
    BY <1>2
  <2> DEFINE s == SubSeq(ps, 1, i)
  <2>2. s \in Seq(Seq(Nat)) /\ Len(s) = i /\ \A j \in 1 .. i : s[j] = ps[j]
    BY <1>1, <1>2
  <2>3. s # <<>>
    <3> HIDE DEF s
    <3>1. Len(s) # 0 /\ Len(<<>>) = 0
      BY <1>2, <2>2
    <3> QED  BY <3>1
  <2>4. SubSeq(s, 1, i - 1) = SubSeq(ps, 1, i - 1)
    <3> DEFINE a == SubSeq(s, 1, i - 1)
               b == SubSeq(ps, 1, i - 1)
    <3> HIDE DEF s
    <3>1. a \in Seq(Seq(Nat)) /\ Len(a) = i - 1 /\ \A j \in 1 .. i - 1 : a[j] = s[j]
      BY <1>2, <2>2
    <3>2. b \in Seq(Seq(Nat)) /\ Len(b) = i - 1 /\ \A j \in 1 .. i - 1 : b[j] = ps[j]
      BY <1>1, <1>2
    <3>3. \A j \in 1 .. i - 1 : j \in 1 .. i
      BY <1>2
    <3> HIDE DEF a, b
    <3>4. a = b
      <4>1. Len(a) = Len(b) /\ \A j \in 1 .. Len(a) : a[j] = b[j]
        BY <2>2, <3>1, <3>2, <3>3
      <4> QED  BY <3>1, <3>2, <4>1, SameSeq
    <3> QED  BY <3>4 DEF a, b
  <2>5. i = 1 => SubSeq(ps, 1, i - 1) = <<>>
    BY <1>1
  <2>6. s[i] = ps[i]
    BY <1>2, <2>2
  <2> QED  BY <2>1, <2>2, <2>3, <2>4, <2>5, <2>6
<1>5. ASSUME NEW i \in 1 .. n PROVE PinProtocol!Plain(k, prev(i), c[i]) = ps[i]
  <2>1. SubSeq(c[i].ps, 1, Len(c[i].ps) - 1) = SubSeq(ps, 1, i - 1)
    BY <1>4
  <2>2. c[i].ps[Len(c[i].ps)] = ps[i]
    BY <1>4
  <2>3. /\ prev(i).iv = iv /\ prev(i).ps = SubSeq(ps, 1, i - 1)
        /\ prev(i).k = IF i = 1 THEN PinProtocol!NoKey ELSE k
    <3>1. CASE i = 1
      BY <1>3, <1>4, <3>1
    <3>2. CASE i # 1
      <4>1. i - 1 \in 1 .. n
        BY <1>2, <3>2
      <4> QED  BY <1>4, <3>2, <4>1
    <3> QED  BY <3>1, <3>2
  <2> HIDE DEF prev
  <2>4. PinProtocol!Follows(c[i], prev(i))
    <3>1. c[i].iv = iv /\ c[i].k = k /\ Len(c[i].ps) = i
      BY <1>4
    <3> QED  BY <2>1, <2>3, <3>1 DEF PinProtocol!Follows
  <2>5. c[i].k = k /\ c[i].ps # <<>>
    BY <1>4
  <2> QED  BY <2>2, <2>4, <2>5 DEF PinProtocol!Plain
<1>6. \A i \in 1 .. n : c[i] # PinProtocol!Stub
  <2>1. PinProtocol!Stub.ps = <<>>
    BY DEF PinProtocol!Stub, PinProtocol!Iv
  <2> QED  BY <1>4, <2>1
<1>7. PinProtocol!aes256_cbc_decrypt(k, IV, c)
        = PinProtocol!Joined([i \in DOMAIN c |-> PinProtocol!Plain(k, prev(i), c[i])])
  BY <1>2, <1>6 DEF PinProtocol!aes256_cbc_decrypt
<1>8. [i \in DOMAIN c |-> PinProtocol!Plain(k, prev(i), c[i])] = ps
  <2>1. ps = [i \in 1 .. n |-> ps[i]]
    BY <1>1
  <2>2. [i \in DOMAIN c |-> PinProtocol!Plain(k, prev(i), c[i])] = [i \in 1 .. n |-> ps[i]]
    BY <1>2, <1>5
  <2> QED  BY <2>1, <2>2
<1> QED  BY <1>1, <1>7, <1>8 DEF c, IV

LEMMA HeadTail ==
  ASSUME NEW S, NEW s \in Seq(S), NEW x
  PROVE  LET q == <<x>> \o s IN
         /\ q \in Seq(S \cup {x}) /\ Len(q) = Len(s) + 1 /\ q # <<>>
         /\ q[1] = x /\ (\A i \in 1 .. Len(s) : q[i + 1] = s[i])
         /\ Head(q) = x /\ Tail(q) = s
<1> DEFINE q == <<x>> \o s
           T == S \cup {x}
<1>1. <<x>> \in Seq(T) /\ s \in Seq(T) /\ Len(<<x>>) = 1 /\ <<x>>[1] = x /\ Len(s) \in Nat
  OBVIOUS
<1>2. q \in Seq(T) /\ Len(q) = Len(s) + 1 /\ q[1] = x /\ \A i \in 1 .. Len(s) : q[i + 1] = s[i]
  BY <1>1
<1> HIDE DEF q
<1>3. q # <<>> /\ Head(q) = x
  BY <1>1, <1>2
<1>4. Tail(q) = s
  <2>1. Tail(q) \in Seq(T) /\ Len(Tail(q)) = Len(s) /\ \A i \in 1 .. Len(s) : Tail(q)[i] = q[i + 1]
    BY <1>1, <1>2, <1>3
  <2> QED  BY <1>1, <1>2, <2>1, SameSeq
<1> QED  BY <1>2, <1>3, <1>4 DEF q

\* The blocks of a message encrypted under a secret of version v.
CipherOf(v, s, nonce, data) ==
  PinProtocol!aes256_cbc_encrypt(s[v], PinProtocol!Iv(IF v = 1 THEN 0 ELSE nonce), data)

EncryptedAs(v, nonce, n, e, c) ==
  /\ v = 1 => e = c
  /\ v = 2 => e = <<PinProtocol!Iv(nonce)>> \o c
  /\ \E S : c \in Seq(S) /\ e \in Seq(S)
  /\ Len(e) = n + v - 1 /\ n \in Nat

LEMMA EncryptIs ==
  ASSUME PinProtocol!ConstantsOK, NEW v \in {1, 2}, NEW s, Len(s) = v, NEW nonce \in Nat,
         NEW data \in Seq(Nat), Len(data) % BlockLen = 0
  PROVE  EncryptedAs(v, nonce, Len(data) \div BlockLen,
                     PinProtocol!encrypt(v, s, nonce, data), CipherOf(v, s, nonce, data))
<1> DEFINE e == PinProtocol!encrypt(v, s, nonce, data)
           c == CipherOf(v, s, nonce, data)
           n == Len(data) \div BlockLen
           S == {c[i] : i \in 1 .. n}
<1>1. n \in Nat /\ c \in Seq(S) /\ Len(c) = n
  <2> DEFINE iv == IF v = 1 THEN 0 ELSE nonce
  <2>1. ChainOf(c, s[v], iv, PinProtocol!Blocks(data), n)
    BY CipherIs DEF CipherOf
  <2> HIDE DEF c, n, iv
  <2> QED  BY <2>1 DEF ChainOf
<1>2. v = 1 => e = c
  BY DEF PinProtocol!encrypt, CipherOf
<1>3. v = 2 => e = <<PinProtocol!Iv(nonce)>> \o c
  BY DEF PinProtocol!encrypt, CipherOf
<1> HIDE DEF e, c, S, n
<1> DEFINE x == PinProtocol!Iv(nonce)
           T == S \cup {x}
<1>4. v = 2 => e \in Seq(T) /\ Len(e) = n + 1
  <2> HIDE DEF x
  <2>1. LET q == <<x>> \o c IN q \in Seq(S \cup {x}) /\ Len(q) = Len(c) + 1
    BY <1>1, HeadTail
  <2> QED  BY <1>1, <1>3, <2>1 DEF x
<1>5. c \in Seq(T)
  BY <1>1
<1>6. e \in Seq(T) /\ Len(e) = n + v - 1
  BY <1>1, <1>2, <1>4, <1>5
<1>7. \E X : c \in Seq(X) /\ e \in Seq(X)
  BY <1>5, <1>6
<1>8. EncryptedAs(v, nonce, n, e, c)
  BY <1>1, <1>2, <1>3, <1>6, <1>7 DEF EncryptedAs
<1> QED  BY <1>8 DEF e, c, n

\* What was encrypted is decrypted under the same secret.
RoundTripOK(v, s, nonce, data) ==
  PinProtocol!decrypt(v, s, PinProtocol!encrypt(v, s, nonce, data)) = data

LEMMA RoundTrip ==
  ASSUME PinProtocol!ConstantsOK, NEW v \in {1, 2}, NEW s, Len(s) = v, NEW nonce \in Nat,
         NEW data \in Seq(Nat), Len(data) % BlockLen = 0
  PROVE  RoundTripOK(v, s, nonce, data)
<1> DEFINE e == PinProtocol!encrypt(v, s, nonce, data)
           c == CipherOf(v, s, nonce, data)
<1>1. /\ v = 1 => e = c
      /\ v = 2 => e = <<PinProtocol!Iv(nonce)>> \o c
      /\ \E S : c \in Seq(S) /\ e \in Seq(S)
  <2>1. EncryptedAs(v, nonce, Len(data) \div BlockLen, e, c)
    BY EncryptIs
  <2> HIDE DEF e, c
  <2> QED  BY <2>1 DEF EncryptedAs
<1>2. PinProtocol!aes256_cbc_decrypt(s[v], PinProtocol!Iv(IF v = 1 THEN 0 ELSE nonce), c) = data
  <2> DEFINE iv == IF v = 1 THEN 0 ELSE nonce
  <2>1. iv \in Nat
    OBVIOUS
  <2> HIDE DEF iv
  <2>2. PinProtocol!aes256_cbc_decrypt(s[v], PinProtocol!Iv(iv),
          PinProtocol!aes256_cbc_encrypt(s[v], PinProtocol!Iv(iv), data)) = data
    BY <2>1, CbcRoundTrip
  <2> QED  BY <2>2 DEF iv, CipherOf
<1> HIDE DEF e, c
<1>3. CASE v = 1
  BY <1>1, <1>2, <1>3 DEF PinProtocol!decrypt, e, RoundTripOK
<1>4. CASE v = 2
  <2> DEFINE x == PinProtocol!Iv(nonce)
  <2>1. PICK S : c \in Seq(S)
    BY <1>1
  <2>2. x # PinProtocol!Stub
    <3>1. x.iv = nonce /\ PinProtocol!Stub.iv = -1
      BY DEF PinProtocol!Iv, PinProtocol!Stub
    <3> HIDE DEF x
    <3> QED  BY <3>1
  <2> HIDE DEF x
  <2>3. LET q == <<x>> \o c IN q # <<>> /\ Head(q) = x /\ Tail(q) = c
    BY <2>1, HeadTail
  <2>4. e # <<>> /\ Head(e) = x /\ Tail(e) = c
    BY <1>1, <1>4, <2>3 DEF x
  <2>5. PinProtocol!aes256_cbc_decrypt(s[2], x, c) = data
    BY <1>2, <1>4 DEF x
  <2>6. PinProtocol!decrypt(2, s, e) = PinProtocol!aes256_cbc_decrypt(s[2], Head(e), Tail(e))
    <3>1. Len(s) = 2 /\ Head(e) # PinProtocol!Stub /\ e # <<>>
      BY <1>4, <2>2, <2>4
    <3> QED  BY <3>1 DEF PinProtocol!decrypt
  <2> QED  BY <1>4, <2>4, <2>5, <2>6 DEF e, RoundTripOK
<1> QED  BY <1>3, <1>4

LEMMA PadIs ==
  ASSUME PinProtocol!ConstantsOK, NEW p \in Pins
  PROVE  LET z == PinProtocol!zero_pad_to_64(p) IN
         /\ p \in Seq(Nat) /\ z \in Seq(Nat) /\ Len(z) = PadLen /\ Len(z) % BlockLen = 0
         /\ PinProtocol!strip_zero_padding(z) = p
<1> DEFINE z == PinProtocol!zero_pad_to_64(p)
           live == {i \in DOMAIN z : z[i] # 0}
           n == Len(p)
           max == CHOOSE i \in live : \A j \in live : j <= i
<1>1. /\ p \in Seq(Nat) /\ p # <<>> /\ Len(p) <= PadLen /\ p[Len(p)] # 0
      /\ PadLen \in Nat /\ PadLen % BlockLen = 0 /\ Absent \notin Seq(Nat)
  BY DEF PinProtocol!ConstantsOK
<1>2. n \in 1 .. PadLen /\ p[n] # 0 /\ n \in Nat
  BY <1>1
<1>3. z = [i \in 1..PadLen |-> IF i <= n THEN p[i] ELSE 0]
  BY DEF PinProtocol!zero_pad_to_64
<1>4. PinProtocol!strip_zero_padding(z) = IF live = {} THEN Absent ELSE SubSeq(z, 1, max)
  BY DEF PinProtocol!strip_zero_padding
<1> HIDE DEF z
<1>5. z \in [1 .. PadLen -> Nat]
  BY <1>1, <1>2, <1>3
<1>6. z \in Seq(Nat) /\ Len(z) = PadLen
  BY <1>1, <1>5
<1>7. n \in live /\ \A j \in live : j <= n
  BY <1>1, <1>2, <1>3
<1>8. max = n
  <2> DEFINE M(i) == i \in live /\ \A j \in live : j <= i
  <2>1. \A i \in live : i \in Int
    BY <1>5
  <2> HIDE DEF live
  <2>2. max \in live /\ \A j \in live : j <= max
    BY <1>7
  <2> QED  BY <1>7, <2>1, <2>2
<1>9. SubSeq(z, 1, n) = p
  <2> DEFINE a == SubSeq(z, 1, n)
  <2>1. a \in Seq(Nat) /\ Len(a) = n /\ \A j \in 1 .. n : a[j] = z[j]
    BY <1>2, <1>6
  <2>2. \A j \in 1 .. n : z[j] = p[j]
    <3>1. \A j \in 1 .. n : j \in 1 .. PadLen /\ j <= n
      BY <1>1, <1>2
    <3> HIDE DEF n
    <3> QED  BY <1>3, <3>1
  <2> HIDE DEF a
  <2>3. a = p
    BY <1>1, <2>1, <2>2, SameSeq
  <2> QED  BY <2>3 DEF a
<1> HIDE DEF live, max
<1> QED  BY <1>1, <1>4, <1>6, <1>7, <1>8, <1>9 DEF z

LEMMA TokenIs ==
  ASSUME PinProtocol!ConstantsOK, NEW n \in Nat
  PROVE  LET t == PinProtocol!Token(n) IN t \in Seq(Nat) /\ Len(t) % BlockLen = 0
<1> DEFINE t == PinProtocol!Token(n)
           B == BlockLen
<1>1. B \in Nat \ {0}
  BY DEF PinProtocol!ConstantsOK
<1>2. t = [i \in 1 .. 2 * B |-> 10 + n]
  BY DEF PinProtocol!Token
<1> HIDE DEF t, B
<1>3. 2 * B \in Nat /\ (2 * B) % B = 0
  BY <1>1
<1>4. t \in [1 .. 2 * B -> Nat]
  BY <1>2
<1>5. t \in Seq(Nat) /\ Len(t) = 2 * B
  BY <1>3, <1>4
<1> QED  BY <1>3, <1>5 DEF t, B

PinDeviceFields == {"key", "secret", "hash", "tries", "fails", "token"}
RequestFields == {"op", "version", "peer", "onCurve", "newPinEnc", "pinHashEnc", "pinAuth",
                  "heard", "secret", "old", "new", "spoiled"}

\* The secret of an agreement, with its version.
AgreedSecret(s, v) ==
  \E key \in 0 .. MaxKeys, n \in 0 .. MaxAsks : s = PinProtocol!kdf(v, <<key, n>>)
AgreedPair(p) == \E v \in {1, 2} : \E s : p = <<s, v>> /\ AgreedSecret(s, v)

\* What the platform put into a request: what it encrypted and its MAC.
MadeHash(m) ==
  IF m.op \in {"change", "token"}
  THEN PinProtocol!encrypt(Len(m.secret), m.secret, 2 * m.peer, PinProtocol!sha256(m.old)) ELSE <<>>
MadePin(m) ==
  IF m.op = "token" THEN <<>>
  ELSE PinProtocol!encrypt(Len(m.secret), m.secret, 2 * m.peer + 1,
         PinProtocol!zero_pad_to_64(IF m.op = "current" THEN m.old ELSE m.new))
MadeTag(m) ==
  IF m.op \in {"set", "change"}
  THEN PinProtocol!authenticate(Len(m.secret), m.secret, MadePin(m) \o MadeHash(m)) ELSE Absent

\* A request as the platform made it, and one changed on the way.
AllButLast(q) == SubSeq(q, 1, Len(q) - 1)
AsMade(m) ==
  /\ m.version = Len(m.secret) /\ m.onCurve /\ m.newPinEnc = MadePin(m)
  /\ m.pinHashEnc = MadeHash(m) /\ m.pinAuth = MadeTag(m)
AlteredKey(m) == ~m.onCurve
AlteredVersion(m) ==
  /\ m.version = 3 - Len(m.secret) /\ m.newPinEnc = MadePin(m)
  /\ m.pinHashEnc = MadeHash(m) /\ m.pinAuth = MadeTag(m)
AlteredHash(m) ==
  /\ m.version = Len(m.secret) /\ m.newPinEnc = MadePin(m) /\ m.pinAuth = MadeTag(m)
  /\ MadeHash(m) # <<>>
  /\ \E b \in {PinProtocol!Stub, PinProtocol!Iv(0)} : m.pinHashEnc = Append(MadeHash(m), b)
AlteredPin(m) ==
  /\ m.version = Len(m.secret) /\ m.pinHashEnc = MadeHash(m) /\ m.pinAuth = MadeTag(m)
  /\ MadePin(m) # <<>> /\ m.newPinEnc \in {AllButLast(MadePin(m)), Tail(MadePin(m))}
AlteredTag(m) ==
  /\ m.version = Len(m.secret) /\ m.newPinEnc = MadePin(m) /\ m.pinHashEnc = MadeHash(m)
  /\ m.op \in {"set", "change"} => m.pinAuth.len # MadeTag(m).len
Altered(m) ==
  AlteredKey(m) \/ AlteredVersion(m) \/ AlteredHash(m) \/ AlteredPin(m) \/ AlteredTag(m)

\* A request on its way: a is the number of requests made, k the keys announced.
RequestOK(m, a, k) ==
  /\ m = [f \in RequestFields |-> m[f]]
  /\ m.op \in PinProtocol!Ops /\ m.peer \in 1 .. a
  /\ IF m.op = "current" THEN \E v \in {1, 2} : AgreedSecret(m.secret, v)
     ELSE /\ m.heard \in 1 .. k
          /\ \E v \in {1, 2} : m.secret = PinProtocol!kdf(v, <<m.heard, m.peer>>)
  /\ m.op # "set" => m.old \in PinProtocol!ValidPins
  /\ m.op \in {"set", "change"} => m.new \in Pins
  /\ m.spoiled \in BOOLEAN
  /\ ~m.spoiled => AsMade(m)
  /\ m.spoiled => m.op # "current" /\ Altered(m)

KdfOK(v, z, s) ==
  /\ Len(s) = v /\ s[1].z = z /\ s[v].z = z
  /\ s[1].by = IF v = 1 THEN "SHA-256" ELSE "CTAP2 HMAC key"

LEMMA KdfIs ==
  ASSUME NEW v \in {1, 2}, NEW z
  PROVE  KdfOK(v, z, PinProtocol!kdf(v, z))
<1> DEFINE s == PinProtocol!kdf(v, z)
           r1 == [by |-> IF v = 1 THEN "SHA-256" ELSE "CTAP2 HMAC key", z |-> z]
           r2 == [by |-> "CTAP2 AES key", z |-> z]
<1>1. s = IF v = 1 THEN <<r1>> ELSE <<r1, r2>>
  <2>1. CASE v = 1
    BY <2>1, Zenon DEF PinProtocol!kdf
  <2>2. CASE v # 1
    BY <2>2, Zenon DEF PinProtocol!kdf, PinProtocol!hkdf_sha256
  <2> HIDE DEF s, r1, r2
  <2> QED  BY <2>1, <2>2, Zenon
<1>2. r1.z = z /\ r2.z = z /\ r1.by = IF v = 1 THEN "SHA-256" ELSE "CTAP2 HMAC key"
  BY Zenon
<1> HIDE DEF r1, r2, s
<1>3. v = 1 => Len(s) = 1 /\ s[1] = r1
  BY <1>1
<1>4. v = 2 => Len(s) = 2 /\ s[1] = r1 /\ s[2] = r2
  BY <1>1
<1>5. KdfOK(v, z, s)
  <2>1. Len(s) = v /\ s[1] = r1 /\ s[v] \in {r1, r2}
    BY <1>3, <1>4
  <2> QED  BY <1>2, <2>1, Zenon DEF KdfOK
<1> QED  BY <1>5 DEF s

LEMMA TwoSeqs ==
  ASSUME NEW S, NEW T, NEW a \in Seq(S), NEW b \in Seq(T)
  PROVE  Len(a \o b) = Len(a) + Len(b) /\ Len(a) \in Nat /\ Len(b) \in Nat
<1>1. a \in Seq(S \cup T) /\ b \in Seq(S \cup T)
  OBVIOUS
<1> QED  BY <1>1

LEMMA ValidPinIs ==
  ASSUME PinProtocol!ConstantsOK, NEW p \in PinProtocol!ValidPins
  PROVE  p \in Pins /\ p \in Seq(Nat) /\ Len(p) \in PIN_MIN_LENGTH .. PIN_MAX_LENGTH
<1> QED  BY DEF PinProtocol!ValidPins, PinProtocol!ConstantsOK

\* The secret of a request and its version.
LEMMA RequestSecret ==
  ASSUME NEW m, NEW a, NEW k, RequestOK(m, a, k)
  PROVE  /\ Len(m.secret) \in {1, 2}
         /\ m.op # "current" => /\ m.heard \in 1 .. k
                                /\ m.secret = PinProtocol!kdf(Len(m.secret), <<m.heard, m.peer>>)
<1>1. CASE m.op = "current"
  <2>1. PICK v \in {1, 2} : AgreedSecret(m.secret, v)
    BY <1>1 DEF RequestOK
  <2>2. PICK z : m.secret = PinProtocol!kdf(v, z)
    BY <2>1 DEF AgreedSecret
  <2>3. Len(m.secret) = v
    <3>1. KdfOK(v, z, m.secret)
      BY <2>2, KdfIs, Zenon
    <3> QED  BY <3>1, Zenon DEF KdfOK
  <2> QED  BY <1>1, <2>3
<1>2. CASE m.op # "current"
  <2>1. PICK v \in {1, 2} : m.secret = PinProtocol!kdf(v, <<m.heard, m.peer>>)
    BY <1>2 DEF RequestOK
  <2>2. Len(m.secret) = v
    <3>1. KdfOK(v, <<m.heard, m.peer>>, m.secret)
      BY <2>1, KdfIs, Zenon
    <3> QED  BY <3>1, Zenon DEF KdfOK
  <2> QED  BY <1>2, <2>1, <2>2 DEF RequestOK
<1> QED  BY <1>1, <1>2

\* The hash it carries is one block, with the IV of version two before it.
LEMMA MadeHashIs ==
  ASSUME PinProtocol!ConstantsOK, NEW m, NEW a \in Nat, NEW k, RequestOK(m, a, k),
         m.op \in {"change", "token"}
  PROVE  LET v == Len(m.secret)
             h == PinProtocol!sha256(m.old)
         IN  /\ MadeHash(m) = PinProtocol!encrypt(v, m.secret, 2 * m.peer, h)
             /\ EncryptedAs(v, 2 * m.peer, 1, MadeHash(m), CipherOf(v, m.secret, 2 * m.peer, h))
             /\ h \in Seq(Nat) /\ Len(h) = BlockLen /\ Len(h) % BlockLen = 0 /\ 2 * m.peer \in Nat
             /\ v \in {1, 2}
             /\ DOMAIN CipherOf(v, m.secret, 2 * m.peer, h) = 1 .. 1
             /\ CipherOf(v, m.secret, 2 * m.peer, h)[1].k = m.secret[v]
<1> DEFINE v == Len(m.secret)
           h == PinProtocol!sha256(m.old)
           n == 2 * m.peer
           iv == IF v = 1 THEN 0 ELSE n
<1>1. v \in {1, 2} /\ m.old \in PinProtocol!ValidPins /\ n \in Nat
  <2>1. v \in {1, 2}
    BY RequestSecret
  <2>2. m.peer \in 1 .. a /\ m.old \in PinProtocol!ValidPins
    BY Zenon DEF RequestOK
  <2> QED  BY <2>1, <2>2
<1>2. h \in Seq(Nat) /\ Len(h) = BlockLen
  <2>1. m.old \in Seq(Nat)
    BY <1>1, ValidPinIs
  <2> QED  BY <2>1, HashIs
<1>3. BlockLen \in Nat \ {0} /\ BlockLen % BlockLen = 0 /\ BlockLen \div BlockLen = 1
  <2>1. BlockLen \in Nat \ {0}
    BY DEF PinProtocol!ConstantsOK
  <2> QED  BY <2>1
<1>4. MadeHash(m) = PinProtocol!encrypt(v, m.secret, n, h)
  BY DEF MadeHash
<1> HIDE DEF h, n, v
<1>5. EncryptedAs(v, n, 1, PinProtocol!encrypt(v, m.secret, n, h), CipherOf(v, m.secret, n, h))
  <2>1. EncryptedAs(v, n, Len(h) \div BlockLen, PinProtocol!encrypt(v, m.secret, n, h),
                    CipherOf(v, m.secret, n, h))
    BY <1>1, <1>2, <1>3, EncryptIs DEF v
  <2> QED  BY <1>2, <1>3, <2>1
<1> DEFINE c == CipherOf(v, m.secret, n, h)
<1>6. ChainOf(c, m.secret[v], iv, PinProtocol!Blocks(h), Len(h) \div BlockLen)
  <2> HIDE DEF iv
  <2>1. c = PinProtocol!aes256_cbc_encrypt(m.secret[v], PinProtocol!Iv(iv), h)
    BY DEF CipherOf, iv
  <2> QED  BY <1>2, <1>3, <2>1, CipherIs
<1>7. DOMAIN c = 1 .. 1 /\ c[1].k = m.secret[v]
  <2>1. Len(h) \div BlockLen = 1
    BY <1>2, <1>3
  <2> DEFINE ps == PinProtocol!Blocks(h)
  <2> HIDE DEF c, iv, ps
  <2>2. ChainOf(c, m.secret[v], iv, ps, 1)
    BY <1>6, <2>1 DEF ps
  <2>3. DOMAIN c = 1 .. 1 /\ c[1] = [k |-> m.secret[v], iv |-> iv, ps |-> SubSeq(ps, 1, 1)]
    BY <2>2 DEF ChainOf
  <2> QED  BY <2>3
<1> QED  BY <1>1, <1>2, <1>3, <1>4, <1>5, <1>7 DEF h, n, v

\* The PIN it carries fills the pad.
LEMMA MadePinIs ==
  ASSUME PinProtocol!ConstantsOK, NEW m, NEW a \in Nat, NEW k, RequestOK(m, a, k), m.op # "token"
  PROVE  LET v == Len(m.secret)
             p == IF m.op = "current" THEN m.old ELSE m.new
             z == PinProtocol!zero_pad_to_64(p)
         IN  /\ p \in Pins /\ 2 * m.peer + 1 \in Nat /\ v \in {1, 2}
             /\ MadePin(m) = PinProtocol!encrypt(v, m.secret, 2 * m.peer + 1, z)
             /\ \E S : MadePin(m) \in Seq(S)
<1> DEFINE v == Len(m.secret)
           p == IF m.op = "current" THEN m.old ELSE m.new
           z == PinProtocol!zero_pad_to_64(p)
           n == 2 * m.peer + 1
<1>1. v \in {1, 2} /\ n \in Nat
  <2>1. v \in {1, 2}
    BY RequestSecret
  <2>2. m.peer \in 1 .. a
    BY Zenon DEF RequestOK
  <2> QED  BY <2>1, <2>2
<1>2. p \in Pins
  <2>1. CASE m.op = "current"
    BY <2>1, ValidPinIs DEF RequestOK
  <2>2. CASE m.op # "current"
    BY <2>2 DEF RequestOK, PinProtocol!Ops
  <2> QED  BY <2>1, <2>2
<1>3. MadePin(m) = PinProtocol!encrypt(v, m.secret, n, z)
  BY DEF MadePin
<1> HIDE DEF p, n, v
<1>4. z \in Seq(Nat) /\ Len(z) % BlockLen = 0
  BY <1>2, PadIs
<1> HIDE DEF z
<1>5. EncryptedAs(v, n, Len(z) \div BlockLen, MadePin(m), CipherOf(v, m.secret, n, z))
  BY <1>1, <1>3, <1>4, EncryptIs DEF v
<1>6. \E S : MadePin(m) \in Seq(S)
  BY <1>5 DEF EncryptedAs
<1> QED  BY <1>1, <1>2, <1>3, <1>6 DEF p, n, v, z

\* A secret is that of one version, key and request.
LEMMA SameSecret ==
  ASSUME NEW v \in {1, 2}, NEW w \in {1, 2}, NEW x, NEW y, NEW n
  PROVE  /\ PinProtocol!kdf(v, <<x, n>>)[1] = PinProtocol!kdf(w, <<y, n>>)[1] => v = w /\ x = y
         /\ PinProtocol!kdf(v, <<x, n>>)[v] = PinProtocol!kdf(v, <<y, n>>)[v] => x = y
<1> DEFINE s == PinProtocol!kdf(v, <<x, n>>)
           t == PinProtocol!kdf(w, <<y, n>>)
           u == PinProtocol!kdf(v, <<y, n>>)
<1>1. KdfOK(v, <<x, n>>, s) /\ KdfOK(w, <<y, n>>, t) /\ KdfOK(v, <<y, n>>, u)
  BY KdfIs
<1> HIDE DEF s, t, u
<1>2. <<x, n>> = <<y, n>> => x = y
  OBVIOUS
<1>3. s[1] = t[1] => x = y
  BY <1>1, <1>2, Zenon DEF KdfOK
<1>4. s[v] = u[v] => x = y
  BY <1>1, <1>2, Zenon DEF KdfOK
<1>5. s[1] = t[1] => v = w
  <2>1. /\ s[1].by = IF v = 1 THEN "SHA-256" ELSE "CTAP2 HMAC key"
        /\ t[1].by = IF w = 1 THEN "SHA-256" ELSE "CTAP2 HMAC key"
    BY <1>1, Zenon DEF KdfOK
  <2>2. s[1] = t[1] => (v = 1 <=> w = 1)
    <3>1. "SHA-256" # "CTAP2 HMAC key"
      OBVIOUS
    <3> QED  BY <2>1, <3>1, Zenon
  <2> QED  BY <2>2
<1> QED  BY <1>3, <1>4, <1>5 DEF s, t, u

\* What a request's PIN lost on the way is missing.
LEMMA ShorterIs ==
  ASSUME NEW S, NEW q \in Seq(S), q # <<>>, NEW d \in {AllButLast(q), Tail(q)}
  PROVE  d \in Seq(S) /\ Len(d) = Len(q) - 1
<1>1. Len(q) \in Nat /\ Len(q) # 0
  OBVIOUS
<1>2. AllButLast(q) = SubSeq(q, 1, Len(q) - 1)
  BY DEF AllButLast
<1>3. CASE d = Tail(q)
  BY <1>1, <1>3
<1>4. CASE d = SubSeq(q, 1, Len(q) - 1)
  <2> DEFINE n == Len(q) - 1
  <2>1. n \in Nat /\ n <= Len(q)
    BY <1>1
  <2>2. d = SubSeq(q, 1, n)
    BY <1>4
  <2> HIDE DEF n
  <2>3. d \in Seq(S) /\ Len(d) = n
    BY <1>1, <2>1, <2>2
  <2> QED  BY <2>3 DEF n
<1> QED  BY <1>2, <1>3, <1>4

\* The message of a set or change that its MAC covers.
Covered(m) == IF m.op = "set" THEN m.newPinEnc ELSE m.newPinEnc \o m.pinHashEnc

\* A verified set or change is as the platform made it, for this key.
LEMMA MacTells ==
  ASSUME PinProtocol!ConstantsOK, NEW m, NEW a \in Nat, NEW k, RequestOK(m, a, k),
         m.op \in {"set", "change"}, m.onCurve, NEW key, NEW secret,
         secret = PinProtocol!kdf(m.version, <<key, m.peer>>),
         PinProtocol!verify(m.version, secret, Covered(m), m.pinAuth)
  PROVE  ~m.spoiled /\ AsMade(m) /\ m.heard = key /\ secret = m.secret
<1> DEFINE v == Len(m.secret)
           tag == m.pinAuth
           made1 == MadePin(m) \o MadeHash(m)
<1>1. v \in {1, 2} /\ m.secret = PinProtocol!kdf(v, <<m.heard, m.peer>>)
  BY RequestSecret
<1>2. tag.k = secret[1] /\ tag.message = Covered(m) /\ tag.len = IF m.version = 1 THEN 16 ELSE 32
  BY DEF PinProtocol!verify, PinProtocol!authenticate
<1>3. /\ MadeTag(m).k = m.secret[1] /\ MadeTag(m).message = made1
      /\ MadeTag(m).len = IF v = 1 THEN 16 ELSE 32
  BY DEF MadeTag, PinProtocol!authenticate
<1>4. (~m.spoiled => AsMade(m)) /\ (m.spoiled => Altered(m)) /\ m.spoiled \in BOOLEAN
  BY Zenon DEF RequestOK
<1>5. m.version \in {1, 2}
  <2>1. m.version = v \/ m.version = 3 - v
    <3> HIDE DEF v
    <3>1. Altered(m) => m.version = v \/ m.version = 3 - v
      BY DEF Altered, AlteredKey, AlteredVersion, AlteredHash, AlteredPin, AlteredTag, v
    <3>2. AsMade(m) => m.version = v
      BY DEF AsMade, v
    <3> QED  BY <1>4, <3>1, <3>2
  <2> HIDE DEF v
  <2> QED  BY <1>1, <2>1
<1>6. PICK S : MadePin(m) \in Seq(S)
  BY MadePinIs
<1>7. PICK T : MadeHash(m) \in Seq(T)
  <2>1. CASE m.op = "set"
    BY <2>1 DEF MadeHash
  <2>2. CASE m.op = "change"
    <3>1. EncryptedAs(v, 2 * m.peer, 1, MadeHash(m),
                      CipherOf(v, m.secret, 2 * m.peer, PinProtocol!sha256(m.old)))
      BY <2>2, MadeHashIs
    <3> QED  BY <3>1 DEF EncryptedAs
  <2> QED  BY <2>1, <2>2
<1>8. m.op = "set" => MadeHash(m) = <<>>
  BY DEF MadeHash
<1> HIDE DEF v, tag
<1>9. Len(made1) = Len(MadePin(m)) + Len(MadeHash(m)) /\ Len(MadePin(m)) \in Nat /\ Len(MadeHash(m)) \in Nat
  BY <1>6, <1>7, TwoSeqs, Zenon
<1> HIDE DEF made1
<1>10. ASSUME tag = MadeTag(m) PROVE m.version = v /\ m.heard = key /\ Len(Covered(m)) = Len(made1)
  <2>1. secret[1] = m.secret[1] /\ Covered(m) = made1
    BY <1>2, <1>3, <1>10
  <2>2. m.version = v /\ m.heard = key
    BY <1>1, <1>5, <2>1, SameSecret
  <2> QED  BY <2>1, <2>2
<1>11. ~AlteredKey(m)
  BY DEF AlteredKey
<1>12. ~AlteredVersion(m)
  <2> SUFFICES ASSUME AlteredVersion(m) PROVE FALSE
    OBVIOUS
  <2>1. m.version = 3 - v /\ tag = MadeTag(m)
    BY DEF AlteredVersion, v, tag
  <2> QED  BY <1>1, <1>10, <2>1
<1>13. ~AlteredHash(m)
  <2> SUFFICES ASSUME AlteredHash(m) PROVE FALSE
    OBVIOUS
  <2>1. tag = MadeTag(m) /\ MadeHash(m) # <<>> /\ m.newPinEnc = MadePin(m)
    BY DEF AlteredHash, tag
  <2>2. PICK b : m.pinHashEnc = Append(MadeHash(m), b)
    BY DEF AlteredHash
  <2>3. m.op # "set"
    BY <1>8, <2>1
  <2> DEFINE h == Append(MadeHash(m), b)
  <2>4. h \in Seq(T \cup {b}) /\ Len(h) = Len(MadeHash(m)) + 1
    BY <1>7
  <2> HIDE DEF h
  <2>5. Len(MadePin(m) \o h) = Len(MadePin(m)) + Len(h)
    <3>1. \E U : h \in Seq(U)
      BY <2>4, Zenon
    <3> QED  BY ONLY <1>6, <3>1, TwoSeqs, Zenon
  <2>6. Covered(m) = MadePin(m) \o h
    BY <2>1, <2>2, <2>3 DEF Covered, h
  <2> QED  BY <1>9, <1>10, <2>1, <2>4, <2>5, <2>6
<1>14. ~AlteredPin(m)
  <2> SUFFICES ASSUME AlteredPin(m) PROVE FALSE
    OBVIOUS
  <2>1. tag = MadeTag(m) /\ MadePin(m) # <<>> /\ m.pinHashEnc = MadeHash(m)
    BY DEF AlteredPin, tag
  <2>2. m.newPinEnc \in Seq(S) /\ Len(m.newPinEnc) = Len(MadePin(m)) - 1
    BY <1>6, <2>1, ShorterIs DEF AlteredPin
  <2>3. Len(m.newPinEnc \o MadeHash(m)) = Len(m.newPinEnc) + Len(MadeHash(m))
    BY ONLY <1>7, <2>2, TwoSeqs, Zenon
  <2>4. CASE m.op = "set"
    <3>1. Covered(m) = m.newPinEnc /\ Len(MadeHash(m)) = 0
      BY <1>8, <2>4 DEF Covered
    <3> QED  BY <1>9, <1>10, <2>1, <2>2, <3>1
  <2>5. CASE m.op # "set"
    <3>1. Covered(m) = m.newPinEnc \o MadeHash(m)
      BY <2>1, <2>5 DEF Covered
    <3> QED  BY <1>9, <1>10, <2>1, <2>2, <2>3, <3>1
  <2> QED  BY <2>4, <2>5
<1>15. ~AlteredTag(m)
  <2> SUFFICES ASSUME AlteredTag(m) PROVE FALSE
    OBVIOUS
  <2>1. m.version = v /\ tag.len # MadeTag(m).len
    BY DEF AlteredTag, v, tag
  <2> QED  BY <1>2, <1>3, <2>1
<1>16. ~m.spoiled /\ AsMade(m)
  BY <1>4, <1>11, <1>12, <1>13, <1>14, <1>15 DEF Altered
<1>17. m.version = v /\ m.heard = key
  <2>1. tag = MadeTag(m)
    BY <1>16 DEF AsMade, tag
  <2> QED  BY <1>10, <2>1
<1> QED  BY <1>1, <1>16, <1>17

\* A ciphertext whose first block is not decrypted begins with noise.
LEMMA FirstNoise ==
  ASSUME PinProtocol!ConstantsOK, NEW ct, NEW N \in Nat \ {0}, DOMAIN ct = 1 .. N, NEW k, NEW iv,
         PinProtocol!Plain(k, iv, ct[1]) = PinProtocol!Noise,
         NEW plain, plain = PinProtocol!aes256_cbc_decrypt(k, iv, ct), plain # Absent
  PROVE  SubSeq(plain, 1, BlockLen)[1] = 9
<1> DEFINE B == BlockLen
           prev(i) == IF i = 1 THEN iv ELSE ct[i - 1]
           bs == [i \in DOMAIN ct |-> PinProtocol!Plain(k, prev(i), ct[i])]
<1>1. B \in Nat \ {0}
  BY DEF PinProtocol!ConstantsOK
<1>2. plain = PinProtocol!Joined(bs)
  BY DEF PinProtocol!aes256_cbc_decrypt
<1>3. bs[1] = PinProtocol!Noise /\ DOMAIN bs = 1 .. N
  OBVIOUS
<1> HIDE DEF bs
<1>4. Len(bs) = N
  BY <1>3
<1>5. plain = [j \in 1 .. N * B |-> bs[((j - 1) \div B) + 1][((j - 1) % B) + 1]]
  BY <1>2, <1>4 DEF PinProtocol!Joined
<1> HIDE DEF B
<1>6. N * B \in Nat \ {0} /\ B <= N * B /\ (1 - 1) \div B = 0 /\ (1 - 1) % B = 0
  BY <1>1
<1>7. plain[1] = bs[1][1]
  <2>1. 1 \in 1 .. N * B
    BY <1>6
  <2>2. plain[1] = bs[((1 - 1) \div B) + 1][((1 - 1) % B) + 1]
    BY <1>5, <2>1
  <2> QED  BY <1>6, <2>2
<1>8. bs[1][1] = 9
  BY <1>1, <1>3 DEF PinProtocol!Noise, B
<1> DEFINE n == N * B
           S == {plain[j] : j \in 1 .. n}
<1>9. DOMAIN plain = 1 .. n /\ plain = [j \in 1 .. n |-> plain[j]]
  BY <1>5
<1>10. plain \in Seq(S) /\ Len(plain) = n
  <2>1. plain \in [1 .. n -> S]
    BY <1>9
  <2> HIDE DEF n, S
  <2> QED  BY <1>6, <2>1 DEF n
<1> HIDE DEF n, S
<1>11. SubSeq(plain, 1, B)[1] = plain[1]
  BY <1>1, <1>6, <1>10 DEF n
<1> QED  BY <1>7, <1>8, <1>11 DEF B

\* A block that a key does not decrypt, and what is read when it is the first after the IV.
Unread(key, c) == \A x : PinProtocol!Plain(key, x, c) = PinProtocol!Noise

LEMMA ReadsNoise ==
  ASSUME PinProtocol!ConstantsOK, NEW w \in {1, 2}, NEW secret, NEW T, NEW ct \in Seq(T), w <= Len(ct),
         Unread(secret[w], ct[w]),
         NEW plain, plain = PinProtocol!decrypt(w, secret, ct), plain # Absent
  PROVE  SubSeq(plain, 1, BlockLen)[1] = 9
<1>1. CASE w = 1
  <2> DEFINE x == PinProtocol!Iv(0)
             k == secret[1]
             N == Len(ct)
  <2>1. plain = PinProtocol!aes256_cbc_decrypt(k, x, ct)
    BY <1>1 DEF PinProtocol!decrypt
  <2>2. PinProtocol!Plain(k, x, ct[1]) = PinProtocol!Noise
    BY <1>1 DEF Unread
  <2>3. N \in Nat \ {0} /\ DOMAIN ct = 1 .. N
    BY <1>1
  <2> HIDE DEF x, k, N
  <2> QED  BY <2>1, <2>2, <2>3, FirstNoise
<1>2. CASE w = 2
  <2> DEFINE d == Tail(ct)
             x == Head(ct)
             k == secret[2]
             N == Len(d)
  <2>1. plain = PinProtocol!aes256_cbc_decrypt(k, x, d)
    BY <1>2 DEF PinProtocol!decrypt
  <2>2. d \in Seq(T) /\ Len(d) = Len(ct) - 1 /\ d[1] = ct[2]
    BY <1>2
  <2>3. PinProtocol!Plain(k, x, d[1]) = PinProtocol!Noise
    BY <1>2, <2>2 DEF Unread
  <2> HIDE DEF d, x, k
  <2>4. N \in Nat \ {0} /\ DOMAIN d = 1 .. N
    BY <1>2, <2>2
  <2> HIDE DEF N
  <2> QED  BY <2>1, <2>3, <2>4, FirstNoise
<1> QED  BY <1>1, <1>2

\* Version two takes an only block for the IV.
LEMMA ReadsNothing ==
  ASSUME PinProtocol!ConstantsOK, NEW secret, NEW T, NEW ct \in Seq(T), Len(ct) = 1,
         NEW plain, plain = PinProtocol!decrypt(2, secret, ct), plain # Absent
  PROVE  Len(plain) = 0
<1> DEFINE d == Tail(ct)
           x == Head(ct)
           k == secret[2]
           bs == [i \in DOMAIN d |-> PinProtocol!Plain(k, IF i = 1 THEN x ELSE d[i - 1], d[i])]
<1>1. plain = PinProtocol!aes256_cbc_decrypt(k, x, d)
  BY DEF PinProtocol!decrypt
<1>2. d \in Seq(T) /\ Len(d) = 0
  OBVIOUS
<1> HIDE DEF d, x, k
<1>3. plain = PinProtocol!Joined(bs)
  BY <1>1 DEF PinProtocol!aes256_cbc_decrypt
<1>4. DOMAIN bs = 1 .. 0
  BY <1>2
<1> HIDE DEF bs
<1>5. Len(bs) = 0
  BY <1>4
<1>6. plain = [j \in 1 .. 0 * BlockLen |-> bs[((j - 1) \div BlockLen) + 1][((j - 1) % BlockLen) + 1]]
  BY <1>3, <1>5 DEF PinProtocol!Joined
<1>7. DOMAIN plain = 1 .. 0
  <2>1. 0 * BlockLen = 0
    BY DEF PinProtocol!ConstantsOK
  <2> QED  BY <1>6, <2>1
<1> QED  BY <1>7

\* The hash of a PIN is decrypted only under the secret it was encrypted under.
LEMMA HashTells ==
  ASSUME PinProtocol!ConstantsOK, NEW m, NEW a \in Nat, NEW k, RequestOK(m, a, k),
         m.op = "token", m.onCurve, NEW key, NEW secret,
         secret = PinProtocol!kdf(m.version, <<key, m.peer>>),
         NEW p \in Seq(Nat), PinProtocol!decrypt_pin_hash(m, secret) = PinProtocol!sha256(p)
  PROVE  m.version = Len(m.secret) /\ m.heard = key /\ secret = m.secret
<1> DEFINE v == Len(m.secret)
           ct == m.pinHashEnc
           n == 2 * m.peer
           e == MadeHash(m)
           c == CipherOf(v, m.secret, n, PinProtocol!sha256(m.old))
           plain == PinProtocol!decrypt(m.version, secret, ct)
           iv == PinProtocol!Iv(n)
<1>1. v \in {1, 2} /\ m.secret = PinProtocol!kdf(v, <<m.heard, m.peer>>)
  BY RequestSecret
<1>2. /\ EncryptedAs(v, n, 1, e, c) /\ n \in Nat
      /\ DOMAIN c = 1 .. 1 /\ c[1].k = m.secret[v]
  BY MadeHashIs
<1>3. (~m.spoiled => AsMade(m)) /\ (m.spoiled => Altered(m)) /\ m.spoiled \in BOOLEAN
  BY Zenon DEF RequestOK
<1>4. BlockLen \in Nat \ {0} /\ Absent \notin Seq(Nat)
  BY DEF PinProtocol!ConstantsOK
<1>5. plain # Absent /\ ~(Len(plain) < BlockLen) /\ SubSeq(plain, 1, BlockLen)[1] # 9
  <2> DEFINE h == PinProtocol!sha256(p)
  <2>1. h # Absent /\ h[1] # 9
    BY HashIs
  <2>2. h = IF plain = Absent \/ Len(plain) < BlockLen THEN Absent ELSE SubSeq(plain, 1, BlockLen)
    BY DEF PinProtocol!decrypt_pin_hash, PinProtocol!decrypt_exact
  <2> HIDE DEF h, plain
  <2> QED  BY <2>1, <2>2
<1>6. \/ m.version = 3 - v /\ ct = e
      \/ m.version = v /\ (ct = e \/ \E b : ct = Append(e, b))
  <2>1. ~AlteredKey(m)
    BY DEF AlteredKey
  <2>2. AsMade(m) \/ AlteredPin(m) \/ AlteredTag(m) => m.version = v /\ ct = e
    BY DEF AsMade, AlteredPin, AlteredTag
  <2>3. AlteredVersion(m) => m.version = 3 - v /\ ct = e
    BY DEF AlteredVersion
  <2>4. AlteredHash(m) => m.version = v /\ \E b : ct = Append(e, b)
    BY DEF AlteredHash
  <2> HIDE DEF v, ct, e
  <2> QED  BY <1>3, <2>1, <2>2, <2>3, <2>4 DEF Altered
<1> HIDE DEF v, e, c, n
<1>7. /\ v = 1 => e = c
      /\ v = 2 => e = <<iv>> \o c
      /\ \E S : c \in Seq(S) /\ e \in Seq(S)
      /\ Len(e) = v
  BY <1>1, <1>2 DEF EncryptedAs
<1>8. PICK S : c \in Seq(S) /\ e \in Seq(S)
  BY <1>7
<1>9. v = 2 => e[1] = iv /\ e[2] = c[1]
  <2> SUFFICES ASSUME v = 2 PROVE e[1] = iv /\ e[2] = c[1]
    OBVIOUS
  <2> HIDE DEF iv
  <2>1. LET q == <<iv>> \o c IN q[1] = iv /\ \A i \in 1 .. Len(c) : q[i + 1] = c[i]
    BY <1>8, HeadTail
  <2>2. Len(c) = 1
    BY <1>2, <1>8
  <2>3. e[1 + 1] = c[1]
    BY <1>7, <2>1, <2>2
  <2> QED  BY <1>7, <2>1, <2>3
<1>10. CASE m.version = 3 - v /\ ct = e
  <2>1. CASE v = 1
    <3>1. m.version = 2 /\ Len(ct) = 1 /\ ct \in Seq(S)
      BY <1>7, <1>8, <1>10, <2>1
    <3>2. plain = PinProtocol!decrypt(2, secret, ct)
      BY <3>1
    <3> HIDE DEF plain, ct
    <3>3. Len(plain) = 0
      BY <1>5, <3>1, <3>2, ReadsNothing
    <3> QED  BY <1>4, <1>5, <3>3
  <2>2. CASE v = 2
    \* Version one takes the IV for a block.
    <3>1. m.version = 1 /\ ct[1] = iv /\ ct \in Seq(S) /\ 1 <= Len(ct)
      BY <1>7, <1>8, <1>9, <1>10, <2>2
    <3>2. plain = PinProtocol!decrypt(1, secret, ct)
      BY <3>1
    <3>3. iv.ps = <<>>
      BY DEF PinProtocol!Iv
    <3> HIDE DEF iv
    <3>4. \A x : PinProtocol!Plain(secret[1], x, iv) = PinProtocol!Noise
      BY <3>3 DEF PinProtocol!Plain
    <3> HIDE DEF plain, ct
    <3>5. Unread(secret[1], ct[1])
      BY <3>1, <3>4 DEF Unread
    <3> QED  BY <1>5, <3>1, <3>2, <3>5, ReadsNoise
  <2> QED  BY <1>1, <2>1, <2>2
<1>11. CASE m.version = v /\ (ct = e \/ \E b : ct = Append(e, b))
  <2> SUFFICES ASSUME m.heard # key PROVE FALSE
    BY <1>1, <1>11 DEF v
  <2>1. secret[v] # m.secret[v]
    BY <1>1, <1>11, SameSecret
  <2>2. \A x : PinProtocol!Plain(secret[v], x, c[1]) = PinProtocol!Noise
    BY <1>2, <2>1 DEF PinProtocol!Plain
  <2>3. PICK T : ct \in Seq(T) /\ Len(ct) \in {v, v + 1} /\ \A i \in 1 .. v : ct[i] = e[i]
    <3> HIDE DEF ct
    <3>1. CASE ct = e
      BY <1>7, <1>8, <3>1
    <3>2. CASE ct # e
      <4>1. PICK b : ct = Append(e, b)
        BY <1>11, <3>2
      <4>2. e \in Seq(S \cup {b})
        BY <1>8
      <4>3. ct \in Seq(S \cup {b}) /\ Len(ct) = v + 1 /\ \A i \in 1 .. v : ct[i] = e[i]
        BY <1>1, <1>7, <4>1, <4>2
      <4> QED  BY <4>3
    <3> QED  BY <3>1, <3>2
  <2>4. ct[v] = c[1] /\ v <= Len(ct)
    <3>1. e[v] = c[1]
      BY <1>1, <1>7, <1>9
    <3> HIDE DEF ct
    <3> QED  BY <1>1, <2>3, <3>1
  <2>5. plain = PinProtocol!decrypt(v, secret, ct)
    BY <1>11
  <2> HIDE DEF plain, ct
  <2>6. Unread(secret[v], ct[v])
    BY <2>2, <2>4 DEF Unread
  <2>7. ct \in Seq(T) /\ v \in {1, 2} /\ plain # Absent
    BY <1>1, <1>5, <2>3
  <2>8. SubSeq(plain, 1, BlockLen)[1] = 9
    BY <2>4, <2>5, <2>6, <2>7, ReadsNoise, Zenon
  <2> QED  BY <1>5, <2>8
<1> QED  BY <1>6, <1>10, <1>11

\* A request as the platform made it is read by the device that shares its secret.
LEMMA HashRead ==
  ASSUME PinProtocol!ConstantsOK, NEW m, NEW a \in Nat, NEW k, RequestOK(m, a, k), AsMade(m),
         m.op \in {"change", "token"}
  PROVE  PinProtocol!decrypt_pin_hash(m, m.secret) = PinProtocol!sha256(m.old)
<1> DEFINE v == Len(m.secret)
           h == PinProtocol!sha256(m.old)
           n == 2 * m.peer
<1>1. /\ m.version = v /\ m.pinHashEnc = PinProtocol!encrypt(v, m.secret, n, h) /\ v \in {1, 2}
      /\ h \in Seq(Nat) /\ Len(h) = BlockLen /\ Len(h) % BlockLen = 0 /\ n \in Nat
  BY MadeHashIs DEF AsMade
<1>2. BlockLen \in Nat \ {0} /\ Absent \notin Seq(Nat)
  BY DEF PinProtocol!ConstantsOK
<1>3. v = Len(m.secret)
  OBVIOUS
<1> DEFINE plain == PinProtocol!decrypt(m.version, m.secret, m.pinHashEnc)
<1>4. plain = PinProtocol!decrypt(v, m.secret, PinProtocol!encrypt(v, m.secret, n, h))
  BY <1>1
<1>5. PinProtocol!decrypt_pin_hash(m, m.secret) =
        IF plain = Absent \/ Len(plain) < BlockLen THEN Absent ELSE SubSeq(plain, 1, BlockLen)
  BY DEF PinProtocol!decrypt_pin_hash, PinProtocol!decrypt_exact
<1> HIDE DEF v, h, n, plain
<1>6. plain = h
  <2>1. v \in {1, 2} /\ Len(m.secret) = v /\ n \in Nat /\ h \in Seq(Nat) /\ Len(h) % BlockLen = 0
    BY <1>1, <1>3
  <2>2. RoundTripOK(v, m.secret, n, h)
    BY <2>1, RoundTrip
  <2> QED  BY <1>4, <2>2 DEF RoundTripOK
<1>7. SubSeq(h, 1, BlockLen) = h
  <2>1. Len(SubSeq(h, 1, BlockLen)) = BlockLen /\ SubSeq(h, 1, BlockLen) \in Seq(Nat)
    BY <1>1, <1>2
  <2>2. \A i \in 1 .. BlockLen : SubSeq(h, 1, BlockLen)[i] = h[i]
    BY <1>1, <1>2
  <2> QED  BY <1>1, <2>1, <2>2, SameSeq
<1>8. h # Absent /\ ~(Len(h) < BlockLen)
  BY <1>1, <1>2
<1> QED  BY <1>5, <1>6, <1>7, <1>8 DEF h

LEMMA PaddedRead ==
  ASSUME PinProtocol!ConstantsOK, NEW m, NEW a \in Nat, NEW k, RequestOK(m, a, k), AsMade(m),
         m.op # "token"
  PROVE  LET z == PinProtocol!decrypt(m.version, m.secret, m.newPinEnc) IN
         /\ z # Absent /\ Len(z) = PadLen
         /\ PinProtocol!strip_zero_padding(z) = IF m.op = "current" THEN m.old ELSE m.new
<1> DEFINE v == Len(m.secret)
           p == IF m.op = "current" THEN m.old ELSE m.new
           z == PinProtocol!zero_pad_to_64(p)
           n == 2 * m.peer + 1
           plain == PinProtocol!decrypt(m.version, m.secret, m.newPinEnc)
<1>1. /\ m.version = v /\ m.newPinEnc = PinProtocol!encrypt(v, m.secret, n, z) /\ v \in {1, 2}
      /\ p \in Pins /\ n \in Nat
  BY MadePinIs DEF AsMade
<1>2. Absent \notin Seq(Nat)
  BY DEF PinProtocol!ConstantsOK
<1>3. v = Len(m.secret)
  OBVIOUS
<1>4. plain = PinProtocol!decrypt(v, m.secret, PinProtocol!encrypt(v, m.secret, n, z))
  BY <1>1
<1> HIDE DEF v, p, n, plain
<1>5. /\ z \in Seq(Nat) /\ Len(z) = PadLen /\ Len(z) % BlockLen = 0
      /\ PinProtocol!strip_zero_padding(z) = p
  BY <1>1, PadIs
<1> HIDE DEF z
<1>6. plain = z
  <2>1. v \in {1, 2} /\ Len(m.secret) = v /\ n \in Nat /\ z \in Seq(Nat) /\ Len(z) % BlockLen = 0
    BY <1>1, <1>3, <1>5
  <2>2. RoundTripOK(v, m.secret, n, z)
    BY <2>1, RoundTrip
  <2> QED  BY <1>4, <2>2 DEF RoundTripOK
<1>7. z # Absent
  BY <1>2, <1>5
<1> QED  BY <1>5, <1>6, <1>7 DEF plain, p

LEMMA PinRead ==
  ASSUME PinProtocol!ConstantsOK, NEW m, NEW a \in Nat, NEW k, RequestOK(m, a, k), AsMade(m),
         m.op \in {"set", "change"}
  PROVE  /\ m.new \in Pins
         /\ PinProtocol!NewPin(m, m.secret) =
              IF Len(m.new) \in PIN_MIN_LENGTH .. PIN_MAX_LENGTH THEN m.new ELSE Absent
         /\ m.new # Absent
<1> DEFINE z == PinProtocol!decrypt(m.version, m.secret, m.newPinEnc)
<1>1. z # Absent /\ Len(z) = PadLen /\ PinProtocol!strip_zero_padding(z) = m.new
  BY PaddedRead
<1>2. m.new \in Pins
  BY Zenon DEF RequestOK
<1>3. m.new # Absent
  BY <1>2 DEF PinProtocol!ConstantsOK
<1>4. PinProtocol!NewPin(m, m.secret) =
        LET q == IF z = Absent \/ Len(z) # PadLen THEN Absent ELSE PinProtocol!strip_zero_padding(z)
        IN  IF q = Absent \/ Len(q) \notin PIN_MIN_LENGTH .. PIN_MAX_LENGTH THEN Absent ELSE q
  BY Zenon DEF PinProtocol!NewPin
<1> HIDE DEF z
<1> QED  BY <1>1, <1>2, <1>3, <1>4

\* What the device and the platform keep.
DeviceOK(d) ==
  /\ d = [f \in PinDeviceFields |-> d[f]]
  /\ d.key \in 0 .. MaxKeys /\ d.tries \in 0 .. PIN_MAX_RETRIES /\ d.fails \in Nat
  /\ d.secret = Absent \/ AgreedPair(d.secret)
KeptOK(d, c) ==
  d.hash # <<>> => c \in PinProtocol!ValidPins /\ d.hash = PinProtocol!sha256(c)
PlatformOK(p, k) ==
  /\ p = [f \in {"heard", "secret"} |-> p[f]]
  /\ p.heard \in 0 .. k /\ (p.secret = Absent \/ AgreedPair(p.secret))

\* The key or the retained secret an accepted request was made for is spent.
OnceOK(n, w, d) ==
  /\ n \in {0, 1}
  /\ n = 1 => /\ w.op # "current" => d.key # w.heard
              /\ w.op = "current" => d.secret = Absent

\* The answer to a request is the one it deserves.
Judged(m, d, ok, reply) ==
  LET open == m.op = "none" \/ (d.tries > 0 /\ ~PinProtocol!is_pin_blocked(d))
      agreed == ~m.spoiled /\ m.heard = d.key /\ d.key # 0
      good == Len(m.new) \in PIN_MIN_LENGTH .. PIN_MAX_LENGTH
      knows == d.hash # <<>> /\ d.hash = PinProtocol!sha256(m.old)
  IN  /\ ok \in BOOLEAN
      /\ m.op = "set" /\ agreed /\ d.hash = <<>> /\ good => ok
      /\ m.op = "change" /\ agreed /\ open /\ knows /\ good => ok
      /\ m.op = "token" /\ agreed /\ open /\ knows => ok
      /\ m.op = "current" /\ knows /\ d.secret = <<m.secret, m.version>> => ok
      /\ m.op = "token" /\ ok /\ ~m.spoiled =>
           PinProtocol!decrypt(m.version, m.secret, reply) = PinProtocol!Token(m.peer)
      /\ ok /\ m.op \in {"set", "change"} => ~m.spoiled /\ m.heard = d.key
LastOK == Judged(last.request, last.before, last.ok, last.reply)

PinInv ==
  /\ DeviceOK(device) /\ KeptOK(device, chosen) /\ PlatformOK(platform, made)
  /\ made \in 0 .. MaxKeys /\ asks \in 0 .. MaxAsks /\ faults \in 0 .. MaxFaults
  /\ (wire = Absent /\ accepts = 0) \/ RequestOK(wire, asks, made)
  /\ OnceOK(accepts, wire, device) /\ LastOK

\* A pair of a secret and its version is not an absent one.
LEMMA PairIs ==
  ASSUME PinProtocol!ConstantsOK, NEW p, AgreedPair(p)
  PROVE  /\ p # Absent /\ p = <<p[1], p[2]>> /\ p[2] \in {1, 2} /\ p[2] = Len(p[1])
         /\ AgreedSecret(p[1], p[2])
<1>0. PICK v \in {1, 2} : \E s : p = <<s, v>> /\ AgreedSecret(s, v)
  BY DEF AgreedPair
<1>1. PICK s : p = <<s, v>> /\ AgreedSecret(s, v)
  BY <1>0
<1>2. PICK key \in 0 .. MaxKeys, n \in 0 .. MaxAsks : s = PinProtocol!kdf(v, <<key, n>>)
  BY <1>1 DEF AgreedSecret
<1>3. p # Absent
  <2>1. <<PinProtocol!kdf(v, <<key, n>>), v>> # Absent
    BY DEF PinProtocol!ConstantsOK
  <2> QED  BY <1>1, <1>2, <2>1
<1>4. Len(s) = v
  <2>1. KdfOK(v, <<key, n>>, s)
    BY <1>2, KdfIs, Zenon
  <2> QED  BY <2>1, Zenon DEF KdfOK
<1>5. p[1] = s /\ p[2] = v
  BY <1>1
<1> QED  BY <1>1, <1>3, <1>4, <1>5

LEMMA PinInvGives ==
  ASSUME PinProtocol!ConstantsOK, PinInv, part = "protocol"
  PROVE  PinAsTyped
<1>1. PinProtocol!RightPinServed
  <2>1. LastOK
    BY DEF PinInv
  <2> QED  BY <2>1, Zenon DEF LastOK, Judged, PinProtocol!RightPinServed
<1>2. PinProtocol!PinAsTyped
  <2>1. LastOK /\ KeptOK(device, chosen)
    BY DEF PinInv
  <2>2. device.hash # <<>> =>
          /\ device.hash = PinProtocol!sha256(chosen)
          /\ Len(chosen) \in PIN_MIN_LENGTH .. PIN_MAX_LENGTH
    BY <2>1 DEF KeptOK, PinProtocol!ValidPins
  <2>3. last.ok /\ last.request.op \in {"set", "change"} =>
          ~last.request.spoiled /\ last.request.heard = last.before.key
    BY <2>1, Zenon DEF LastOK, Judged
  <2> QED  BY <2>2, <2>3, Zenon DEF PinProtocol!PinAsTyped
<1>3. PinProtocol!ServedOnce
  BY DEF PinInv, OnceOK, PinProtocol!ServedOnce
<1>4. PinProtocol!TypeOK
  <2>1. /\ device.key \in 0 .. MaxKeys /\ device.tries \in 0 .. PIN_MAX_RETRIES /\ device.fails \in Nat
        /\ made \in 0 .. MaxKeys /\ asks \in 0 .. MaxAsks /\ faults \in 0 .. MaxFaults
        /\ platform.heard \in 0 .. made
    BY DEF PinInv, DeviceOK, PlatformOK
  <2>2. last.ok \in BOOLEAN
    BY Zenon DEF PinInv, LastOK, Judged
  <2>3. accepts \in Nat
    BY DEF PinInv, OnceOK
  <2>4. device.hash = <<>> \/ Len(device.hash) = BlockLen
    <3> SUFFICES ASSUME device.hash # <<>> PROVE Len(device.hash) = BlockLen
      OBVIOUS
    <3>1. chosen \in Seq(Nat) /\ device.hash = PinProtocol!sha256(chosen)
      BY ValidPinIs DEF PinInv, KeptOK
    <3> QED  BY <3>1, HashIs
  <2>5. device.secret = Absent \/ device.secret[2] = Len(device.secret[1])
    BY PairIs DEF PinInv, DeviceOK
  <2>6. wire = Absent \/ wire.op \in PinProtocol!Ops
    BY DEF PinInv, RequestOK
  <2> QED  BY <2>1, <2>2, <2>3, <2>4, <2>5, <2>6, Zenon DEF PinProtocol!TypeOK
<1> QED  BY <1>1, <1>2, <1>3, <1>4, Zenon DEF PinAsTyped

\* The keys a request may have been made for only grow in number.
LEMMA RequestGrows ==
  ASSUME NEW m, NEW a, NEW k \in Nat, NEW j \in Nat, k <= j, RequestOK(m, a, k)
  PROVE  RequestOK(m, a, j)
<1>1. m.op # "current" => m.heard \in 1 .. j
  <2>1. m.op # "current" => m.heard \in 1 .. k
    BY DEF RequestOK
  <2> QED  BY <2>1
<1> QED  BY <1>1, Zenon DEF RequestOK

\* Nothing was handled.
LEMMA NothingIs ==
  ASSUME last' = PinProtocol!NothingHandled
  PROVE  LastOK'
<1>1. last'.ok = FALSE /\ last'.request.op = "none"
  BY DEF PinProtocol!NothingHandled, PinProtocol!NoRequest
<1> QED  BY <1>1 DEF LastOK, Judged

\* What a refusal may do to the device: spend its key or its secret.
Kin(d, e) ==
  /\ DeviceOK(e) /\ e.hash = d.hash
  /\ e.key = d.key \/ e.key = 0
  /\ e.secret = d.secret \/ e.secret = Absent

LEMMA KeySpent ==
  ASSUME PinProtocol!ConstantsOK, NEW d, DeviceOK(d)
  PROVE  LET e == PinProtocol!take_pin_agreement_key(d) IN Kin(d, e) /\ e.key = 0 /\ e.secret = d.secret
<1> DEFINE e == PinProtocol!take_pin_agreement_key(d)
<1>1. /\ e = [f \in PinDeviceFields |-> e[f]] /\ e.key = 0 /\ e.secret = d.secret /\ e.hash = d.hash
      /\ e.tries = d.tries /\ e.fails = d.fails
  BY DEF DeviceOK, PinDeviceFields, PinProtocol!take_pin_agreement_key
<1>2. 0 \in 0 .. MaxKeys
  BY DEF PinProtocol!ConstantsOK
<1> HIDE DEF e
<1> QED  BY <1>1, <1>2 DEF Kin, DeviceOK, e

LEMMA Counted ==
  ASSUME PinProtocol!ConstantsOK, NEW d, DeviceOK(d)
  PROVE  LET e == PinProtocol!decrement_pin_retries(d) IN
         DeviceOK(e) /\ e.hash = d.hash /\ e.key = d.key /\ e.secret = d.secret
<1> DEFINE e == PinProtocol!decrement_pin_retries(d)
           t == IF d.tries = 0 THEN 0 ELSE d.tries - 1
<1>1. e = [d EXCEPT !.tries = t]
  BY DEF PinProtocol!decrement_pin_retries
<1>2. t \in 0 .. PIN_MAX_RETRIES
  BY DEF DeviceOK, PinProtocol!ConstantsOK
<1> HIDE DEF e, t
<1>3. /\ e = [f \in PinDeviceFields |-> e[f]] /\ e.key = d.key /\ e.secret = d.secret /\ e.hash = d.hash
      /\ e.tries = t /\ e.fails = d.fails
  BY <1>1 DEF DeviceOK, PinDeviceFields
<1> QED  BY <1>2, <1>3 DEF DeviceOK, e

LEMMA TriesReset ==
  ASSUME PinProtocol!ConstantsOK, NEW d, DeviceOK(d)
  PROVE  LET e == PinProtocol!reset_pin_retries(d) IN
         DeviceOK(e) /\ e.hash = d.hash /\ e.key = d.key /\ e.secret = d.secret
<1> DEFINE e == PinProtocol!reset_pin_retries(d)
<1>1. PIN_MAX_RETRIES \in 0 .. PIN_MAX_RETRIES /\ 0 \in Nat
  BY DEF PinProtocol!ConstantsOK
<1>2. /\ e = [f \in PinDeviceFields |-> e[f]] /\ e.key = d.key /\ e.secret = d.secret /\ e.hash = d.hash
      /\ e.tries = PIN_MAX_RETRIES /\ e.fails = 0
  BY DEF DeviceOK, PinDeviceFields, PinProtocol!reset_pin_retries
<1> HIDE DEF e
<1> QED  BY <1>1, <1>2 DEF DeviceOK, e

LEMMA Registered ==
  ASSUME PinProtocol!ConstantsOK, NEW d, DeviceOK(d)
  PROVE  LET e == PinProtocol!register_pin_failure(d) IN
         DeviceOK(e) /\ e.hash = d.hash /\ e.key = d.key /\ e.secret = d.secret
<1> DEFINE e == PinProtocol!register_pin_failure(d)
           t == d.fails + 1
<1>1. e = [d EXCEPT !.fails = t]
  BY DEF PinProtocol!register_pin_failure
<1>2. t \in Nat
  BY DEF DeviceOK
<1> HIDE DEF e, t
<1>3. /\ e = [f \in PinDeviceFields |-> e[f]] /\ e.key = d.key /\ e.secret = d.secret /\ e.hash = d.hash
      /\ e.tries = d.tries /\ e.fails = t
  BY <1>1 DEF DeviceOK, PinDeviceFields
<1> QED  BY <1>2, <1>3 DEF DeviceOK, e

\* What each way through a handler leaves of the device.
LEMMA Afters ==
  ASSUME PinProtocol!ConstantsOK, NEW d, DeviceOK(d)
  PROVE  LET spent == PinProtocol!take_pin_agreement_key(d)
             counted == PinProtocol!decrement_pin_retries(spent)
         IN  /\ Kin(d, d) /\ Kin(d, spent) /\ spent.key = 0
             /\ Kin(d, PinProtocol!register_pin_failure(counted))
             /\ Kin(d, PinProtocol!reset_pin_retries(counted))
             /\ PinProtocol!reset_pin_retries(counted).key = 0
             /\ Kin(d, PinProtocol!reset_pin_retries(spent))
             /\ PinProtocol!reset_pin_retries(spent).key = 0
             /\ PinProtocol!reset_pin_retries(counted).secret = d.secret
             /\ PinProtocol!reset_pin_retries(spent).secret = d.secret
<1> DEFINE spent == PinProtocol!take_pin_agreement_key(d)
           counted == PinProtocol!decrement_pin_retries(spent)
<1>1. Kin(d, d)
  BY DEF Kin
<1>2. Kin(d, spent) /\ spent.key = 0 /\ spent.secret = d.secret
  BY KeySpent
<1> HIDE DEF spent
<1>3. DeviceOK(counted) /\ counted.hash = d.hash /\ counted.key = 0 /\ counted.secret = d.secret
  BY <1>2, Counted DEF Kin
<1> HIDE DEF counted
<1>4. LET e == PinProtocol!register_pin_failure(counted) IN
      DeviceOK(e) /\ e.hash = d.hash /\ e.key = 0 /\ e.secret = d.secret
  BY <1>3, Registered
<1>5. LET e == PinProtocol!reset_pin_retries(counted) IN
      DeviceOK(e) /\ e.hash = d.hash /\ e.key = 0 /\ e.secret = d.secret
  BY <1>3, TriesReset
<1>6. LET e == PinProtocol!reset_pin_retries(spent) IN
      DeviceOK(e) /\ e.hash = d.hash /\ e.key = 0 /\ e.secret = d.secret
  BY <1>2, TriesReset DEF Kin
<1> QED  BY <1>1, <1>2, <1>4, <1>5, <1>6, Zenon DEF Kin, spent, counted

Rehashed(d, h) == [d EXCEPT !.hash = h, !.token = Absent]

LEMMA NewHash ==
  ASSUME NEW d, DeviceOK(d), NEW h
  PROVE  LET e == Rehashed(d, h) IN
         DeviceOK(e) /\ e.hash = h /\ e.key = d.key /\ e.secret = d.secret
<1> DEFINE e == Rehashed(d, h)
<1>1. /\ e = [f \in PinDeviceFields |-> e[f]] /\ e.key = d.key /\ e.secret = d.secret /\ e.hash = h
      /\ e.tries = d.tries /\ e.fails = d.fails
  BY DEF DeviceOK, PinDeviceFields, Rehashed
<1> HIDE DEF e
<1> QED  BY ONLY DeviceOK(d), <1>1 DEF DeviceOK, e

Issued(d, t, s) == [d EXCEPT !.token = t, !.secret = s]

LEMMA NewToken ==
  ASSUME NEW d, DeviceOK(d), NEW t, NEW s, AgreedPair(s)
  PROVE  LET e == Issued(d, t, s) IN
         DeviceOK(e) /\ e.hash = d.hash /\ e.key = d.key /\ e.secret = s
<1> DEFINE e == Issued(d, t, s)
<1>1. /\ e = [f \in PinDeviceFields |-> e[f]] /\ e.key = d.key /\ e.secret = s /\ e.hash = d.hash
      /\ e.tries = d.tries /\ e.fails = d.fails
  BY DEF DeviceOK, PinDeviceFields, Issued
<1> HIDE DEF e
<1> QED  BY ONLY DeviceOK(d), AgreedPair(s), <1>1 DEF DeviceOK, e

LEMMA SecretSpent ==
  ASSUME NEW d, DeviceOK(d), NEW e, e = [d EXCEPT !.secret = Absent]
  PROVE  Kin(d, e) /\ e.secret = Absent
<1>1. /\ e = [f \in PinDeviceFields |-> e[f]] /\ e.key = d.key /\ e.secret = Absent /\ e.hash = d.hash
      /\ e.tries = d.tries /\ e.fails = d.fails
  BY DEF DeviceOK, PinDeviceFields
<1> QED  BY ONLY DeviceOK(d), <1>1 DEF DeviceOK, Kin

\* A step that handles the request on the wire.
LEMMA Replied ==
  ASSUME PinInv, wire # Absent, NEW ok, NEW after, NEW reply,
         PinProtocol!Reply(wire, ok, after, reply), Judged(wire, device, ok, reply),
         DeviceOK(after), KeptOK(after, chosen'), PlatformOK(platform', made),
         OnceOK(accepts', wire, after)
  PROVE  PinInv'
<1>1. /\ device' = after /\ made' = made /\ wire' = wire /\ asks' = asks /\ faults' = faults
      /\ last' = [request |-> wire, before |-> device, ok |-> ok, reply |-> reply]
  BY DEF PinProtocol!Reply
<1>2. LastOK'
  <2>1. last'.request = wire /\ last'.before = device /\ last'.ok = ok /\ last'.reply = reply
    BY <1>1, Zenon
  <2> QED  BY <2>1, Zenon DEF LastOK
<1>3. /\ DeviceOK(device)' /\ KeptOK(device, chosen)' /\ PlatformOK(platform, made)'
      /\ OnceOK(accepts, wire, device)' /\ RequestOK(wire, asks, made)'
      /\ (made \in 0 .. MaxKeys /\ asks \in 0 .. MaxAsks /\ faults \in 0 .. MaxFaults)'
  BY <1>1, Zenon DEF PinInv
<1> QED  BY <1>2, <1>3, Zenon DEF PinInv

LEMMA Refused ==
  ASSUME PinProtocol!ConstantsOK, PinInv, wire # Absent, NEW after, PinProtocol!Refuse(wire, after),
         Judged(wire, device, FALSE, Absent), Kin(device, after)
  PROVE  PinInv'
<1>1. PinProtocol!Reply(wire, FALSE, after, Absent) /\ platform' = platform /\ chosen' = chosen
  BY Zenon DEF PinProtocol!Refuse
<1>2. accepts' = accepts
  BY <1>1 DEF PinProtocol!Reply
<1>3. DeviceOK(after) /\ KeptOK(after, chosen') /\ PlatformOK(platform', made)
  BY <1>1, Zenon DEF PinInv, Kin, KeptOK
<1>4. OnceOK(accepts', wire, after)
  <2>1. OnceOK(accepts, wire, device) /\ RequestOK(wire, asks, made)
    BY Zenon DEF PinInv
  <2>2. wire.op # "current" => wire.heard # 0
    <3>1. wire.op # "current" => wire.heard \in 1 .. made
      BY <2>1 DEF RequestOK
    <3>2. made \in Nat
      BY DEF PinInv, PinProtocol!ConstantsOK
    <3> QED  BY <3>1, <3>2
  <2> QED  BY <1>2, <2>1, <2>2 DEF OnceOK, Kin
<1> QED  BY <1>1, <1>3, <1>4, Replied, Zenon

LEMMA VersionIs ==
  ASSUME NEW m, NEW a, NEW k, RequestOK(m, a, k), m.onCurve
  PROVE  m.version \in {1, 2}
<1> DEFINE v == Len(m.secret)
<1>1. v \in {1, 2}
  BY RequestSecret
<1>2. (~m.spoiled => AsMade(m)) /\ (m.spoiled => Altered(m)) /\ m.spoiled \in BOOLEAN
  BY Zenon DEF RequestOK
<1>3. Altered(m) => m.version = v \/ m.version = 3 - v
  BY DEF Altered, AlteredKey, AlteredVersion, AlteredHash, AlteredPin, AlteredTag
<1>4. AsMade(m) => m.version = v
  BY DEF AsMade
<1> HIDE DEF v
<1> QED  BY <1>1, <1>2, <1>3, <1>4

\* The secret the device comes to for the request on the wire.
LEMMA SecretIs ==
  ASSUME PinProtocol!ConstantsOK, PinInv, wire # Absent
  PROVE  LET secret == PinProtocol!perform_key_agreement(wire) IN
         /\ RequestOK(wire, asks, made) /\ asks \in Nat /\ made \in Nat
         /\ ~wire.onCurve => secret = Absent
         /\ wire.onCurve => /\ secret # Absent /\ wire.version \in {1, 2}
                            /\ secret = PinProtocol!kdf(wire.version, <<device.key, wire.peer>>)
                            /\ AgreedPair(<<secret, wire.version>>) /\ Len(secret) = wire.version
<1> DEFINE secret == PinProtocol!perform_key_agreement(wire)
           z == <<device.key, wire.peer>>
<1>1. RequestOK(wire, asks, made) /\ asks \in 0 .. MaxAsks /\ made \in 0 .. MaxKeys
  BY Zenon DEF PinInv
<1>2. MaxAsks \in Nat /\ MaxKeys \in Nat
  BY DEF PinProtocol!ConstantsOK
<1>3. device.key \in 0 .. MaxKeys /\ wire.peer \in 0 .. MaxAsks
  <2>1. device.key \in 0 .. MaxKeys /\ wire.peer \in 1 .. asks
    BY <1>1, Zenon DEF PinInv, DeviceOK, RequestOK
  <2> QED  BY <1>1, <1>2, <2>1
<1>4. ~wire.onCurve => secret = Absent
  BY Zenon DEF PinProtocol!perform_key_agreement
<1>5. wire.onCurve => secret = PinProtocol!kdf(wire.version, z) /\ wire.version \in {1, 2}
  BY <1>1, VersionIs DEF PinProtocol!perform_key_agreement
<1>6. ASSUME wire.onCurve
      PROVE  AgreedPair(<<secret, wire.version>>) /\ secret # Absent /\ Len(secret) = wire.version
  <2> DEFINE v == wire.version
             key == device.key
             n == wire.peer
  <2>1. v \in {1, 2} /\ key \in 0 .. MaxKeys /\ n \in 0 .. MaxAsks /\ secret = PinProtocol!kdf(v, <<key, n>>)
    BY <1>3, <1>5, <1>6
  <2> HIDE DEF v, key, n, secret
  <2>2. secret # Absent
    BY <2>1 DEF PinProtocol!ConstantsOK
  <2>3. AgreedPair(<<secret, v>>)
    BY <2>1, Zenon DEF AgreedPair, AgreedSecret
  <2>4. KdfOK(v, <<key, n>>, secret)
    BY <2>1, KdfIs, Zenon
  <2>5. Len(secret) = v
    BY <2>4, Zenon DEF KdfOK
  <2> QED  BY <2>2, <2>3, <2>5 DEF v
<1> HIDE DEF secret
<1>7. asks \in Nat /\ made \in Nat
  BY <1>1, <1>2
<1> QED  BY <1>1, <1>4, <1>5, <1>6, <1>7, Zenon DEF secret

\* The secret of an unchanged request made for the key the device has.
LEMMA SecretShared ==
  ASSUME PinProtocol!ConstantsOK, PinInv, wire # Absent, wire.op # "current",
         ~wire.spoiled, wire.heard = device.key
  PROVE  AsMade(wire) /\ wire.onCurve /\ PinProtocol!perform_key_agreement(wire) = wire.secret
<1>1. RequestOK(wire, asks, made)
  BY SecretIs
<1>2. AsMade(wire)
  BY <1>1, Zenon DEF RequestOK
<1>3. wire.onCurve /\ wire.version = Len(wire.secret)
  BY <1>2, Zenon DEF AsMade
<1>4. PinProtocol!perform_key_agreement(wire) = PinProtocol!kdf(wire.version, <<device.key, wire.peer>>)
  BY <1>3, Zenon DEF PinProtocol!perform_key_agreement
<1>5. wire.secret = PinProtocol!kdf(Len(wire.secret), <<wire.heard, wire.peer>>)
  BY <1>1, RequestSecret
<1> QED  BY <1>2, <1>3, <1>4, <1>5, Zenon

\* The MAC of an unchanged request is verified.
LEMMA MacServed ==
  ASSUME PinProtocol!ConstantsOK, NEW m, NEW a \in Nat, NEW k, RequestOK(m, a, k), AsMade(m),
         m.op \in {"set", "change"}
  PROVE  PinProtocol!verify(m.version, m.secret, Covered(m), m.pinAuth)
<1>1. /\ m.version = Len(m.secret) /\ m.newPinEnc = MadePin(m) /\ m.pinHashEnc = MadeHash(m)
      /\ m.pinAuth = PinProtocol!authenticate(m.version, m.secret, MadePin(m) \o MadeHash(m))
  BY Zenon DEF AsMade, MadeTag
<1>2. Covered(m) = MadePin(m) \o MadeHash(m)
  <2>1. CASE m.op = "set"
    <3>1. MadeHash(m) = <<>>
      BY <2>1 DEF MadeHash
    <3>2. PICK S : MadePin(m) \in Seq(S)
      BY <2>1, MadePinIs
    <3> DEFINE q == MadePin(m)
    <3> HIDE DEF q
    <3>3. q \o <<>> = q
      BY <3>2 DEF q
    <3> QED  BY <1>1, <2>1, <3>1, <3>3 DEF Covered, q
  <2>2. CASE m.op # "set"
    BY <1>1, <2>2 DEF Covered
  <2> QED  BY <2>1, <2>2
<1> QED  BY <1>1, <1>2, Zenon DEF PinProtocol!verify

\* A set or change that is served.
LEMMA Served ==
  ASSUME PinProtocol!ConstantsOK, PinInv, wire # Absent, wire.op \in {"set", "change"}, wire.onCurve,
         NEW secret, secret = PinProtocol!perform_key_agreement(wire),
         PinProtocol!verify(wire.version, secret, Covered(wire), wire.pinAuth),
         NEW p, p = PinProtocol!NewPin(wire, secret), p # Absent,
         NEW d, DeviceOK(d), d.key = 0,
         PinProtocol!Reply(wire, TRUE, Rehashed(d, PinProtocol!sha256(p)), Absent),
         chosen' = wire.new, platform' = platform
  PROVE  PinInv'
<1> DEFINE after == Rehashed(d, PinProtocol!sha256(p))
<1>1. /\ RequestOK(wire, asks, made) /\ asks \in Nat /\ made \in Nat
      /\ secret = PinProtocol!kdf(wire.version, <<device.key, wire.peer>>)
  BY SecretIs
<1>2. ~wire.spoiled /\ AsMade(wire) /\ wire.heard = device.key /\ secret = wire.secret
  BY <1>1, MacTells
<1>3. p = wire.new /\ wire.new \in PinProtocol!ValidPins
  <2>1. /\ wire.new \in Pins
        /\ p = IF Len(wire.new) \in PIN_MIN_LENGTH .. PIN_MAX_LENGTH THEN wire.new ELSE Absent
    BY <1>1, <1>2, PinRead
  <2> QED  BY <2>1 DEF PinProtocol!ValidPins
<1>4. DeviceOK(after) /\ after.hash = PinProtocol!sha256(p) /\ after.key = 0
  BY NewHash
<1>5. PinProtocol!Reply(wire, TRUE, after, Absent)
  OBVIOUS
<1> HIDE DEF after
<1>6. KeptOK(after, chosen')
  BY <1>3, <1>4 DEF KeptOK
<1>7. Judged(wire, device, TRUE, Absent)
  <2>1. wire.op # "token"
    OBVIOUS
  <2> QED  BY <1>2, <2>1 DEF Judged
<1>8. OnceOK(accepts', wire, after)
  <2>1. OnceOK(accepts, wire, device)
    BY Zenon DEF PinInv
  <2>2. wire.heard \in 1 .. made /\ wire.op # "current"
    BY <1>1 DEF RequestOK
  <2>3. accepts = 0
    BY <1>2, <2>1, <2>2 DEF OnceOK
  <2>4. accepts' = 1
    BY <1>5, <2>3 DEF PinProtocol!Reply
  <2>5. wire.heard # 0
    BY <1>1, <2>2
  <2> QED  BY <1>4, <2>2, <2>4, <2>5 DEF OnceOK
<1>9. PlatformOK(platform', made)
  BY Zenon DEF PinInv
<1> QED  BY <1>4, <1>5, <1>6, <1>7, <1>8, <1>9, Replied, Zenon

LEMMA SetStep ==
  ASSUME PinProtocol!ConstantsOK, PinInv, wire # Absent, PinProtocol!handle_set_pin(wire)
  PROVE  PinInv'
<1> DEFINE secret == PinProtocol!perform_key_agreement(wire)
           after == PinProtocol!take_pin_agreement_key(device)
           p == PinProtocol!NewPin(wire, secret)
           carriedOut == /\ secret # Absent
                         /\ PinProtocol!verify(wire.version, secret, wire.newPinEnc, wire.pinAuth)
                         /\ p # Absent
           full == PinProtocol!reset_pin_retries(after)
           h == PinProtocol!sha256(p)
<1>1. wire.op = "set"
  BY Zenon DEF PinProtocol!handle_set_pin
<1>2. \/ device.hash # <<>> /\ PinProtocol!Refuse(wire, device)
      \/ device.hash = <<>> /\ ~carriedOut /\ PinProtocol!Refuse(wire, after)
      \/ /\ carriedOut /\ PinProtocol!Reply(wire, TRUE, Rehashed(full, h), Absent)
         /\ chosen' = wire.new /\ platform' = platform
  BY Zenon DEF PinProtocol!handle_set_pin, Rehashed
<1>3. DeviceOK(device)
  BY Zenon DEF PinInv
<1>4. Kin(device, device) /\ Kin(device, after) /\ Kin(device, full) /\ full.key = 0
  BY <1>3, Afters
<1>5. Covered(wire) = wire.newPinEnc
  BY <1>1, Zenon DEF Covered
<1>6. CASE device.hash # <<>> /\ PinProtocol!Refuse(wire, device)
  <2>1. Judged(wire, device, FALSE, Absent)
    BY <1>1, <1>6 DEF Judged
  <2> QED  BY <1>4, <1>6, <2>1, Refused, Zenon
<1>7. CASE device.hash = <<>> /\ ~carriedOut /\ PinProtocol!Refuse(wire, after)
  <2>1. ASSUME ~wire.spoiled, wire.heard = device.key, Len(wire.new) \in PIN_MIN_LENGTH .. PIN_MAX_LENGTH
        PROVE  FALSE
    <3>1. AsMade(wire) /\ wire.onCurve /\ secret = wire.secret
      BY <1>1, <2>1, SecretShared
    <3>2. RequestOK(wire, asks, made) /\ asks \in Nat /\ secret # Absent
      BY <3>1, SecretIs
    <3>3. PinProtocol!verify(wire.version, wire.secret, Covered(wire), wire.pinAuth)
      BY <1>1, <3>1, <3>2, MacServed
    <3>4. PinProtocol!NewPin(wire, wire.secret) = wire.new /\ wire.new # Absent
      BY <1>1, <2>1, <3>1, <3>2, PinRead
    <3>5. ~(/\ wire.secret # Absent
            /\ PinProtocol!verify(wire.version, wire.secret, wire.newPinEnc, wire.pinAuth)
            /\ PinProtocol!NewPin(wire, wire.secret) # Absent)
      BY <1>7, <3>1, Zenon
    <3> QED  BY <1>5, <3>1, <3>2, <3>3, <3>4, <3>5, Zenon
  <2> HIDE DEF carriedOut, after
  <2>2. Judged(wire, device, FALSE, Absent)
    BY <1>1, <2>1 DEF Judged
  <2> QED  BY <1>4, <1>7, <2>2, Refused, Zenon
<1>8. CASE /\ carriedOut /\ PinProtocol!Reply(wire, TRUE, Rehashed(full, h), Absent)
           /\ chosen' = wire.new /\ platform' = platform
  <2>1. wire.onCurve
    BY <1>8, SecretIs, Zenon
  <2>2. DeviceOK(full) /\ full.key = 0
    BY <1>4, Zenon DEF Kin
  <2>3. PinProtocol!verify(wire.version, secret, Covered(wire), wire.pinAuth) /\ p # Absent
    BY <1>5, <1>8, Zenon
  <2>4. PinProtocol!Reply(wire, TRUE, Rehashed(full, PinProtocol!sha256(p)), Absent)
    BY <1>8, Zenon
  <2>5. secret = PinProtocol!perform_key_agreement(wire) /\ p = PinProtocol!NewPin(wire, secret)
    OBVIOUS
  <2>6. wire.op \in {"set", "change"}
    BY <1>1
  <2> HIDE DEF secret, p, full
  <2> QED  BY <1>8, <2>1, <2>2, <2>3, <2>4, <2>5, <2>6, Served, Zenon
<1> HIDE DEF carriedOut, after, secret, p, full, h
<1> QED  BY <1>2, <1>6, <1>7, <1>8, Zenon

LEMMA ChangePinStep ==
  ASSUME PinProtocol!ConstantsOK, PinInv, wire # Absent, PinProtocol!handle_change_pin(wire)
  PROVE  PinInv'
<1> DEFINE secret == PinProtocol!perform_key_agreement(wire)
           spent == PinProtocol!take_pin_agreement_key(device)
           counted == PinProtocol!decrement_pin_retries(spent)
           right == PinProtocol!reset_pin_retries(counted)
           failed == PinProtocol!register_pin_failure(counted)
           p == PinProtocol!NewPin(wire, secret)
           h == PinProtocol!sha256(p)
           closed == device.hash = <<>> \/ device.tries = 0 \/ PinProtocol!is_pin_blocked(device)
           verified == PinProtocol!verify(wire.version, secret, wire.newPinEnc \o wire.pinHashEnc,
                                          wire.pinAuth)
           matches == PinProtocol!decrypt_pin_hash(wire, secret) = device.hash
<1>1. wire.op = "change"
  BY Zenon DEF PinProtocol!handle_change_pin
<1>2. \/ closed /\ PinProtocol!Refuse(wire, device)
      \/ ~closed /\ (secret = Absent \/ ~verified) /\ PinProtocol!Refuse(wire, spent)
      \/ ~closed /\ ~matches /\ PinProtocol!Refuse(wire, failed)
      \/ ~closed /\ p = Absent /\ PinProtocol!Refuse(wire, right)
      \/ /\ secret # Absent /\ verified /\ p # Absent
         /\ PinProtocol!Reply(wire, TRUE, Rehashed(right, h), Absent)
         /\ chosen' = wire.new /\ platform' = platform
  BY Zenon DEF PinProtocol!handle_change_pin, Rehashed
<1>3. DeviceOK(device)
  BY Zenon DEF PinInv
<1>4. /\ Kin(device, device) /\ Kin(device, spent) /\ Kin(device, failed) /\ Kin(device, right)
      /\ right.key = 0
  BY <1>3, Afters
<1>5. Covered(wire) = wire.newPinEnc \o wire.pinHashEnc
  BY <1>1 DEF Covered
<1>6. ASSUME ~wire.spoiled, wire.heard = device.key, device.hash = PinProtocol!sha256(wire.old),
             Len(wire.new) \in PIN_MIN_LENGTH .. PIN_MAX_LENGTH
      PROVE  secret # Absent /\ verified /\ matches /\ p # Absent
  <2>1. AsMade(wire) /\ wire.onCurve /\ secret = wire.secret
    BY <1>1, <1>6, SecretShared
  <2>2. RequestOK(wire, asks, made) /\ asks \in Nat /\ secret # Absent
    BY <2>1, SecretIs
  <2>3. PinProtocol!verify(wire.version, wire.secret, Covered(wire), wire.pinAuth)
    BY <1>1, <2>1, <2>2, MacServed
  <2>4. PinProtocol!NewPin(wire, wire.secret) = wire.new /\ wire.new # Absent
    BY <1>1, <1>6, <2>1, <2>2, PinRead
  <2>5. PinProtocol!decrypt_pin_hash(wire, wire.secret) = PinProtocol!sha256(wire.old)
    BY <1>1, <2>1, <2>2, HashRead
  <2>6. verified
    BY <1>5, <2>1, <2>3, Zenon
  <2>7. matches /\ p # Absent
    BY <1>6, <2>1, <2>4, <2>5, Zenon
  <2> QED  BY <2>2, <2>6, <2>7, Zenon
<1>7. closed => ~(device.tries > 0 /\ ~PinProtocol!is_pin_blocked(device)) \/ device.hash = <<>>
  <2>1. device.tries = 0 => ~(device.tries > 0)
    OBVIOUS
  <2> QED  BY <2>1, Zenon
<1>8. CASE /\ secret # Absent /\ verified /\ p # Absent
           /\ PinProtocol!Reply(wire, TRUE, Rehashed(right, h), Absent)
           /\ chosen' = wire.new /\ platform' = platform
  <2>1. wire.onCurve
    BY <1>8, SecretIs, Zenon
  <2>2. DeviceOK(right) /\ right.key = 0
    BY <1>4, Zenon DEF Kin
  <2>3. PinProtocol!verify(wire.version, secret, Covered(wire), wire.pinAuth) /\ p # Absent
    BY <1>5, <1>8, Zenon
  <2>4. PinProtocol!Reply(wire, TRUE, Rehashed(right, PinProtocol!sha256(p)), Absent)
    BY <1>8, Zenon
  <2>5. secret = PinProtocol!perform_key_agreement(wire) /\ p = PinProtocol!NewPin(wire, secret)
    OBVIOUS
  <2>6. wire.op \in {"set", "change"}
    BY <1>1
  <2> HIDE DEF secret, p, right, verified
  <2> QED  BY <1>8, <2>1, <2>2, <2>3, <2>4, <2>5, <2>6, Served, Zenon
<1> HIDE DEF closed, verified, matches, secret, p, spent, right, failed, h
<1>9. CASE \/ closed /\ PinProtocol!Refuse(wire, device)
           \/ ~closed /\ (secret = Absent \/ ~verified) /\ PinProtocol!Refuse(wire, spent)
           \/ ~closed /\ ~matches /\ PinProtocol!Refuse(wire, failed)
           \/ ~closed /\ p = Absent /\ PinProtocol!Refuse(wire, right)
  <2>1. Judged(wire, device, FALSE, Absent)
    BY <1>1, <1>6, <1>7, <1>9 DEF Judged
  <2>2. PICK after : PinProtocol!Refuse(wire, after) /\ Kin(device, after)
    BY <1>4, <1>9, Zenon
  <2> QED  BY <2>1, <2>2, Refused, Zenon
<1> QED  BY <1>2, <1>8, <1>9, Zenon

LEMMA TokenStep ==
  ASSUME PinProtocol!ConstantsOK, PinInv, wire # Absent, PinProtocol!handle_get_pin_token_common(wire)
  PROVE  PinInv'
<1> DEFINE secret == PinProtocol!perform_key_agreement(wire)
           spent == PinProtocol!take_pin_agreement_key(device)
           counted == PinProtocol!decrement_pin_retries(spent)
           right == PinProtocol!reset_pin_retries(counted)
           failed == PinProtocol!register_pin_failure(counted)
           closed == device.hash = <<>> \/ device.tries = 0 \/ PinProtocol!is_pin_blocked(device)
           matches == PinProtocol!decrypt_pin_hash(wire, secret) = device.hash
           after == PinProtocol!issue_pin_uv_auth_token(right, wire, secret)
           n == 2 * wire.peer
           t == PinProtocol!Token(wire.peer)
           reply == PinProtocol!encrypt(wire.version, secret, n, t)
<1>1. wire.op = "token"
  BY Zenon DEF PinProtocol!handle_get_pin_token_common
<1>2. \/ closed /\ PinProtocol!Refuse(wire, device)
      \/ ~closed /\ secret = Absent /\ PinProtocol!Refuse(wire, spent)
      \/ ~closed /\ ~matches /\ PinProtocol!Refuse(wire, failed)
      \/ /\ ~closed /\ secret # Absent /\ matches /\ PinProtocol!Reply(wire, TRUE, after, reply)
         /\ platform' = [platform EXCEPT !.secret = <<wire.secret, wire.version>>]
         /\ chosen' = chosen
  BY Zenon DEF PinProtocol!handle_get_pin_token_common
<1>3. DeviceOK(device)
  BY Zenon DEF PinInv
<1>4. /\ Kin(device, device) /\ Kin(device, spent) /\ Kin(device, failed) /\ Kin(device, right)
      /\ right.key = 0
  BY <1>3, Afters
<1>5. ASSUME ~wire.spoiled, wire.heard = device.key, device.hash = PinProtocol!sha256(wire.old)
      PROVE  secret # Absent /\ matches
  <2>1. AsMade(wire) /\ wire.onCurve /\ secret = wire.secret
    BY <1>1, <1>5, SecretShared
  <2>2. RequestOK(wire, asks, made) /\ asks \in Nat /\ secret # Absent
    BY <2>1, SecretIs
  <2>3. PinProtocol!decrypt_pin_hash(wire, wire.secret) = PinProtocol!sha256(wire.old)
    BY <1>1, <2>1, <2>2, HashRead
  <2> QED  BY <1>5, <2>1, <2>2, <2>3, Zenon
<1>6. closed => ~(device.tries > 0 /\ ~PinProtocol!is_pin_blocked(device)) \/ device.hash = <<>>
  <2>1. device.tries = 0 => ~(device.tries > 0)
    OBVIOUS
  <2> QED  BY <2>1, Zenon
<1>7. CASE /\ ~closed /\ secret # Absent /\ matches /\ PinProtocol!Reply(wire, TRUE, after, reply)
           /\ platform' = [platform EXCEPT !.secret = <<wire.secret, wire.version>>]
           /\ chosen' = chosen
  <2>1. /\ RequestOK(wire, asks, made) /\ asks \in Nat /\ made \in Nat /\ wire.onCurve
        /\ wire.version \in {1, 2} /\ AgreedPair(<<secret, wire.version>>) /\ Len(secret) = wire.version
        /\ secret = PinProtocol!kdf(wire.version, <<device.key, wire.peer>>)
    BY <1>7, SecretIs, Zenon
  <2>2. chosen \in Seq(Nat) /\ device.hash = PinProtocol!sha256(chosen)
    <3>1. device.hash # <<>>
      BY <1>7, Zenon
    <3>2. chosen \in PinProtocol!ValidPins /\ device.hash = PinProtocol!sha256(chosen)
      BY <3>1, Zenon DEF PinInv, KeptOK
    <3> QED  BY <3>2, ValidPinIs
  <2>3. PinProtocol!decrypt_pin_hash(wire, secret) = PinProtocol!sha256(chosen)
    BY <1>7, <2>2, Zenon
  <2>4. wire.version = Len(wire.secret) /\ wire.heard = device.key /\ secret = wire.secret
    <3> DEFINE key == device.key
    <3>1. secret = PinProtocol!kdf(wire.version, <<key, wire.peer>>)
      BY <2>1
    <3> HIDE DEF secret, key
    <3>2. wire.version = Len(wire.secret) /\ wire.heard = key /\ secret = wire.secret
      BY <1>1, <2>1, <2>2, <2>3, <3>1, HashTells, Zenon
    <3> QED  BY <3>2 DEF key
  <2>5. DeviceOK(after) /\ after.hash = device.hash /\ after.key = 0
    <3> DEFINE s == <<secret, wire.version>>
    <3>1. after = Issued(right, t, s)
      BY Zenon DEF PinProtocol!issue_pin_uv_auth_token, Issued
    <3>2. DeviceOK(right) /\ right.hash = device.hash /\ right.key = 0
      BY <1>4, Zenon DEF Kin
    <3>3. AgreedPair(s)
      BY <2>1
    <3> HIDE DEF after, right, t, s
    <3> QED  BY <3>1, <3>2, <3>3, NewToken
  <2>6. KeptOK(after, chosen')
    <3>1. KeptOK(device, chosen)
      BY Zenon DEF PinInv
    <3> QED  BY <1>7, <2>5, <3>1, Zenon DEF KeptOK
  <2>7. PlatformOK(platform', made)
    <3> DEFINE s == <<wire.secret, wire.version>>
    <3>1. AgreedPair(s)
      BY <2>1, <2>4
    <3>2. PlatformOK(platform, made) /\ platform' = [platform EXCEPT !.secret = s]
      BY <1>7, Zenon DEF PinInv
    <3> HIDE DEF s
    <3>3. /\ platform' = [f \in {"heard", "secret"} |-> platform'[f]]
          /\ platform'.heard = platform.heard /\ platform'.secret = s
      BY <3>2 DEF PlatformOK
    <3> QED  BY <3>1, <3>2, <3>3, Zenon DEF PlatformOK
  <2>8. Judged(wire, device, TRUE, reply)
    <3>1. wire.peer \in Nat /\ n \in Nat
      <4>1. wire.peer \in 1 .. asks
        BY <2>1, Zenon DEF RequestOK
      <4> QED  BY <2>1, <4>1
    <3>2. t \in Seq(Nat) /\ Len(t) % BlockLen = 0
      BY <3>1, TokenIs
    <3> DEFINE v == wire.version
    <3>3. v \in {1, 2} /\ Len(secret) = v
      BY <2>1
    <3> HIDE DEF n, t, v, secret
    <3>4. RoundTripOK(v, secret, n, t)
      BY <3>1, <3>2, <3>3, RoundTrip
    <3>5. PinProtocol!decrypt(wire.version, wire.secret, reply) = t
      BY <2>4, <3>4, Zenon DEF RoundTripOK, v
    <3> HIDE DEF reply
    <3> QED  BY <1>1, <3>5 DEF Judged, t
  <2>9. OnceOK(accepts', wire, after)
    <3>1. OnceOK(accepts, wire, device)
      BY Zenon DEF PinInv
    <3>2. wire.heard \in 1 .. made /\ wire.op # "current"
      BY <1>1, <2>1 DEF RequestOK
    <3> HIDE DEF after, reply, secret, closed, matches
    <3>3. accepts = 0
      BY <2>4, <3>1, <3>2 DEF OnceOK
    <3>4. accepts' = 1
      BY <1>7, <3>3 DEF PinProtocol!Reply
    <3>5. wire.heard # 0
      BY <2>1, <3>2
    <3> QED  BY <2>5, <3>2, <3>4, <3>5 DEF OnceOK
  <2>10. PinProtocol!Reply(wire, TRUE, after, reply)
    BY <1>7, Zenon
  <2> HIDE DEF after, reply
  <2> QED  BY <2>5, <2>6, <2>7, <2>8, <2>9, <2>10, Replied, Zenon
<1> HIDE DEF closed, matches, secret, spent, right, failed, after, reply
<1>8. CASE \/ closed /\ PinProtocol!Refuse(wire, device)
           \/ ~closed /\ secret = Absent /\ PinProtocol!Refuse(wire, spent)
           \/ ~closed /\ ~matches /\ PinProtocol!Refuse(wire, failed)
  <2>1. Judged(wire, device, FALSE, Absent)
    BY <1>1, <1>5, <1>6, <1>8 DEF Judged
  <2>2. PICK e : PinProtocol!Refuse(wire, e) /\ Kin(device, e)
    BY <1>4, <1>8, Zenon
  <2> QED  BY <2>1, <2>2, Refused, Zenon
<1> QED  BY <1>2, <1>7, <1>8, Zenon

LEMMA CurrentStep ==
  ASSUME PinProtocol!ConstantsOK, PinInv, wire # Absent, PinProtocol!verify_current_pin(wire)
  PROVE  PinInv'
<1> DEFINE padded == PinProtocol!decrypt(device.secret[2], device.secret[1], wire.newPinEnc)
           p == IF padded = Absent THEN Absent ELSE PinProtocol!strip_zero_padding(padded)
           spent == [device EXCEPT !.secret = Absent]
<1>1. wire.op = "current"
  BY Zenon DEF PinProtocol!verify_current_pin
<1>2. \/ device.secret = Absent /\ PinProtocol!Refuse(wire, device)
      \/ /\ device.secret # Absent /\ (p = Absent \/ PinProtocol!sha256(p) # device.hash)
         /\ PinProtocol!Refuse(wire, spent)
      \/ /\ device.secret # Absent /\ PinProtocol!Reply(wire, TRUE, spent, Absent)
         /\ platform' = platform /\ chosen' = chosen
  BY Zenon DEF PinProtocol!verify_current_pin
<1>3. DeviceOK(device) /\ KeptOK(device, chosen)
  BY Zenon DEF PinInv
<1>4. Kin(device, spent) /\ spent.secret = Absent
  BY <1>3, SecretSpent
<1>5. Kin(device, device)
  BY <1>3 DEF Kin
<1>6. RequestOK(wire, asks, made) /\ asks \in Nat
  BY SecretIs
<1>7. ~wire.spoiled /\ AsMade(wire) /\ wire.version = Len(wire.secret)
  BY <1>1, <1>6, Zenon DEF RequestOK, AsMade
<1>8. wire.old # Absent
  <2>1. wire.old \in PinProtocol!ValidPins
    BY <1>1, <1>6 DEF RequestOK
  <2>2. wire.old \in Seq(Nat) /\ Absent \notin Seq(Nat)
    BY <2>1, ValidPinIs DEF PinProtocol!ConstantsOK
  <2> QED  BY <2>2
<1>9. ASSUME device.secret = <<wire.secret, wire.version>>, device.hash = PinProtocol!sha256(wire.old)
      PROVE  device.secret # Absent /\ p # Absent /\ PinProtocol!sha256(p) = device.hash
  <2> DEFINE s == wire.secret
             v == wire.version
  <2>1. device.secret # Absent
    <3>1. PICK w \in {1, 2} : AgreedSecret(s, w)
      BY <1>1, <1>6 DEF RequestOK
    <3>2. PICK key \in 0 .. MaxKeys, n \in 0 .. MaxAsks : s = PinProtocol!kdf(w, <<key, n>>)
      BY <3>1 DEF AgreedSecret
    <3>3. KdfOK(w, <<key, n>>, s)
      BY <3>2, KdfIs, Zenon
    <3>4. v = w
      BY <1>7, <3>3, Zenon DEF KdfOK
    <3>5. <<PinProtocol!kdf(w, <<key, n>>), w>> # Absent
      BY DEF PinProtocol!ConstantsOK
    <3> QED  BY <1>9, <3>2, <3>4, <3>5
  <2>2. device.secret[1] = s /\ device.secret[2] = v
    <3> HIDE DEF s, v
    <3>1. device.secret = <<s, v>>
      BY <1>9 DEF s, v
    <3> QED  BY <3>1
  <2>3. LET z == PinProtocol!decrypt(v, s, wire.newPinEnc) IN
        z # Absent /\ PinProtocol!strip_zero_padding(z) = wire.old
    BY <1>1, <1>6, <1>7, PaddedRead
  <2>4. padded = PinProtocol!decrypt(v, s, wire.newPinEnc)
    BY <2>2, Zenon
  <2>5. p = wire.old
    BY <2>3, <2>4, Zenon
  <2> QED  BY <1>8, <1>9, <2>1, <2>5, Zenon
<1>10. CASE /\ device.secret # Absent /\ PinProtocol!Reply(wire, TRUE, spent, Absent)
            /\ platform' = platform /\ chosen' = chosen
  <2> HIDE DEF spent, p
  <2>1. Judged(wire, device, TRUE, Absent)
    BY <1>1, <1>7 DEF Judged
  <2>2. DeviceOK(spent) /\ KeptOK(spent, chosen')
    BY <1>3, <1>4, <1>10, Zenon DEF Kin, KeptOK
  <2>3. PlatformOK(platform', made)
    BY <1>10, Zenon DEF PinInv
  <2>4. OnceOK(accepts', wire, spent)
    <3>1. OnceOK(accepts, wire, device)
      BY Zenon DEF PinInv
    <3>2. accepts = 0
      BY <1>1, <1>10, <3>1 DEF OnceOK
    <3>3. accepts' = 1
      BY <1>10, <3>2 DEF PinProtocol!Reply
    <3> QED  BY <1>1, <1>4, <3>3 DEF OnceOK
  <2> QED  BY <1>10, <2>1, <2>2, <2>3, <2>4, Replied, Zenon
<1> HIDE DEF spent, p
<1>11. CASE \/ device.secret = Absent /\ PinProtocol!Refuse(wire, device)
            \/ /\ device.secret # Absent /\ (p = Absent \/ PinProtocol!sha256(p) # device.hash)
               /\ PinProtocol!Refuse(wire, spent)
  <2>1. ~(device.secret = <<wire.secret, wire.version>> /\ device.hash = PinProtocol!sha256(wire.old))
    BY <1>9, <1>11, Zenon
  <2>2. Judged(wire, device, FALSE, Absent)
    BY <1>1, <2>1 DEF Judged
  <2>3. PICK e : PinProtocol!Refuse(wire, e) /\ Kin(device, e)
    BY <1>4, <1>5, <1>11, Zenon
  <2> QED  BY <2>2, <2>3, Refused, Zenon
<1> QED  BY <1>2, <1>10, <1>11, Zenon

LEMMA PinStart ==
  ASSUME PinProtocol!ConstantsOK, PinProtocol!Init
  PROVE  PinInv
<1>1. /\ chosen = <<>> \/ chosen \in PinProtocol!ValidPins
      /\ device = [PinProtocol!NoDevice EXCEPT
                     !.hash = IF chosen = <<>> THEN <<>> ELSE PinProtocol!sha256(chosen)]
      /\ made = 0 /\ asks = 0 /\ faults = 0 /\ accepts = 0 /\ wire = Absent
      /\ platform = [heard |-> 0, secret |-> Absent] /\ last = PinProtocol!NothingHandled
  BY DEF PinProtocol!Init
<1>2. MaxKeys \in Nat /\ MaxAsks \in Nat /\ MaxFaults \in Nat /\ PIN_MAX_RETRIES \in Nat
  BY DEF PinProtocol!ConstantsOK
<1> DEFINE h == IF chosen = <<>> THEN <<>> ELSE PinProtocol!sha256(chosen)
           d == PinProtocol!NoDevice
<1>3. d = [f \in PinDeviceFields |-> d[f]] /\ d.key = 0 /\ d.tries = PIN_MAX_RETRIES /\ d.fails = 0 /\ d.secret = Absent
  BY DEF PinProtocol!NoDevice, PinDeviceFields
<1>4. device = [d EXCEPT !.hash = h]
  BY <1>1
<1> HIDE DEF d, h
<1>5. /\ device = [f \in PinDeviceFields |-> device[f]] /\ device.key = 0 /\ device.tries = PIN_MAX_RETRIES
      /\ device.fails = 0 /\ device.secret = Absent /\ device.hash = h
  BY <1>3, <1>4 DEF PinDeviceFields
<1>6. DeviceOK(device)
  BY <1>2, <1>5 DEF DeviceOK
<1>7. KeptOK(device, chosen)
  BY <1>1, <1>5 DEF KeptOK, h
<1>8. PlatformOK(platform, made)
  BY <1>1 DEF PlatformOK
<1>9. OnceOK(accepts, wire, device)
  BY <1>1 DEF OnceOK
<1>10. LastOK
  <2>1. last.ok = FALSE /\ last.request.op = "none"
    BY <1>1 DEF PinProtocol!NothingHandled, PinProtocol!NoRequest
  <2> QED  BY <2>1 DEF LastOK, Judged
<1> QED  BY <1>1, <1>2, <1>6, <1>7, <1>8, <1>9, <1>10 DEF PinInv

LEMMA GetKeyStep ==
  ASSUME PinProtocol!ConstantsOK, PinInv, NEW ours \in BOOLEAN, PinProtocol!handle_get_key_agreement(ours)
  PROVE  PinInv'
<1> DEFINE k == made + 1
<1>1. /\ made < MaxKeys /\ made' = k /\ device' = [device EXCEPT !.key = k]
      /\ platform' = IF ours THEN [platform EXCEPT !.heard = k] ELSE platform
      /\ last' = PinProtocol!NothingHandled /\ wire' = wire /\ asks' = asks /\ faults' = faults
      /\ chosen' = chosen /\ accepts' = accepts
  BY DEF PinProtocol!handle_get_key_agreement
<1>2. MaxKeys \in Nat /\ made \in 0 .. MaxKeys
  BY DEF PinProtocol!ConstantsOK, PinInv
<1>3. k \in 1 .. MaxKeys /\ made \in Nat /\ k \in Nat /\ made < k
  BY <1>1, <1>2
<1>4. DeviceOK(device) /\ KeptOK(device, chosen) /\ PlatformOK(platform, made) /\ OnceOK(accepts, wire, device)
  BY Zenon DEF PinInv
<1> HIDE DEF k
<1>5. /\ device' = [f \in PinDeviceFields |-> device'[f]] /\ device'.key = k /\ device'.tries = device.tries
      /\ device'.fails = device.fails /\ device'.secret = device.secret /\ device'.hash = device.hash
  BY <1>1, <1>4 DEF DeviceOK, PinDeviceFields
<1>6. DeviceOK(device')
  BY <1>3, <1>4, <1>5 DEF DeviceOK
<1>7. KeptOK(device', chosen')
  BY <1>1, <1>4, <1>5, Zenon DEF KeptOK
<1>8. PlatformOK(platform', made')
  <2>1. /\ platform' = [f \in {"heard", "secret"} |-> platform'[f]]
        /\ platform'.secret = platform.secret /\ platform'.heard \in {k, platform.heard}
    BY <1>1, <1>4 DEF PlatformOK
  <2>2. platform'.heard \in 0 .. k
    BY <1>3, <1>4, <2>1 DEF PlatformOK
  <2> QED  BY <1>1, <1>4, <2>1, <2>2, Zenon DEF PlatformOK
<1>9. (wire = Absent /\ accepts = 0) \/ (RequestOK(wire, asks, made) /\ RequestOK(wire, asks, k))
  BY <1>3, RequestGrows DEF PinInv
<1>10. OnceOK(accepts', wire', device')
  <2>1. ASSUME accepts = 1, wire.op # "current" PROVE k # wire.heard
    <3>1. wire.heard \in 1 .. made
      BY <1>9, <2>1 DEF RequestOK
    <3> QED  BY <1>3, <3>1
  <2> QED  BY <1>1, <1>4, <1>5, <2>1, Zenon DEF OnceOK
<1>11. LastOK'
  BY <1>1, NothingIs
<1>12. made' \in 0 .. MaxKeys /\ asks' \in 0 .. MaxAsks /\ faults' \in 0 .. MaxFaults
  BY <1>1, <1>3 DEF PinInv
<1> QED  BY <1>1, <1>6, <1>7, <1>8, <1>9, <1>10, <1>11, <1>12, Zenon DEF PinInv

LEMMA PowerStep ==
  ASSUME PinProtocol!ConstantsOK, PinInv, PinProtocol!PowerCycle
  PROVE  PinInv'
<1> DEFINE d == PinProtocol!NoDevice
           h == device.hash
           t == device.tries
<1>1. /\ device' = [d EXCEPT !.hash = h, !.tries = t]
      /\ last' = PinProtocol!NothingHandled /\ wire' = wire /\ asks' = asks /\ faults' = faults
      /\ chosen' = chosen /\ accepts' = accepts /\ made' = made /\ platform' = platform
  BY DEF PinProtocol!PowerCycle
<1>2. d = [f \in PinDeviceFields |-> d[f]] /\ d.key = 0 /\ d.fails = 0 /\ d.secret = Absent
  BY DEF PinProtocol!NoDevice, PinDeviceFields
<1> HIDE DEF d, h, t
<1>3. /\ device' = [f \in PinDeviceFields |-> device'[f]] /\ device'.key = 0 /\ device'.tries = t
      /\ device'.fails = 0 /\ device'.secret = Absent /\ device'.hash = h
  BY <1>1, <1>2 DEF PinDeviceFields
<1>4. DeviceOK(device) /\ KeptOK(device, chosen) /\ PlatformOK(platform, made) /\ OnceOK(accepts, wire, device)
  BY Zenon DEF PinInv
<1>5. MaxKeys \in Nat /\ made \in 0 .. MaxKeys
  BY DEF PinProtocol!ConstantsOK, PinInv
<1>6. DeviceOK(device')
  BY <1>3, <1>4, <1>5 DEF DeviceOK, t
<1>7. KeptOK(device', chosen')
  BY <1>1, <1>3, <1>4, Zenon DEF KeptOK, h
<1>8. OnceOK(accepts', wire', device')
  <2>1. ASSUME accepts = 1, wire.op # "current" PROVE 0 # wire.heard
    <3>1. RequestOK(wire, asks, made)
      BY <2>1 DEF PinInv
    <3>2. wire.heard \in 1 .. made
      BY <2>1, <3>1 DEF RequestOK
    <3> QED  BY <1>5, <3>2
  <2> QED  BY <1>1, <1>3, <1>4, <2>1, Zenon DEF OnceOK
<1>9. LastOK'
  BY <1>1, NothingIs
<1> QED  BY <1>1, <1>4, <1>6, <1>7, <1>8, <1>9, Zenon DEF PinInv

\* A request the platform makes.
LEMMA AskStep ==
  ASSUME PinProtocol!ConstantsOK, PinInv, NEW op \in PinProtocol!Ops, NEW v \in {1, 2}, NEW old, NEW new,
         op # "set" => old \in PinProtocol!ValidPins, op \in {"set", "change"} => new \in Pins,
         PinProtocol!Ask(op, v, old, new)
  PROVE  PinInv'
<1> DEFINE n == asks + 1
           m == PinProtocol!Request(op, v, old, new)
           s == IF op = "current" THEN platform.secret[1] ELSE PinProtocol!kdf(v, <<platform.heard, n>>)
<1>1. /\ asks < MaxAsks /\ asks' = n /\ wire' = m /\ accepts' = 0 /\ last' = PinProtocol!NothingHandled
      /\ device' = device /\ made' = made /\ platform' = platform /\ faults' = faults /\ chosen' = chosen
      /\ IF op = "current" THEN platform.secret # Absent /\ platform.secret[2] = v
         ELSE platform.heard # 0
  BY Zenon DEF PinProtocol!Ask
<1>2. MaxAsks \in Nat /\ asks \in 0 .. MaxAsks /\ MaxKeys \in Nat /\ made \in 0 .. MaxKeys
  BY DEF PinProtocol!ConstantsOK, PinInv
<1>3. n \in 1 .. MaxAsks /\ n \in Nat /\ n \in 1 .. n
  BY <1>1, <1>2
<1>4. PlatformOK(platform, made)
  BY Zenon DEF PinInv
<1>5. Len(s) = v /\ (op = "current" => AgreedSecret(s, v))
  <2>1. CASE op = "current"
    <3>1. AgreedPair(platform.secret)
      BY <1>1, <1>4, <2>1, Zenon DEF PlatformOK
    <3>2. platform.secret[2] = Len(platform.secret[1]) /\ AgreedSecret(platform.secret[1], platform.secret[2])
      BY <3>1, PairIs
    <3> QED  BY <1>1, <2>1, <3>2, Zenon
  <2>2. CASE op # "current"
    <3>1. KdfOK(v, <<platform.heard, n>>, s)
      BY <2>2, KdfIs
    <3> QED  BY <2>2, <3>1, Zenon DEF KdfOK
  <2> QED  BY <2>1, <2>2, Zenon
<1>6. op # "current" => platform.heard \in 1 .. made /\ s = PinProtocol!kdf(v, <<platform.heard, n>>)
  <2>1. op # "current" => platform.heard # 0 /\ platform.heard \in 0 .. made
    BY <1>1, <1>4, Zenon DEF PlatformOK
  <2> QED  BY <1>2, <2>1
<1> DEFINE he == IF op \in {"change", "token"}
                 THEN PinProtocol!encrypt(v, s, 2 * n, PinProtocol!sha256(old)) ELSE <<>>
           pe == IF op = "token" THEN <<>>
                 ELSE PinProtocol!encrypt(v, s, 2 * n + 1,
                        PinProtocol!zero_pad_to_64(IF op = "current" THEN old ELSE new))
           tag == IF op \in {"set", "change"}
                  THEN PinProtocol!authenticate(v, s, pe \o he) ELSE Absent
<1>7. m = [op |-> op, version |-> v, peer |-> n, onCurve |-> TRUE, newPinEnc |-> pe, pinHashEnc |-> he,
           pinAuth |-> tag, heard |-> platform.heard, secret |-> s, old |-> old, new |-> new,
           spoiled |-> FALSE]
  BY Zenon DEF PinProtocol!Request
<1> DEFINE heard == platform.heard
<1> HIDE DEF n, m, s, he, pe, tag, heard
<1>8. m = [op |-> op, version |-> v, peer |-> n, onCurve |-> TRUE, newPinEnc |-> pe, pinHashEnc |-> he,
           pinAuth |-> tag, heard |-> heard, secret |-> s, old |-> old, new |-> new,
           spoiled |-> FALSE]
  BY <1>7 DEF heard
<1>9. m = [f \in RequestFields |-> m[f]]
  BY ONLY <1>8 DEF RequestFields
<1>10. /\ m.op = op /\ m.version = v /\ m.peer = n /\ m.onCurve = TRUE /\ m.newPinEnc = pe
       /\ m.pinHashEnc = he /\ m.pinAuth = tag /\ m.heard = heard /\ m.secret = s /\ m.old = old
       /\ m.new = new /\ m.spoiled = FALSE
  BY ONLY <1>8
<1>11. AsMade(m)
  <2>1. MadeHash(m) = he
    BY <1>5, <1>10, Zenon DEF MadeHash, he
  <2>2. MadePin(m) = pe
    BY <1>5, <1>10, Zenon DEF MadePin, pe
  <2>3. MadeTag(m) = tag
    BY <1>5, <1>10, <2>1, <2>2, Zenon DEF MadeTag, tag
  <2> QED  BY <1>5, <1>10, <2>1, <2>2, <2>3, Zenon DEF AsMade
<1>12. RequestOK(m, n, made)
  <2>1. IF m.op = "current" THEN \E w \in {1, 2} : AgreedSecret(m.secret, w)
        ELSE /\ m.heard \in 1 .. made
             /\ \E w \in {1, 2} : m.secret = PinProtocol!kdf(w, <<m.heard, m.peer>>)
    BY <1>5, <1>6, <1>10, Zenon DEF heard
  <2>2. m.op \in PinProtocol!Ops /\ m.peer \in 1 .. n
    BY <1>3, <1>10, Zenon
  <2> QED  BY <1>9, <1>10, <1>11, <2>1, <2>2, Zenon DEF RequestOK
<1>13. n \in 0 .. MaxAsks
  BY <1>2, <1>3
<1>14. LastOK'
  BY <1>1, NothingIs
<1>15. OnceOK(accepts', wire', device')
  BY <1>1 DEF OnceOK
<1> QED  BY <1>1, <1>12, <1>13, <1>14, <1>15, Zenon DEF PinInv

\* What a fault on the way leaves of a request.
SameMake(x, m) ==
  /\ x = [f \in RequestFields |-> x[f]]
  /\ x.op = m.op /\ x.peer = m.peer /\ x.heard = m.heard /\ x.secret = m.secret
  /\ x.old = m.old /\ x.new = m.new
Differs(x, m) ==
  \/ x.onCurve = FALSE
  \/ /\ x.version = 3 - m.version /\ x.newPinEnc = m.newPinEnc /\ x.pinHashEnc = m.pinHashEnc
     /\ x.pinAuth = m.pinAuth
  \/ /\ m.pinHashEnc # <<>> /\ x.version = m.version /\ x.newPinEnc = m.newPinEnc
     /\ x.pinAuth = m.pinAuth
     /\ \E b \in {PinProtocol!Stub, PinProtocol!Iv(0)} : x.pinHashEnc = Append(m.pinHashEnc, b)
  \/ /\ m.newPinEnc # <<>> /\ x.version = m.version /\ x.pinHashEnc = m.pinHashEnc
     /\ x.pinAuth = m.pinAuth
     /\ x.newPinEnc \in {AllButLast(m.newPinEnc), Tail(m.newPinEnc)}
  \/ /\ m.pinAuth # Absent /\ x.version = m.version /\ x.newPinEnc = m.newPinEnc
     /\ x.pinHashEnc = m.pinHashEnc
     /\ \E e : x.pinAuth = [e EXCEPT !.len = 48 - e.len] /\ e = m.pinAuth

LEMMA ChangedIs ==
  ASSUME NEW m, m = [f \in RequestFields |-> m[f]], NEW x \in PinProtocol!Changed(m)
  PROVE  SameMake(x, m) /\ Differs(x, m)
<1>1. \/ x = [m EXCEPT !.onCurve = FALSE]
      \/ x = [m EXCEPT !.version = 3 - m.version]
      \/ /\ m.pinHashEnc # <<>>
         /\ \E b \in {PinProtocol!Stub, PinProtocol!Iv(0)} :
              x = [m EXCEPT !.pinHashEnc = Append(m.pinHashEnc, b)]
      \/ /\ m.newPinEnc # <<>>
         /\ \E q \in {AllButLast(m.newPinEnc), Tail(m.newPinEnc)} : x = [m EXCEPT !.newPinEnc = q]
      \/ m.pinAuth # Absent /\ x = [m EXCEPT !.pinAuth = [m.pinAuth EXCEPT !.len = 48 - m.pinAuth.len]]
  BY ONLY x \in PinProtocol!Changed(m), Zenon DEF PinProtocol!Changed, AllButLast
<1>2. CASE x = [m EXCEPT !.onCurve = FALSE]
  <2>1. SameMake(x, m) /\ x.onCurve = FALSE
    BY <1>2 DEF SameMake, RequestFields
  <2> QED  BY <2>1, Zenon DEF Differs
<1>3. CASE x = [m EXCEPT !.version = 3 - m.version]
  <2> DEFINE e == 3 - m.version
  <2>1. x = [m EXCEPT !.version = e]
    BY <1>3
  <2> HIDE DEF e
  <2>2. SameMake(x, m)
    BY <2>1 DEF SameMake, RequestFields
  <2>3. x.version = e /\ x.newPinEnc = m.newPinEnc /\ x.pinHashEnc = m.pinHashEnc /\ x.pinAuth = m.pinAuth
    BY <2>1 DEF RequestFields
  <2> QED  BY <2>2, <2>3, Zenon DEF Differs, e
<1>4. CASE /\ m.pinHashEnc # <<>>
           /\ \E b \in {PinProtocol!Stub, PinProtocol!Iv(0)} :
                x = [m EXCEPT !.pinHashEnc = Append(m.pinHashEnc, b)]
  <2>1. PICK b \in {PinProtocol!Stub, PinProtocol!Iv(0)} : x = [m EXCEPT !.pinHashEnc = Append(m.pinHashEnc, b)]
    BY <1>4, Zenon
  <2> DEFINE e == Append(m.pinHashEnc, b)
  <2>2. x = [m EXCEPT !.pinHashEnc = e]
    BY <2>1
  <2> HIDE DEF e
  <2>3. SameMake(x, m)
    BY ONLY m = [f \in RequestFields |-> m[f]], <2>2 DEF SameMake, RequestFields
  <2>4. x.version = m.version /\ x.newPinEnc = m.newPinEnc /\ x.pinHashEnc = e /\ x.pinAuth = m.pinAuth
    BY ONLY m = [f \in RequestFields |-> m[f]], <2>2 DEF RequestFields
  <2> QED  BY <1>4, <2>3, <2>4, Zenon DEF Differs, e
<1>5. CASE /\ m.newPinEnc # <<>>
           /\ \E q \in {AllButLast(m.newPinEnc), Tail(m.newPinEnc)} : x = [m EXCEPT !.newPinEnc = q]
  <2>1. PICK q \in {AllButLast(m.newPinEnc), Tail(m.newPinEnc)} : x = [m EXCEPT !.newPinEnc = q]
    BY <1>5, Zenon
  <2>2. SameMake(x, m)
    BY ONLY m = [f \in RequestFields |-> m[f]], <2>1 DEF SameMake, RequestFields
  <2>3. x.version = m.version /\ x.newPinEnc = q /\ x.pinHashEnc = m.pinHashEnc /\ x.pinAuth = m.pinAuth
    BY ONLY m = [f \in RequestFields |-> m[f]], <2>1 DEF RequestFields
  <2> QED  BY <1>5, <2>2, <2>3, Zenon DEF Differs
<1>6. CASE m.pinAuth # Absent /\ x = [m EXCEPT !.pinAuth = [m.pinAuth EXCEPT !.len = 48 - m.pinAuth.len]]
  <2> DEFINE e == [m.pinAuth EXCEPT !.len = 48 - m.pinAuth.len]
  <2>1. x = [m EXCEPT !.pinAuth = e]
    BY <1>6, Zenon
  <2> HIDE DEF e
  <2>2. SameMake(x, m)
    BY ONLY m = [f \in RequestFields |-> m[f]], <2>1 DEF SameMake, RequestFields
  <2>3. x.version = m.version /\ x.newPinEnc = m.newPinEnc /\ x.pinHashEnc = m.pinHashEnc /\ x.pinAuth = e
    BY ONLY m = [f \in RequestFields |-> m[f]], <2>1 DEF RequestFields
  <2> QED  BY <1>6, <2>2, <2>3, Zenon DEF Differs, e
<1> QED  BY ONLY <1>1, <1>2, <1>3, <1>4, <1>5, <1>6, Zenon

LEMMA FaultStep ==
  ASSUME PinProtocol!ConstantsOK, PinInv, PinProtocol!Change
  PROVE  PinInv'
<1>1. /\ wire # Absent /\ ~wire.spoiled /\ wire.op # "current" /\ faults < MaxFaults
      /\ faults' = faults + 1 /\ last' = PinProtocol!NothingHandled
      /\ device' = device /\ made' = made /\ platform' = platform /\ asks' = asks
      /\ chosen' = chosen /\ accepts' = accepts
  BY Zenon DEF PinProtocol!Change
<1>2. PICK y \in PinProtocol!Changed(wire) : wire' = [y EXCEPT !.spoiled = TRUE]
  BY Zenon DEF PinProtocol!Change
<1> DEFINE x == wire'
           v == Len(wire.secret)
<1>3. RequestOK(wire, asks, made) /\ asks \in Nat
  BY <1>1, SecretIs
<1>4. AsMade(wire)
  BY <1>1, <1>3, Zenon DEF RequestOK
<1>5. SameMake(y, wire) /\ Differs(y, wire)
  BY <1>3, ChangedIs DEF RequestOK
<1>6. /\ SameMake(x, wire) /\ x.spoiled = TRUE /\ x.onCurve = y.onCurve /\ x.version = y.version
      /\ x.newPinEnc = y.newPinEnc /\ x.pinHashEnc = y.pinHashEnc /\ x.pinAuth = y.pinAuth
  BY ONLY <1>2, <1>5 DEF SameMake, RequestFields
<1> HIDE DEF x
<1>7. MadeHash(x) = MadeHash(wire)
  BY <1>6, Zenon DEF MadeHash, SameMake
<1>8. MadePin(x) = MadePin(wire)
  BY <1>6, Zenon DEF MadePin, SameMake
<1>9. MadeTag(x) = MadeTag(wire)
  BY <1>6, <1>7, <1>8, Zenon DEF MadeTag, SameMake
<1>10. Len(x.secret) = v /\ x.op = wire.op /\ v \in {1, 2}
  <2>1. x.secret = wire.secret /\ x.op = wire.op
    BY <1>6, Zenon DEF SameMake
  <2> QED  BY <1>3, <2>1, RequestSecret
<1>11. /\ wire.version = v /\ wire.newPinEnc = MadePin(wire) /\ wire.pinHashEnc = MadeHash(wire)
       /\ wire.pinAuth = MadeTag(wire)
  BY <1>4, Zenon DEF AsMade
<1>12. Altered(x)
  <2>1. CASE y.onCurve = FALSE
    BY <1>6, <2>1 DEF Altered, AlteredKey
  <2>2. CASE /\ y.version = 3 - wire.version /\ y.newPinEnc = wire.newPinEnc
             /\ y.pinHashEnc = wire.pinHashEnc /\ y.pinAuth = wire.pinAuth
    <3>1. AlteredVersion(x)
      BY <1>6, <1>7, <1>8, <1>9, <1>10, <1>11, <2>2, Zenon DEF AlteredVersion
    <3> QED  BY <3>1, Zenon DEF Altered
  <2>3. CASE /\ wire.pinHashEnc # <<>> /\ y.version = wire.version /\ y.newPinEnc = wire.newPinEnc
             /\ y.pinAuth = wire.pinAuth
             /\ \E b \in {PinProtocol!Stub, PinProtocol!Iv(0)} : y.pinHashEnc = Append(wire.pinHashEnc, b)
    <3>1. AlteredHash(x)
      BY <1>6, <1>7, <1>8, <1>9, <1>10, <1>11, <2>3, Zenon DEF AlteredHash
    <3> QED  BY <3>1, Zenon DEF Altered
  <2>4. CASE /\ wire.newPinEnc # <<>> /\ y.version = wire.version /\ y.pinHashEnc = wire.pinHashEnc
             /\ y.pinAuth = wire.pinAuth
             /\ y.newPinEnc \in {AllButLast(wire.newPinEnc), Tail(wire.newPinEnc)}
    <3>1. AlteredPin(x)
      BY <1>6, <1>7, <1>8, <1>9, <1>10, <1>11, <2>4, Zenon DEF AlteredPin
    <3> QED  BY <3>1, Zenon DEF Altered
  <2>5. CASE /\ wire.pinAuth # Absent /\ y.version = wire.version /\ y.newPinEnc = wire.newPinEnc
             /\ y.pinHashEnc = wire.pinHashEnc
             /\ \E e : y.pinAuth = [e EXCEPT !.len = 48 - e.len] /\ e = wire.pinAuth
    <3> DEFINE t == MadeTag(wire)
    <3>1. ASSUME wire.op \in {"set", "change"} PROVE x.pinAuth.len # t.len
      <4>1. t.len = IF v = 1 THEN 16 ELSE 32
        BY <3>1 DEF MadeTag, PinProtocol!authenticate
      <4>2. DOMAIN t = {"k", "message", "len"}
        BY <3>1 DEF MadeTag, PinProtocol!authenticate
      <4>3. x.pinAuth = [t EXCEPT !.len = 48 - t.len]
        BY <1>6, <1>11, <2>5, Zenon
      <4> HIDE DEF t, v
      <4>4. x.pinAuth.len = 48 - t.len
        BY ONLY <4>2, <4>3
      <4> QED  BY <4>1, <4>4
    <3>2. AlteredTag(x)
      BY <1>6, <1>7, <1>8, <1>9, <1>10, <1>11, <2>5, <3>1, Zenon DEF AlteredTag
    <3> QED  BY <3>2, Zenon DEF Altered
  <2> QED  BY <1>5, <2>1, <2>2, <2>3, <2>4, <2>5, Zenon DEF Differs
<1>13. RequestOK(x, asks, made)
  BY <1>1, <1>3, <1>6, <1>12, Zenon DEF RequestOK, SameMake
<1>14. OnceOK(accepts', wire', device')
  <2>1. OnceOK(accepts, wire, device)
    BY Zenon DEF PinInv
  <2> QED  BY <1>1, <1>6, <2>1, Zenon DEF OnceOK, SameMake, x
<1>15. LastOK'
  BY <1>1, NothingIs
<1>16. faults' \in 0 .. MaxFaults
  BY <1>1 DEF PinInv, PinProtocol!ConstantsOK
<1> QED  BY <1>1, <1>13, <1>14, <1>15, <1>16, Zenon DEF PinInv, x

LEMMA PinStep ==
  ASSUME PinProtocol!ConstantsOK, PinInv, PinProtocol!Next
  PROVE  PinInv'
<1>1. ASSUME NEW ours \in BOOLEAN, PinProtocol!handle_get_key_agreement(ours) PROVE PinInv'
  BY <1>1, GetKeyStep
<1>2. ASSUME NEW v \in {1, 2}, NEW new \in Pins, PinProtocol!Ask("set", v, <<>>, new) PROVE PinInv'
  <2>1. "set" \in PinProtocol!Ops /\ ~("set" # "set")
    BY DEF PinProtocol!Ops
  <2> QED  BY <1>2, <2>1, AskStep, Zenon
<1>3. ASSUME NEW v \in {1, 2}, NEW old \in PinProtocol!ValidPins, NEW new \in Pins,
             PinProtocol!Ask("change", v, old, new)
      PROVE  PinInv'
  <2>1. "change" \in PinProtocol!Ops
    BY DEF PinProtocol!Ops
  <2> QED  BY <1>3, <2>1, AskStep, Zenon
<1>4. ASSUME NEW v \in {1, 2}, NEW old \in PinProtocol!ValidPins, NEW op \in {"token", "current"},
             PinProtocol!Ask(op, v, old, <<>>)
      PROVE  PinInv'
  <2>1. op \in PinProtocol!Ops /\ op \notin {"set", "change"}
    BY DEF PinProtocol!Ops
  <2> QED  BY <1>4, <2>1, AskStep, Zenon
<1>5. CASE PinProtocol!Change
  BY <1>5, FaultStep
<1>6. CASE PinProtocol!Deliver
  BY <1>6, SetStep, ChangePinStep, TokenStep, CurrentStep, Zenon DEF PinProtocol!Deliver
<1>7. CASE PinProtocol!PowerCycle
  BY <1>7, PowerStep
<1> QED  BY <1>1, <1>2, <1>3, <1>4, <1>5, <1>6, <1>7, Zenon DEF PinProtocol!Next

LEMMA PinStutters ==
  ASSUME PinInv, UNCHANGED PinProtocol!vars
  PROVE  PinInv'
<1>1. /\ device' = device /\ made' = made /\ platform' = platform /\ wire' = wire /\ asks' = asks
      /\ faults' = faults /\ last' = last /\ chosen' = chosen /\ accepts' = accepts
  BY DEF PinProtocol!vars
<1> QED  BY <1>1, Zenon DEF PinInv, LastOK

\* For any PINs, lengths of blocks and pad, and number of keys, requests and faults: the PIN
\* the device keeps is the one typed, from an unchanged request made for the key announced
\* last (handle_set_pin, handle_change_pin); an unchanged request with the right PIN is
\* served, and the token it brings is read (decrypt_pin_hash, issue_pin_uv_auth_token); no
\* request is served twice (take_pin_agreement_key, verify_current_pin).
THEOREM PinsAreAsTyped == MCSpec => []PinAsTyped
<1> DEFINE I == part = "protocol" => PinInv
<1>1. PinProtocol!ConstantsOK
  BY Constants
<1>2. MCInit => I
  BY <1>1, PinStart DEF MCInit
<1>3. I /\ [MCNext]_allvars => I'
  <2> SUFFICES ASSUME I, [MCNext]_allvars, part' = "protocol" PROVE PinInv'
    OBVIOUS
  <2>1. part = "protocol" /\ (PinProtocol!Next \/ UNCHANGED PinProtocol!vars)
    BY DEF MCNext, allvars, PinProtocol!vars
  <2> QED  BY <1>1, <2>1, PinStep, PinStutters
<1>4. I => PinAsTyped
  <2> SUFFICES ASSUME part = "protocol", PinInv PROVE PinAsTyped
    BY Zenon DEF PinAsTyped
  <2> QED  BY <1>1, PinInvGives
<1> QED  BY <1>2, <1>3, <1>4, PTL DEF MCSpec

=============================================================================
