------------------------------ MODULE MCWire ------------------------------
(***************************************************************************)
(* What crosses the wire: the labels of CTAP messages, clientPIN requests, *)
(* authorized sub-commands, the PIN protocols' encryption, COSE keys and   *)
(* signatures, APDUs with their TLVs; what a board and its profile make    *)
(* the device announce; and the transports under MultiTransport.  The part *)
(* is chosen at the start, lives in the variables it has in its module,    *)
(* and leaves the others alone.                                            *)
(***************************************************************************)
EXTENDS Integers, Sequences, TLC

CONSTANTS Absent, Nothing,
          Params, MaxChanges,                                       \* AuthMessage
          Pins, BlockLen, PadLen, PIN_MIN_LENGTH, PIN_MAX_LENGTH,   \* PinProtocol
          PIN_MAX_RETRIES, PIN_BLOCK_THRESHOLD, MaxKeys, MaxAsks, MaxFaults,
          Offers, MaxUpdates,                                       \* CoseKeys
          Products, Configs, MaxCalls,                              \* Device
          Kinds, MaxLen, MaxMsgs, LinkFaults                        \* Links

VARIABLES part, sent, wire, got, liberties, dropped, asked, faults, token, issued, meant,
          command, done, changes, device, made, platform, asks, last, chosen, accepts,
          rs256, updates, offered, credential, registered, assertion, listed, raw, legacy,
          damage, read, stage, board, builder, profile, pin, pressed, calls, own, links,
          host, severed, waiting, begun

allvars == <<part, sent, wire, got, liberties, dropped, asked, faults, token, issued, meant,
          command, done, changes, device, made, platform, asks, last, chosen, accepts,
          rs256, updates, offered, credential, registered, assertion, listed, raw, legacy,
          damage, read, stage, board, builder, profile, pin, pressed, calls, own, links,
          host, severed, waiting, begun>>

\* Every message but LargeBlobsRequest, whose labels are in no table, is read back.
Messages == {"MakeCredentialRequest", "GetAssertionRequest", "MakeCredentialResponse",
             "GetAssertionResponse", "GetInfoResponse", "BioEnrollRequest", "BioEnrollResponse",
             "EnumerateRPsResponse", "CredentialManagementRequest", "CredsMetadataResponse",
             "EnumerateRpsEntryResponse", "EnumerateCredentialsEntryResponse"}

CtapKeys == INSTANCE CtapKeys WITH None <- Absent, Types <- Messages \cup {"LargeBlobsRequest"},
                ReadBack <- Messages, MaxForeign <- 2
PinWire == INSTANCE PinWire WITH None <- Absent, MaxFaults <- 2
AuthMessage == INSTANCE AuthMessage WITH None <- Absent
PinProtocol == INSTANCE PinProtocol WITH None <- Absent
CoseKeys == INSTANCE CoseKeys WITH None <- Absent
\* Bytes of base 4: a length of 5 already needs the extended form.
Apdu == INSTANCE Apdu WITH None <- Absent, Base <- 4, MaxData <- 5, Tags <- {1, 2}, MaxCert <- 4,
                MaxDamage <- 2
Boards == INSTANCE Boards
Device == INSTANCE Device WITH None <- Absent
Links == INSTANCE Links WITH None <- Absent, torn <- severed, MaxFaults <- LinkFaults

ASSUME Constants == /\ CtapKeys!ConstantsOK /\ PinWire!ConstantsOK /\ AuthMessage!ConstantsOK
                    /\ PinProtocol!ConstantsOK /\ CoseKeys!ConstantsOK /\ Apdu!ConstantsOK
                    /\ Device!ConstantsOK /\ Links!ConstantsOK

\* The values of the run.  Two blocks to a pad: PINs that are too short, that end the
\* first block's hash with a zero, and that fill the pad.
MCPins == {<<1>>, <<1, 2>>, <<1, 0, 2>>, <<1, 2, 1, 2>>}
MCOffers == UNION {[1..n -> {-7, -8, -35, -37, -257, -65535}] : n \in 0..2}
MCProducts == {Boards!GENERIC, Boards!STM32L4, Boards!RP2350, Boards!RP2350_ZERO,
               Boards!YUBIKEY_4_5}
\* A stub comes last: MultiTransport::init stops at it, and recv passes it over.
MCKinds == <<"ble", "hid", "nfc", "stub">>

MCInit ==
    \/ /\ part = "keys" /\ CtapKeys!Init
       /\ asked = Absent /\ faults = Absent /\ token = Absent /\ issued = Absent /\ meant = Absent
       /\ command = Absent /\ done = Absent /\ changes = Absent /\ device = Absent /\ made = Absent
       /\ platform = Absent /\ asks = Absent /\ last = Absent /\ chosen = Absent /\ accepts = Absent
       /\ rs256 = Absent /\ updates = Absent /\ offered = Absent /\ credential = Absent
       /\ registered = Absent /\ assertion = Absent /\ listed = Absent /\ raw = Absent
       /\ legacy = Absent /\ damage = Absent /\ read = Absent /\ stage = Absent /\ board = Absent
       /\ builder = Absent /\ profile = Absent /\ pin = Absent /\ pressed = Absent /\ calls = Absent
       /\ own = Absent /\ links = Absent /\ host = Absent /\ severed = Absent /\ waiting = Absent
       /\ begun = Absent
    \/ /\ part = "pin" /\ PinWire!Init
       /\ sent = Absent /\ liberties = Absent /\ dropped = Absent /\ token = Absent
       /\ issued = Absent /\ meant = Absent /\ command = Absent /\ done = Absent /\ changes = Absent
       /\ device = Absent /\ made = Absent /\ platform = Absent /\ asks = Absent /\ last = Absent
       /\ chosen = Absent /\ accepts = Absent /\ rs256 = Absent /\ updates = Absent
       /\ offered = Absent /\ credential = Absent /\ registered = Absent /\ assertion = Absent
       /\ listed = Absent /\ raw = Absent /\ legacy = Absent /\ damage = Absent /\ read = Absent
       /\ stage = Absent /\ board = Absent /\ builder = Absent /\ profile = Absent /\ pin = Absent
       /\ pressed = Absent /\ calls = Absent /\ own = Absent /\ links = Absent /\ host = Absent
       /\ severed = Absent /\ waiting = Absent /\ begun = Absent
    \/ /\ part = "authorized" /\ AuthMessage!Init
       /\ sent = Absent /\ got = Absent /\ liberties = Absent /\ dropped = Absent /\ asked = Absent
       /\ faults = Absent /\ device = Absent /\ made = Absent /\ platform = Absent /\ asks = Absent
       /\ last = Absent /\ chosen = Absent /\ accepts = Absent /\ rs256 = Absent /\ updates = Absent
       /\ offered = Absent /\ credential = Absent /\ registered = Absent /\ assertion = Absent
       /\ listed = Absent /\ raw = Absent /\ legacy = Absent /\ damage = Absent /\ read = Absent
       /\ stage = Absent /\ board = Absent /\ builder = Absent /\ profile = Absent /\ pin = Absent
       /\ pressed = Absent /\ calls = Absent /\ own = Absent /\ links = Absent /\ host = Absent
       /\ severed = Absent /\ waiting = Absent /\ begun = Absent
    \/ /\ part = "protocol" /\ PinProtocol!Init
       /\ sent = Absent /\ got = Absent /\ liberties = Absent /\ dropped = Absent /\ asked = Absent
       /\ token = Absent /\ issued = Absent /\ meant = Absent /\ command = Absent /\ done = Absent
       /\ changes = Absent /\ rs256 = Absent /\ updates = Absent /\ offered = Absent
       /\ credential = Absent /\ registered = Absent /\ assertion = Absent /\ listed = Absent
       /\ raw = Absent /\ legacy = Absent /\ damage = Absent /\ read = Absent /\ stage = Absent
       /\ board = Absent /\ builder = Absent /\ profile = Absent /\ pin = Absent /\ pressed = Absent
       /\ calls = Absent /\ own = Absent /\ links = Absent /\ host = Absent /\ severed = Absent
       /\ waiting = Absent /\ begun = Absent
    \/ /\ part = "cose" /\ CoseKeys!Init
       /\ sent = Absent /\ wire = Absent /\ got = Absent /\ liberties = Absent /\ dropped = Absent
       /\ asked = Absent /\ faults = Absent /\ token = Absent /\ issued = Absent /\ meant = Absent
       /\ command = Absent /\ done = Absent /\ changes = Absent /\ device = Absent /\ made = Absent
       /\ platform = Absent /\ asks = Absent /\ last = Absent /\ chosen = Absent /\ accepts = Absent
       /\ raw = Absent /\ legacy = Absent /\ damage = Absent /\ read = Absent /\ stage = Absent
       /\ board = Absent /\ builder = Absent /\ profile = Absent /\ pin = Absent /\ pressed = Absent
       /\ calls = Absent /\ own = Absent /\ links = Absent /\ host = Absent /\ severed = Absent
       /\ waiting = Absent /\ begun = Absent
    \/ /\ part = "apdu" /\ Apdu!Init
       /\ wire = Absent /\ liberties = Absent /\ dropped = Absent /\ asked = Absent
       /\ faults = Absent /\ token = Absent /\ issued = Absent /\ meant = Absent /\ command = Absent
       /\ done = Absent /\ changes = Absent /\ device = Absent /\ made = Absent /\ platform = Absent
       /\ asks = Absent /\ last = Absent /\ chosen = Absent /\ accepts = Absent /\ rs256 = Absent
       /\ updates = Absent /\ offered = Absent /\ credential = Absent /\ registered = Absent
       /\ assertion = Absent /\ listed = Absent /\ stage = Absent /\ board = Absent
       /\ builder = Absent /\ profile = Absent /\ pin = Absent /\ pressed = Absent /\ calls = Absent
       /\ own = Absent /\ links = Absent /\ host = Absent /\ severed = Absent /\ waiting = Absent
       /\ begun = Absent
    \/ /\ part = "device" /\ Device!Init
       /\ sent = Absent /\ wire = Absent /\ got = Absent /\ liberties = Absent /\ dropped = Absent
       /\ asked = Absent /\ faults = Absent /\ token = Absent /\ issued = Absent /\ meant = Absent
       /\ command = Absent /\ done = Absent /\ changes = Absent /\ platform = Absent /\ asks = Absent
       /\ last = Absent /\ chosen = Absent /\ accepts = Absent /\ rs256 = Absent /\ updates = Absent
       /\ offered = Absent /\ credential = Absent /\ registered = Absent /\ assertion = Absent
       /\ raw = Absent /\ legacy = Absent /\ damage = Absent /\ read = Absent /\ links = Absent
       /\ host = Absent /\ severed = Absent /\ waiting = Absent /\ begun = Absent
    \/ /\ part = "links" /\ Links!Init
       /\ sent = Absent /\ wire = Absent /\ liberties = Absent /\ dropped = Absent /\ asked = Absent
       /\ token = Absent /\ issued = Absent /\ meant = Absent /\ command = Absent /\ done = Absent
       /\ changes = Absent /\ device = Absent /\ made = Absent /\ platform = Absent /\ asks = Absent
       /\ last = Absent /\ chosen = Absent /\ accepts = Absent /\ rs256 = Absent /\ updates = Absent
       /\ offered = Absent /\ credential = Absent /\ registered = Absent /\ assertion = Absent
       /\ listed = Absent /\ raw = Absent /\ legacy = Absent /\ damage = Absent /\ read = Absent
       /\ stage = Absent /\ board = Absent /\ builder = Absent /\ profile = Absent /\ pin = Absent
       /\ pressed = Absent /\ calls = Absent /\ own = Absent

MCNext ==
    \/ /\ part = "keys" /\ CtapKeys!Next
       /\ UNCHANGED <<part, asked, faults, token, issued, meant, command, done, changes,
                       device, made, platform, asks, last, chosen, accepts, rs256, updates,
                       offered, credential, registered, assertion, listed, raw, legacy,
                       damage, read, stage, board, builder, profile, pin, pressed, calls,
                       own, links, host, severed, waiting, begun>>
    \/ /\ part = "pin" /\ PinWire!Next
       /\ UNCHANGED <<part, sent, liberties, dropped, token, issued, meant, command, done,
                       changes, device, made, platform, asks, last, chosen, accepts, rs256,
                       updates, offered, credential, registered, assertion, listed, raw,
                       legacy, damage, read, stage, board, builder, profile, pin, pressed,
                       calls, own, links, host, severed, waiting, begun>>
    \/ /\ part = "authorized" /\ AuthMessage!Next
       /\ UNCHANGED <<part, sent, got, liberties, dropped, asked, faults, device, made,
                       platform, asks, last, chosen, accepts, rs256, updates, offered,
                       credential, registered, assertion, listed, raw, legacy, damage,
                       read, stage, board, builder, profile, pin, pressed, calls, own,
                       links, host, severed, waiting, begun>>
    \/ /\ part = "protocol" /\ PinProtocol!Next
       /\ UNCHANGED <<part, sent, got, liberties, dropped, asked, token, issued, meant,
                       command, done, changes, rs256, updates, offered, credential,
                       registered, assertion, listed, raw, legacy, damage, read, stage,
                       board, builder, profile, pin, pressed, calls, own, links, host,
                       severed, waiting, begun>>
    \/ /\ part = "cose" /\ CoseKeys!Next
       /\ UNCHANGED <<part, sent, wire, got, liberties, dropped, asked, faults, token,
                       issued, meant, command, done, changes, device, made, platform, asks,
                       last, chosen, accepts, raw, legacy, damage, read, stage, board,
                       builder, profile, pin, pressed, calls, own, links, host, severed,
                       waiting, begun>>
    \/ /\ part = "apdu" /\ Apdu!Next
       /\ UNCHANGED <<part, wire, liberties, dropped, asked, faults, token, issued, meant,
                       command, done, changes, device, made, platform, asks, last, chosen,
                       accepts, rs256, updates, offered, credential, registered, assertion,
                       listed, stage, board, builder, profile, pin, pressed, calls, own,
                       links, host, severed, waiting, begun>>
    \/ /\ part = "device" /\ Device!Next
       /\ UNCHANGED <<part, sent, wire, got, liberties, dropped, asked, faults, token,
                       issued, meant, command, done, changes, platform, asks, last, chosen,
                       accepts, rs256, updates, offered, credential, registered, assertion,
                       raw, legacy, damage, read, links, host, severed, waiting, begun>>
    \/ /\ part = "links" /\ Links!Next
       /\ UNCHANGED <<part, sent, wire, liberties, dropped, asked, token, issued, meant,
                       command, done, changes, device, made, platform, asks, last, chosen,
                       accepts, rs256, updates, offered, credential, registered, assertion,
                       listed, raw, legacy, damage, read, stage, board, builder, profile,
                       pin, pressed, calls, own>>

MCSpec == MCInit /\ [][MCNext]_allvars

----------------------------------------------------------------------------
(* The properties of each part's module, of the part that runs. *)

\* CTAP messages: what is sent is canonical CBOR (canonicalize_cbor), is read back by the
\* tables of the other direction, and lands in no field it was not sent in; a map and an
\* array of a clientPIN request are understood alike and no item takes the place of
\* another (decode_client_pin_request).
ReadsBack ==
    /\ part = "keys" => /\ CtapKeys!TypeOK /\ CtapKeys!WireCanonical
                        /\ CtapKeys!ReadsBack /\ CtapKeys!NeverMistaken
    /\ part = "pin" => PinWire!TypeOK /\ PinWire!FormsAgree /\ PinWire!NeverShifted

\* Requests with a pinUvAuthParam: the sub-command carried out is the one the platform's
\* MAC covers, and one that arrives unchanged is carried out (authnr_config_auth_message,
\* decode_cred_mgmt).
DoneAsAuthorized ==
    part = "authorized" => /\ AuthMessage!TypeOK /\ AuthMessage!DoneAsAuthorized
                           /\ AuthMessage!AuthorizedIsDone

\* PIN protocols: the PIN kept is the PIN typed (handle_set_pin, handle_change_pin), the
\* right PIN is served whatever bytes it and its hash have (decrypt_pin_hash), and a
\* request that arrives twice is served once (take_pin_agreement_key).
PinAsTyped ==
    part = "protocol" => /\ PinProtocol!TypeOK /\ PinProtocol!PinAsTyped
                         /\ PinProtocol!RightPinServed /\ PinProtocol!ServedOnce

\* COSE: an assertion verifies under the registered key (the signature by algorithm), the
\* relying party's first supported choice is taken (selected_alg), and
\* enumerateCredentials reports the registered key (cose_key_value).
AssertionVerifies ==
    part = "cose" => /\ CoseKeys!TypeOK /\ CoseKeys!AssertionVerifies
                     /\ CoseKeys!PreferredAlgorithm /\ CoseKeys!ListedAsRegistered

\* APDU: every form of a command is read as that command and nothing is ignored
\* (Apdu::parse), the two parsers agree on short forms (ApduCommand::parse), each TLV is
\* used once (take_tag), and a certificate is stored as sent (parse_put_data).
CommandAsSent ==
    part = "apdu" => /\ Apdu!TypeOK /\ Apdu!CommandAsSent /\ Apdu!ParsersAgree
                     /\ Apdu!TlvsReadOnce /\ Apdu!CertificateAsSent

\* Device: built-in verification answers exactly when it is announced (get_info), a token
\* has a permission only for an announced feature (validate_permissions), a BOOTSEL board
\* left alone asks for the button (set_board_user_presence), and every configured
\* transport is driven once (add_transport).
AsAnnounced ==
    part = "device" => /\ Device!TypeOK /\ Device!UvAsAnnounced /\ Device!PermissionsAnnounced
                       /\ Device!BoardPresenceAsked /\ Device!TransportsOnce

\* Links: recv returns one whole message of one host (the framed adapters), and no link
\* hides another's message (MultiTransport::recv).
MessagesIntact ==
    part = "links" => Links!TypeOK /\ Links!MessagesIntact /\ Links!NothingHidden
=============================================================================
