------------------------------- MODULE Device -------------------------------
(***************************************************************************)
(* How a product becomes an authenticator: a board definition, the profile *)
(* built from it, the capabilities derived from the profile, the           *)
(* transports instantiated, and what GetInfo then announces compared with  *)
(* what the commands accept.  A builder call changes one field, so the     *)
(* profile is a record; names, versions, pins and sizes are carried but    *)
(* never compared and are left out.                                        *)
(***************************************************************************)
EXTENDS Naturals, Sequences, FiniteSets, Boards

CONSTANTS
  None,
  Products,    \* the boards a product may be built from
  Configs,     \* the transports a profile may configure
  MaxCalls     \* bound: builder calls and later changes of the device

VARIABLES
  stage,       \* "building" the profile, or "running"
  board,       \* the BoardDefinition, or None for a generic device
  builder,     \* the DeviceProfileBuilder
  profile,     \* the DeviceProfile built
  device,      \* the EmbeddedAuthenticator: capabilities, transports, sensors
  pin,         \* a PIN is stored
  pressed,     \* the user holds the button
  calls,       \* calls made, for the bound
  listed,      \* transports came as a list, were injected or added
  own,         \* the presence source is still the board's own
  made         \* how the last credential's presence was decided

vars == <<stage, board, builder, profile, device, pin, pressed, calls, listed, own, made>>

----------------------------------------------------------------------------
(* The profile. *)

PinPolicy == {"Disabled", "Optional", "Required"}
Extension == {"CredProtect", "CredBlob", "MinPinLength", "HmacSecret"}

\* The vendor presets of the USB identity.
UsbVendorPreset == {"OpenKey", "YubiKey5", "YubicoYubikey"}
preset(vendor) ==
  IF vendor = "OpenKey" THEN [vid |-> "1209", pid |-> "0001", product |-> vendor]
  ELSE [vid |-> "1050", pid |-> "0407", product |-> vendor]

NewBuilder ==
  [transports |-> {}, protocols |-> {"Ctap2", "Ctap21", "WebAuthn"}, pin_policy |-> "Disabled",
   rk_support |-> TRUE, uv_support |-> FALSE, up_support |-> TRUE,
   storage_encrypted |-> FALSE, crypto_accelerator |-> FALSE, extensions |-> Extension,
   transport_configs |-> <<>>, security |-> {}, usb |-> None]

from_board(b) ==
  [NewBuilder EXCEPT !.transports = b.transports, !.security = b.security,
                     !.storage_encrypted = b.has_secure_storage,
                     !.crypto_accelerator = b.has_crypto_accelerator]

pin_policy(b, policy) == [b EXCEPT !.pin_policy = policy]
uv_support(b, on) == [b EXCEPT !.uv_support = on]
rk_support(b, on) == [b EXCEPT !.rk_support = on]
security(b, features) == [b EXCEPT !.security = features]
usb_preset(b, vendor) == [b EXCEPT !.usb = preset(vendor)]
\* protocol, extension and transport add what is not there yet.
protocol(b, p) == [b EXCEPT !.protocols = @ \cup {p}]

\* transport_config and add_transport push what is not there yet.
add_transport(b, config) ==
  IF \E i \in DOMAIN b.transport_configs : b.transport_configs[i] = config THEN b
  ELSE [b EXCEPT !.transport_configs = Append(@, config)]

transport_configs(b, configs) == [b EXCEPT !.transport_configs = configs]

\* A record with one more field.
With(r, field, value) ==
  [f \in DOMAIN r \cup {field} |-> IF f = field THEN value ELSE r[f]]

build(b) ==
  With(b, "transport_config", IF b.transport_configs = <<>> THEN None ELSE Head(b.transport_configs))

active_transport_configs(p) ==
  IF p.transport_configs # <<>> THEN p.transport_configs
  ELSE IF p.transport_config # None THEN <<p.transport_config>> ELSE <<>>

----------------------------------------------------------------------------
(* The authenticator made from a profile. *)

\* CapabilityDiscovery::capabilities: the profile, and whether a PIN may be used.
capabilities(p) == With(p, "client_pin_available", p.pin_policy # "Disabled")

AnnouncedVersions(caps) ==
  LET asked == caps.protocols \cap {"Ctap2", "Ctap21"} IN
  IF asked = {} THEN {"Ctap2"} ELSE asked

AnnouncedOptions(caps) ==
  (IF caps.rk_support THEN {"rk"} ELSE {}) \cup (IF caps.up_support THEN {"up"} ELSE {})
    \cup (IF caps.uv_support THEN {"uv"} ELSE {})
    \cup (IF caps.client_pin_available THEN {"clientPin", "pinUvAuthToken"} ELSE {})
    \cup {"credMgmt"}

ctap2_capabilities(caps) ==
  [versions |-> AnnouncedVersions(caps), extensions |-> caps.extensions,
   options |-> AnnouncedOptions(caps), security |-> caps.security,
   pin_uv_auth_protocols |-> IF caps.client_pin_available \/ caps.uv_support THEN {1, 2} ELSE {}]

\* One stub for each configuration, in order.
init_transports(configs) == configs

from_profile_and_storage(p, injected) ==
  [capabilities |-> ctap2_capabilities(capabilities(p)), user_presence |-> "None",
   user_verification |-> FALSE,
   transports |-> IF injected = None THEN init_transports(active_transport_configs(p))
                  ELSE injected]

\* A board whose presence comes from BOOTSEL gets the button without being asked.
set_board_user_presence(d, b) ==
  IF b.presence_source = "Bootsel" THEN [d EXCEPT !.user_presence = "Bootsel"] ELSE d

\* GetInfo: uv only with a verifier; clientPin only once a PIN is set.
InfoOptions(d) ==
  LET has == d.capabilities.pin_uv_auth_protocols # {}
      base == IF d.user_verification THEN d.capabilities.options
              ELSE d.capabilities.options \ {"uv"}
  IN  IF ~has THEN base \ {"clientPin", "pinUvAuthToken"}
      ELSE (base \cup {"pinUvAuthToken"} \cup (IF pin THEN {"clientPin"} ELSE {}))
             \ (IF pin THEN {} ELSE {"clientPin"})

get_info(d) ==
  [options |-> InfoOptions(d), versions |-> d.capabilities.versions,
   extensions |-> d.capabilities.extensions,
   security |-> IF has_any(d.capabilities.security) THEN d.capabilities.security ELSE None,
   pin_uv_auth_protocols |-> d.capabilities.pin_uv_auth_protocols]

----------------------------------------------------------------------------
(* What the commands ask of the capabilities. *)

\* The option that each permission needs.
OptionOf == [be |-> "bioEnroll", acfg |-> "authnrCfg", cm |-> "credMgmt", lbw |-> "largeBlobs"]
Permissions == DOMAIN OptionOf \cup {"mc"}

validate_permissions(d, permissions) ==
  /\ permissions # {}
  /\ \A p \in permissions \cap DOMAIN OptionOf : OptionOf[p] \in d.capabilities.options

\* ClientPIN 0x07 answers only with a verifier and the capability.
builtin_uv_retries(d) == d.user_verification /\ "uv" \in d.capabilities.options
\* Mutant: the verifier is asked without looking at the capability.
perform_builtin_uv_mutant(d) == d.user_verification

\* ClientPIN 0x06 makes the same two checks before it asks the verifier.
perform_builtin_uv(d) == "uv" \in d.capabilities.options /\ d.user_verification

CanGetUvToken(d, permissions) == validate_permissions(d, permissions) /\ perform_builtin_uv(d)
CanGetPinToken(d, permissions) == validate_permissions(d, permissions) /\ pin

\* With no source the user counts as present; otherwise the source decides.
IsPresent(d) == d.user_presence = "None" \/ pressed

----------------------------------------------------------------------------

BuilderCalls(b) ==
  {pin_policy(b, p) : p \in PinPolicy} \cup {uv_support(b, u) : u \in BOOLEAN}
    \cup {rk_support(b, r) : r \in BOOLEAN} \cup {add_transport(b, c) : c \in Configs}
    \cup {usb_preset(b, v) : v \in UsbVendorPreset} \cup {protocol(b, "U2f"), security(b, {})}

Init ==
  /\ stage = "building"
  /\ board \in Products \cup {None}
  /\ builder = IF board = None THEN NewBuilder ELSE from_board(board)
  /\ profile = None /\ device = None
  /\ pin = FALSE /\ pressed = FALSE /\ calls = 0 /\ listed = FALSE
  /\ own = FALSE /\ made = None

Configure ==
  /\ stage = "building" /\ calls < MaxCalls
  /\ \/ builder' \in BuilderCalls(builder) /\ UNCHANGED listed
     \/ \E c1, c2 \in Configs : builder' = transport_configs(builder, <<c1, c2>>) /\ listed' = TRUE
  /\ calls' = calls + 1
  /\ UNCHANGED <<stage, board, profile, device, pin, pressed, own, made>>

\* new_with_profile, and new_with_profile_and_transport(s) with injected ones.
NewWithProfile ==
  /\ stage = "building"
  /\ profile' = build(builder)
  /\ \/ device' = from_profile_and_storage(build(builder), None) /\ UNCHANGED listed
     \/ \E c \in Configs : device' = from_profile_and_storage(build(builder), <<c>>) /\ listed' = TRUE
  /\ stage' = "running" /\ calls' = 0
  /\ UNCHANGED <<board, builder, pin, pressed, own, made>>

\* new_with_board takes the board's defaults as they are.
NewWithBoard ==
  /\ stage = "building" /\ board # None
  /\ profile' = build(from_board(board))
  /\ device' = set_board_user_presence(from_profile_and_storage(build(from_board(board)), None), board)
  /\ stage' = "running" /\ calls' = 0 /\ listed' = FALSE /\ own' = TRUE
  /\ UNCHANGED <<board, builder, pin, pressed, made>>

\* The integrator changes the sensors or adds a transport while the device runs.
set_user_presence ==
  \E p \in {"None", "Injected"} :
    device' = [device EXCEPT !.user_presence = p] /\ own' = FALSE /\ UNCHANGED listed
set_user_verification ==
  \E v \in BOOLEAN :
    device' = [device EXCEPT !.user_verification = v] /\ UNCHANGED <<own, listed>>
AddTransport ==
  \E c \in Configs :
    device' = [device EXCEPT !.transports = Append(@, c)] /\ listed' = TRUE /\ UNCHANGED own
Change ==
  /\ stage = "running" /\ calls < MaxCalls
  /\ calls' = calls + 1
  /\ set_user_presence \/ set_user_verification \/ AddTransport
  /\ UNCHANGED <<stage, board, builder, profile, pin, pressed, made>>

\* ClientPIN setPIN looks at no capability; Reset clears the PIN when the user is present.
SetPin ==
  /\ stage = "running" /\ ~pin
  /\ pin' = TRUE
  /\ UNCHANGED <<stage, board, builder, profile, device, pressed, calls, listed, own, made>>
Reset ==
  /\ stage = "running" /\ IsPresent(device)
  /\ pin' = FALSE
  /\ UNCHANGED <<stage, board, builder, profile, device, pressed, calls, listed, own, made>>

MakeCredential ==
  /\ stage = "running" /\ IsPresent(device)
  /\ made' = [own |-> own, pressed |-> pressed]
  /\ UNCHANGED <<stage, board, builder, profile, device, pin, pressed, calls, listed, own>>

Button ==
  /\ stage = "running"
  /\ pressed' = ~pressed
  /\ UNCHANGED <<stage, board, builder, profile, device, pin, calls, listed, own, made>>

Next == Configure \/ NewWithProfile \/ NewWithBoard \/ Change \/ SetPin \/ Reset
          \/ MakeCredential \/ Button

Spec == Init /\ [][Next]_vars

----------------------------------------------------------------------------

ConstantsOK ==
  /\ MaxCalls \in Nat
  /\ \A b \in Products :
       b.presence_source \in UserPresenceSource /\ b.security \subseteq SecurityFeatures

\* The device is what its constructors and setters can produce.
TypeOK ==
  /\ stage \in {"building", "running"} /\ board \in Products \cup {None}
  /\ pin \in BOOLEAN /\ pressed \in BOOLEAN /\ listed \in BOOLEAN /\ calls \in 0 .. MaxCalls
  /\ builder.pin_policy \in PinPolicy /\ builder.transport_configs \in Seq(Configs)
  /\ stage = "running" => /\ device.user_presence \in {"None", "Bootsel", "Injected"}
                          /\ device.transports \in Seq(Configs)
                          /\ device.capabilities.security \subseteq SecurityFeatures

\* A host never needs to guess: the built-in verification answers (0x06 and 0x07) exactly
\* when GetInfo announces uv, whatever order profile and verifier came in
\* (get_info, builtin_uv_retries and perform_builtin_uv check on their own).
UvAsAnnounced ==
  stage = "running" =>
    LET told == "uv" \in get_info(device).options
    IN  told = builtin_uv_retries(device) /\ told = (\E p \in Permissions : CanGetUvToken(device, {p}))

\* A token carries a permission only if GetInfo announces the feature it is for, and the
\* legacy PIN flow and the verifier flow agree on that (validate_permissions against
\* the options of get_info).
PermissionsAnnounced ==
  stage = "running" =>
    \A ps \in SUBSET Permissions :
      CanGetUvToken(device, ps) \/ CanGetPinToken(device, ps) =>
        \A p \in ps \cap DOMAIN OptionOf : OptionOf[p] \in get_info(device).options

\* A device of a BOOTSEL board whose integrator left the presence source alone makes no
\* credential without the button (new_with_board, set_board_user_presence).
BoardPresenceAsked ==
  made # None /\ made.own /\ board.presence_source = "Bootsel" => made.pressed

\* Unless a list was given or a transport injected or added, the device drives every
\* configured transport once, the first being the profile's legacy transport
\* (add_transport, build, active_transport_configs, init_transports).
TransportsOnce ==
  stage = "running" /\ ~listed =>
    /\ Len(device.transports) = Cardinality({device.transports[i] : i \in DOMAIN device.transports})
    /\ device.transports # <<>> => device.transports[1] = profile.transport_config
    /\ device.transports = <<>> => profile.transport_config = None
=============================================================================
