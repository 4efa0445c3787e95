------------------------------- MODULE Boards -------------------------------
(***************************************************************************)
(* The boards: what BoardDefinition records of the hardware and the        *)
(* products the repository defines.  The builders of a board chain in any  *)
(* order, so they are operators on the record; pins and the AAGUID are     *)
(* carried but never compared and are left out.                            *)
(***************************************************************************)

SecurityFeatures == {"secure_boot", "trust_zone", "hardware_rng", "sha256_accelerator",
                     "debug_disable", "otp_memory", "unique_id", "tamper_detection"}
rp2350_security == SecurityFeatures \ {"tamper_detection"}
yubico_security == SecurityFeatures
has_any(features) == features # {}

UserPresenceSource == {"None", "Bootsel"}

BoardDefinition(name) ==
  [name |-> name, transports |-> {}, security |-> {}, presence_source |-> "None",
   has_secure_storage |-> FALSE, has_crypto_accelerator |-> FALSE]

\* The builders usb_ccid, usb_hid, nfc and ble set one bit of the mask each.
WithTransports(b, masks) == [b EXCEPT !.transports = @ \cup masks]
WithSecurity(b, features) == [b EXCEPT !.security = features]
WithHardware(b, source) ==
  [b EXCEPT !.presence_source = source, !.has_secure_storage = TRUE,
            !.has_crypto_accelerator = TRUE]

GENERIC == WithTransports(BoardDefinition("generic-fido"), {"UsbCcid"})
\* Secure storage and accelerator, but no presence source.
STM32L4 == WithHardware(WithTransports(BoardDefinition("stm32l4-fido"), {"UsbHid", "UsbCcid"}), "None")
RP2350 ==
  WithHardware(WithSecurity(WithTransports(BoardDefinition("rp2350-fido"), {"UsbHid", "UsbCcid"}),
                            rp2350_security), "Bootsel")
RP2350_ZERO ==
  WithHardware(WithSecurity(WithTransports(BoardDefinition("rp2350-zero"), {"UsbHid", "UsbCcid"}),
                            rp2350_security), "Bootsel")
YUBIKEY_4_5 ==
  WithHardware(WithSecurity(WithTransports(BoardDefinition("yubikey-4-5"), {"UsbHid", "UsbCcid"}),
                            yubico_security), "Bootsel")
=============================================================================
