--------------------------- MODULE ModuleSettings ---------------------------
(***************************************************************************)
(* What the module settings page accepts (module_settings.py): a form is   *)
(* checked against the settings the page read when it opened, only what    *)
(* the user changed meets the strict rules, and what changed is written.   *)
(* Meanwhile other pages and WAGO's own tool write the module too.         *)
(*                                                                         *)
(* An address is a number of Bits bits, so a netmask is one as well. One   *)
(* server stands for the four, and one switch, dhcp, for the two: ntp has  *)
(* no rule. A write goes through in one step: that it does, or what else   *)
(* it leaves, is what WagoModule and ModulePages are about.                *)
(***************************************************************************)
EXTENDS Integers, FiniteSets

CONSTANTS
  Bits,         \* of an address
  NoHosts,      \* addresses that cannot belong to one host (is_host_address)
  Entered,      \* of each field with an address: what is typed, stored or read
  Names,        \* host names a module may hold
  Hostnames,    \* those of them that are one label and fit
  MaxTimeout,   \* the largest register word
  Empty,        \* an address field of the form with nothing in it
  Garbled,      \* what is no address, or no whole number
  Closed,       \* no page is open
  MaxChanged,   \* bound: fields a user changes in one form
  MaxOutdated   \* bound: fields others change while a page is open

UNSET == 0
AddressFields == {"ip_address", "netmask", "gateway", "server"}

Settings ==
  [dhcp : BOOLEAN, ip_address : Entered["ip_address"], netmask : Entered["netmask"],
   gateway : Entered["gateway"], server : Entered["server"],
   hostname : Names, timeout : 0..MaxTimeout]
NETWORK_FIELDS == {"dhcp", "ip_address", "netmask", "gateway"}
Keys == NETWORK_FIELDS \cup {"server", "hostname", "timeout"}

ASSUME ModuleSettingsAssumption ==
  /\ Bits \in Nat /\ MaxTimeout \in Nat
  /\ MaxChanged \in Nat /\ MaxOutdated \in Nat
  /\ UNSET \in NoHosts /\ \A k \in AddressFields : UNSET \in Entered[k]
  /\ Entered \in [AddressFields -> SUBSET (0..(2^Bits - 1))]
  /\ Hostnames \subseteq Names
  /\ \A v \in {Empty, Garbled} :
       v \notin 0..(2^Bits - 1) /\ v \notin 0..MaxTimeout /\ v \notin Names /\ v \notin BOOLEAN
  /\ Empty # Garbled /\ Closed \notin Settings

VARIABLES
  registers,   \* the module's settings
  current      \* what the open page read, or Closed

vars == <<registers, current>>

TypeOK ==
  /\ registers \in Settings
  /\ current \in Settings \cup {Closed}

Init == registers \in Settings /\ current = Closed

\* What a plausible mistake would make of the definitions below it.
KeptEmpty(v) == v
AllKeys(s, c) == Keys
AnyText(form) == TRUE
OnlyTheFirst(p, a) == {a - (a % 2^(Bits - p))}

-----------------------------------------------------------------------------
(* Addresses and networks, as ipaddress and addresses.py see them.         *)

IsHostAddress(a) == a \notin NoHosts

Mask(p) == 2^Bits - 2^(Bits - p)
HostMask(p) == 2^(Bits - p) - 1

\* The prefix length of a netmask a host can live in, typed as such: ipaddress
\* would read a host mask, too.
Prefixes(m) == {p \in 1..(Bits - 2) : m = Mask(p)}

\* The network of prefix length p that holds address a, and its two edges.
Base(p, a) == a - (a % 2^(Bits - p))
Network(p, a) == Base(p, a)..(Base(p, a) + HostMask(p))
Edges(p, a) == {Base(p, a), Base(p, a) + HostMask(p)}

-----------------------------------------------------------------------------
(* The checks.                                                             *)

CheckServer(a) == a = UNSET \/ IsHostAddress(a)

CheckNetwork(s) ==
  \E p \in Prefixes(s.netmask) :
    /\ IsHostAddress(s.ip_address) /\ s.ip_address \notin Edges(p, s.ip_address)
    /\ \/ s.gateway = UNSET
       \/ /\ IsHostAddress(s.gateway) /\ s.gateway \notin Edges(p, s.ip_address)
          /\ s.gateway \in Network(p, s.ip_address) /\ s.gateway # s.ip_address

\* An address as typed; nothing typed is the address that stands for none.
Typed(v) == IF v = Empty THEN UNSET ELSE v

SettingsOf(form) ==
  [k \in Keys |-> IF k \in AddressFields THEN Typed(form[k]) ELSE form[k]]

Readable(form) == \A k \in Keys : form[k] # Garbled

ChangedKeys(s, c) == {k \in Keys : s[k] # c[k]}

Accepts(form, c) ==
  /\ Readable(form)
  /\ LET s == SettingsOf(form)
         changed == ChangedKeys(s, c)
     IN /\ "server" \in changed => CheckServer(s.server)
        /\ "hostname" \in changed => s.hostname \in Hostnames
        /\ "timeout" \in changed => s.timeout \in 1..MaxTimeout
        /\ "ip_address" \in changed => CheckServer(s.ip_address)
        /\ "netmask" \in changed => Prefixes(s.netmask) # {}
        /\ changed \cap NETWORK_FIELDS # {} /\ ~s.dhcp => CheckNetwork(s)

\* The values as the form shows them. (A netmask is never shown empty.)
ModuleForm(c) ==
  [k \in Keys |->
    IF k \in AddressFields \ {"netmask"} /\ c[k] = UNSET THEN Empty ELSE c[k]]

-----------------------------------------------------------------------------
(* The page and what happens to the module beside it.                      *)

Opens ==
  /\ current = Closed
  /\ current' = registers
  /\ UNCHANGED registers

Stored(k) ==
  CASE k \in AddressFields -> Entered[k]
    [] k = "dhcp" -> BOOLEAN
    [] k = "hostname" -> Names
    [] k = "timeout" -> 0..MaxTimeout

FieldValues(k) ==
  Stored(k)
    \cup (IF k \in AddressFields THEN {Empty, Garbled} ELSE {})
    \cup (IF k = "timeout" THEN {Garbled} ELSE {})

\* What a user may type: a field, and a text for it.
Entries == UNION {{<<k, v>> : v \in FieldValues(k)} : k \in Keys}

FormWith(c, typed) ==
  [k \in Keys |-> IF \E e \in typed : e[1] = k
                 THEN (CHOOSE e \in typed : e[1] = k)[2] ELSE ModuleForm(c)[k]]

\* The forms a user makes of the one shown.
Forms(c) ==
  {FormWith(c, {typed[i] : i \in 1..MaxChanged}) : typed \in [1..MaxChanged -> Entries]}

\* A refused form leaves the page open with what it read.
Saves ==
  /\ current # Closed
  /\ \E form \in Forms(current) :
       /\ Accepts(form, current)
       /\ LET s == SettingsOf(form) IN
            registers' = [k \in Keys |->
              IF k \in ChangedKeys(s, current) THEN s[k] ELSE registers[k]]
  /\ current' = Closed

Leaves == current # Closed /\ current' = Closed /\ UNCHANGED registers

\* WAGO's tool, or another page, stores any value in any field.
OthersWrite ==
  /\ current # Closed => Cardinality(ChangedKeys(registers, current)) < MaxOutdated
  /\ \E k \in Keys : \E v \in Stored(k) : registers' = [registers EXCEPT ![k] = v]
  /\ UNCHANGED current

Next == Opens \/ Saves \/ Leaves \/ OthersWrite

Spec == Init /\ [][Next]_vars

-----------------------------------------------------------------------------
(* What the page promises.                                                 *)

Bit(a, i) == (a \div 2^i) % 2

\* Reference: bit by bit, an address one host of a network with n host bits can have,
HostOf(a, n) ==
  /\ a \notin NoHosts
  /\ \E i, j \in 0..(n - 1) : Bit(a, i) = 0 /\ Bit(a, j) = 1

\* and fixed settings with which the module can be reached and can answer.
Workable(s) ==
  \E n \in 2..(Bits - 1) :
    /\ \A i \in 0..(Bits - 1) : Bit(s.netmask, i) = IF i < n THEN 0 ELSE 1
    /\ HostOf(s.ip_address, n)
    /\ s.gateway # UNSET =>
         /\ HostOf(s.gateway, n) /\ s.gateway # s.ip_address
         /\ \A i \in n..(Bits - 1) : Bit(s.gateway, i) = Bit(s.ip_address, i)

SameNetwork(s, t) == \A k \in NETWORK_FIELDS : s[k] = t[k]

\* A page that changes where the module sits in its network leaves it on DHCP or
\* at an address that works, whatever the module held before, unless others
\* changed those settings while the page was open (_check_network).
SavedNetworkWorks ==
  [][/\ current # Closed /\ current' = Closed
     /\ SameNetwork(current, registers) /\ ~SameNetwork(registers, registers')
     => registers'.dhcp \/ Workable(registers')]_vars

\* A form is refused only for a field the user changed to something the module
\* cannot use, or for a change of the network that does not work: whatever else
\* the module holds never stops an unrelated change (_settings).
RefusedForAReason ==
  current # Closed /\ current = registers =>
    \A form \in Forms(current) :
      LET s == SettingsOf(form)
          changed == {k \in Keys : s[k] # current[k]}
      IN Readable(form) /\ ~Accepts(form, current) =>
           \/ "hostname" \in changed /\ s.hostname \notin Hostnames
           \/ "timeout" \in changed /\ s.timeout = 0
           \/ \E k \in changed \cap {"server", "ip_address"} : s[k] # UNSET /\ s[k] \in NoHosts
           \/ "netmask" \in changed /\ \A a \in 0..(2^Bits - 1) :
                ~Workable([s EXCEPT !.ip_address = a, !.gateway = UNSET])
           \/ ~SameNetwork(s, current) /\ ~s.dhcp /\ ~Workable(s)

\* The form as shown, saved as it is, is accepted and writes nothing, though it
\* shows what is not set as an empty field (_module_form, _address).
ShownFormWritesNothing ==
  current # Closed =>
    /\ Accepts(ModuleForm(current), current)
    /\ SettingsOf(ModuleForm(current)) = current
=============================================================================
