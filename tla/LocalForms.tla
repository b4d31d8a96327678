-------------------------------- MODULE LocalForms --------------------------------
(***************************************************************************)
(* Two pages of the admin that keep what is edited in the browser and send   *)
(* nothing: ConfigEditor, one item at a time, and the addresses of           *)
(* CustomerDetail, which shows the same made-up customer for every row.      *)
(***************************************************************************)
EXTENDS Integers, SequencesExt, Lists

CONSTANTS
    Addresses,  \* well-formed IP addresses
    Malformed   \* a text that is not an address

ASSUME AddressesAssumption == Malformed \notin Addresses /\ Addresses # {}

VARIABLES
    item,  \* an item of ConfigEditor, and the state of its ConfigRow
    ips    \* ipList and ipInput of CustomerDetail

localVars == <<item, ips>>

--------------------------------------------------------------------------------
(* ConfigEditor.  A text is one of two good ones, one that does not parse, or *)
(* empty.  The browser gives an input of type number no text that is not one. *)

Types == {"string", "number", "boolean", "json"}
Texts == {"one", "two", "broken", ""}
Typable(type) == IF type = "number" THEN Texts \ {"broken"} ELSE Texts
IsValidJson(text) == text \in {"one", "two"}
\* Number(''), which is 0.
Number(text) == IF text = "" THEN "zero" ELSE text

Values(type) ==
    CASE type = "number"  -> {"one", "two", "zero"}
      [] type = "boolean" -> BOOLEAN
      [] type = "json"    -> {"one", "two"}
      [] type = "string"  -> Texts

\* MOCK_CONFIGS and the first render of a row.
FirstRender(type) ==
    [type |-> type, value |-> IF type = "boolean" THEN TRUE ELSE "one", editing |-> FALSE,
     draft |-> IF type = "boolean" THEN "" ELSE "one", checked |-> type = "boolean"]

\* onFocus: the draft starts from the value.
FocusField ==
    /\ item.type # "boolean"
    /\ ~item.editing
    /\ item' = [item EXCEPT !.editing = TRUE, !.draft = item.value]

\* onChange.
ChangeField(text) ==
    /\ item.type # "boolean"
    /\ text \in Typable(item.type)
    /\ item' = [item EXCEPT !.editing = TRUE, !.draft = text]

\* Mutant: the draft of a JSON item is saved whether or not it parses.
HandleSaveUnparsed ==
    /\ item.editing
    /\ item' = [item EXCEPT !.editing = FALSE,
                            !.value = IF item.type = "number" THEN Number(item.draft) ELSE item.draft]

\* The button is there while editing, and disabled while JSON does not parse.
HandleSave ==
    /\ item.editing
    /\ item.type = "json" => IsValidJson(item.draft)
    /\ item' = [item EXCEPT !.editing = FALSE,
                            !.value = IF item.type = "number" THEN Number(item.draft) ELSE item.draft]

\* A switch saves at once.
SwitchItem ==
    /\ item.type = "boolean"
    /\ item' = [item EXCEPT !.checked = ~@, !.value = ~item.checked]

\* The page is left: the next visit starts from MOCK_CONFIGS.
LeaveSettings == item' = FirstRender(item.type)

ConfigRow ==
    /\ FocusField \/ HandleSave \/ SwitchItem \/ \E text \in Texts : ChangeField(text)
    /\ UNCHANGED ips
ConfigEditor == LeaveSettings /\ UNCHANGED ips

--------------------------------------------------------------------------------
(* CustomerDetail *)

\* What is in the input: a text, maybe with blanks around it, or nothing.
Inputs == [text : Addresses \cup {Malformed}, blanks : BOOLEAN] \cup {<<>>}

IpTyped(input) ==
    /\ ips' = [ips EXCEPT !.input = input]
    /\ UNCHANGED item

\* trim, then the three early returns, which leave the input as it is.
HandleAddIp ==
    /\ ips.input # <<>>
    /\ ips.input.text # Malformed
    /\ ~Contains(ips.list, ips.input.text)
    /\ ips' = [list |-> Append(ips.list, ips.input.text), input |-> <<>>]
    /\ UNCHANGED item

HandleRemoveIp(ip) ==
    /\ Contains(ips.list, ip)
    /\ ips' = [ips EXCEPT !.list = Among(@, Addresses \ {ip})]
    /\ UNCHANGED item

\* onBack unmounts the view: what was added or removed is gone.
MockIps == <<CHOOSE ip \in Addresses : TRUE>>
LeaveDetail ==
    /\ ips' = [list |-> MockIps, input |-> <<>>]
    /\ UNCHANGED item

CustomerDetail ==
    \/ HandleAddIp \/ LeaveDetail
    \/ \E ip \in Addresses : HandleRemoveIp(ip)
    \/ \E input \in Inputs : IpTyped(input)

--------------------------------------------------------------------------------

LocalInit(types) ==
    /\ item \in {FirstRender(type) : type \in types}
    /\ ips = [list |-> MockIps, input |-> <<>>]

\* Whatever is typed, cleared, saved and switched in whatever order, an item
\* holds a value of its type and the switch of a boolean shows it (JSON that is
\* saved parses, a number that is cleared becomes 0); and no address is listed
\* twice, blanks around the text or not, so removing it revokes it.
LocalTypeOK ==
    /\ item.type \in Types /\ item.value \in Values(item.type)
    /\ item.editing \in BOOLEAN /\ item.draft \in Texts \cup {"zero"}
    /\ IF item.type = "boolean" THEN item.checked = item.value ELSE item.checked \in BOOLEAN
    /\ ips.list \in Seq(Addresses) /\ IsInjective(ips.list)
    /\ ips.input = <<>> \/ ips.input.text \in Addresses \cup {Malformed}

LocalNext == ConfigRow \/ ConfigEditor \/ CustomerDetail
================================================================================
