----------------------------- MODULE NodeEditor -----------------------------
(***************************************************************************)
(* The node editor of the GUI: DraftData, the Advanced sheet, the share    *)
(* sheet and the check before Save (ui/controller/{nodes,save}.rs,         *)
(* validate.rs), and the settings sheet (ui/controller/settings.rs).       *)
(*                                                                         *)
(* What the user types lives in a draft of texts; every edit copies the    *)
(* valid fields into the stored node and leaves the invalid ones behind.   *)
(* Which fields are mandatory depends on the protocol and method chosen in *)
(* the same draft.                                                         *)
(*                                                                         *)
(* A text is one of: empty, blank (spaces only), a value, the same value   *)
(* with spaces around it, or bad (a port or timeout that does not parse).  *)
(* `server` stands for the trimmed fields, `sni` for the optional ones of  *)
(* the Advanced sheet; name, group, pinned hash, plugin fields and the     *)
(* congestion control are edited like these.                               *)
(***************************************************************************)
EXTENDS Naturals, FiniteSets

CONSTANTS
    Nodes,          \* identities of the nodes in the list
    Closed,         \* no sheet is open
    MaxTyped        \* bound on the user's actions

Fields == {"protocol", "server", "port", "uuid", "password", "method", "sni", "timeout"}
Texts == [protocol |-> {"juicity", "shadowsocks"}, method |-> {"aes", "none"},
          server |-> {"", " ", "v", " v "}, uuid |-> {"", " ", "v"}, password |-> {"", "v"},
          port |-> {"v", " v ", "bad"}, sni |-> {"", " ", "v"}, timeout |-> {"v", "bad"}]
AdvancedFields == {"sni", "timeout"}

\* str::trim.
Trim(t) == CASE t = " " -> "" [] t = " v " -> "v" [] OTHER -> t

VARIABLES
    stored,         \* the working list: a profile for every node
    chosen,         \* nodes.selected
    draft,          \* nodes.draft
    errors,         \* nodes.errors: the fields shown as invalid
    sheet,          \* nodes.advanced
    sheetError,     \* whether nodes.advanced_errors holds something
    shared,         \* nodes.qr: the node and profile whose link is shown
    setting,        \* the settings sheet: its draft; and the stored value
    typed

editorVars == <<stored, chosen, draft, errors, sheet, sheetError, shared, setting, typed>>

-----------------------------------------------------------------------------
\* missing_fields of a profile or, through DraftData::missing, of a draft.
Missing(p) ==
    {f \in {"server", "uuid", "password"} :
       \/ f = "server" /\ Trim(p.server) = ""
       \/ f = "uuid" /\ p.protocol = "juicity" /\ Trim(p.uuid) = ""
       \/ f = "password" /\ p.password = ""
          /\ (p.protocol = "juicity" \/ p.method # "none")}

\* DraftData::errors.
Errors(d) == Missing(d) \cup {f \in {"port", "timeout"} : d[f] = "bad"}

\* Mutant: one invalid field keeps every field out of the profile.
ApplyTo_AllOrNothing(d, p) ==
    [f \in Fields |->
       IF Errors(d) # {} THEN p[f]
       ELSE IF f = "password" THEN d[f] ELSE Trim(d[f])]

\* apply_to: the fields of d that may replace those of the profile p.  A password is
\* not trimmed.
ApplyTo(d, p) ==
    [f \in Fields |->
       IF f \in Errors(d) THEN p[f]
       ELSE IF f = "password" THEN d[f] ELSE Trim(d[f])]

\* unapplied: text that apply_to kept out of the profile.
Unapplied(d, p) == \E f \in Errors(d) : d[f] # p[f]

\* A handler, within the bound.
Typing == typed < MaxTyped /\ typed' = typed + 1

-----------------------------------------------------------------------------
\* load_selected: a fresh draft; the share sheet closes.
LoadSelected(n) ==
    /\ chosen' = n /\ draft' = stored'[n]
    /\ errors' = {} /\ shared' = Closed

SelectNodeInList(n) ==
    /\ n # chosen
    /\ stored' = stored
    /\ LoadSelected(n)
    /\ UNCHANGED <<sheet, sheetError, setting>>

\* commit_draft of the draft d.
CommitDraft(d) ==
    /\ draft' = d
    /\ errors' = Errors(d)
    /\ stored' = [stored EXCEPT ![chosen] = ApplyTo(d, @)]
    /\ UNCHANGED chosen

\* edit_node.
EditField(f, t) ==
    /\ draft[f] # t
    /\ CommitDraft([draft EXCEPT ![f] = t])
    /\ UNCHANGED <<sheet, sheetError, shared, setting>>

\* open_advanced: the sheet shows no error yet, also for a text that is one.
OpenAdvanced ==
    /\ sheet = Closed
    /\ sheet' = draft /\ sheetError' = FALSE
    /\ UNCHANGED <<stored, chosen, draft, errors, shared, setting>>

\* edit_advanced; errors of the sheet are those of its timeout.
EditAdvanced(f, t) ==
    /\ sheet # Closed
    /\ sheet' = [sheet EXCEPT ![f] = t]
    /\ sheetError' = (sheet'.timeout = "bad")
    /\ UNCHANGED <<stored, chosen, draft, errors, shared, setting>>

\* commit_advanced: a sheet that shows an error stays open.
CommitAdvanced ==
    /\ sheet # Closed /\ ~sheetError
    /\ sheet' = Closed
    /\ CommitDraft([f \in Fields |-> IF f \in AdvancedFields THEN sheet[f] ELSE draft[f]])
    /\ UNCHANGED <<sheetError, shared, setting>>

CancelAdvanced ==
    /\ sheet # Closed
    /\ sheet' = Closed /\ sheetError' = FALSE
    /\ UNCHANGED <<stored, chosen, draft, errors, shared, setting>>

\* share_qr_code and export_link: share_link refuses while the editor shows errors.
ShareQrCode ==
    /\ errors = {}
    /\ shared' = [node |-> chosen, profile |-> stored[chosen]]
    /\ UNCHANGED <<stored, chosen, draft, errors, sheet, sheetError, setting>>

\* save_refusal looks at the draft again, also a freshly loaded incomplete one.
TrySave ==
    /\ errors' = Errors(draft)
    /\ UNCHANGED <<stored, chosen, draft, sheet, sheetError, shared, setting>>

CloseQrCode ==
    /\ shared # Closed
    /\ shared' = Closed
    /\ UNCHANGED <<stored, chosen, draft, errors, sheet, sheetError, setting>>

\* revert_nodes and a reload of the list: the chosen node's profile becomes p.
ReplaceProfile(p) ==
    /\ p # stored[chosen]
    /\ stored' = [stored EXCEPT ![chosen] = p]
    /\ LoadSelected(chosen)
    /\ sheet' = Closed /\ sheetError' = FALSE
    /\ UNCHANGED setting

-----------------------------------------------------------------------------
(* The settings sheet.  A text is good or bad; validate decides.           *)

OpenSetting ==
    /\ setting.draft = Closed
    /\ setting' = [setting EXCEPT !.draft = setting.value]
    /\ UNCHANGED <<stored, chosen, draft, errors, sheet, sheetError, shared>>

EditSetting(t) ==
    /\ setting.draft # Closed
    /\ setting' = [setting EXCEPT !.draft = t, !.error = (t = "bad")]
    /\ UNCHANGED <<stored, chosen, draft, errors, sheet, sheetError, shared>>

\* commit_setting validates again: the sheet may show no error for the text it opened
\* with.  cancel_setting drops the draft.
CommitSetting ==
    /\ setting.draft # Closed
    /\ setting' = IF setting.draft = "bad" THEN [setting EXCEPT !.error = TRUE]
                  ELSE [value |-> Trim(setting.draft), draft |-> Closed, error |-> FALSE]
    /\ UNCHANGED <<stored, chosen, draft, errors, sheet, sheetError, shared>>

CancelSetting ==
    /\ setting.draft # Closed
    /\ setting' = [setting EXCEPT !.draft = Closed, !.error = FALSE]
    /\ UNCHANGED <<stored, chosen, draft, errors, sheet, sheetError, shared>>

-----------------------------------------------------------------------------
FullProfile == [f \in Fields |-> CASE f = "protocol" -> "juicity" [] f = "method" -> "aes"
                                   [] f = "sni" -> "" [] OTHER -> "v"]
BlankProfile == [FullProfile EXCEPT !.server = "", !.uuid = "", !.password = ""]

EditorInit ==
    /\ stored \in [Nodes -> {FullProfile, BlankProfile}]
    /\ chosen \in Nodes
    /\ draft = stored[chosen]
    /\ errors = {} /\ sheet = Closed /\ sheetError = FALSE /\ shared = Closed
    /\ setting = [value |-> "v", draft |-> Closed, error |-> FALSE]
    /\ typed = 0

EditorNext ==
    /\ Typing
    /\ \/ \E n \in Nodes : SelectNodeInList(n)
       \/ \E f \in Fields : \E t \in Texts[f] : EditField(f, t)
       \/ OpenAdvanced \/ CommitAdvanced \/ CancelAdvanced
       \/ \E f \in AdvancedFields : \E t \in Texts[f] : EditAdvanced(f, t)
       \/ ShareQrCode \/ CloseQrCode \/ TrySave
       \/ \E p \in {FullProfile, BlankProfile} : ReplaceProfile(p)
       \/ OpenSetting \/ CommitSetting \/ CancelSetting
       \/ \E t \in {"v", " v ", "bad"} : EditSetting(t)

EditorSpec == EditorInit /\ [][EditorNext]_editorVars

-----------------------------------------------------------------------------
EditorTypeOK ==
    /\ chosen \in Nodes
    /\ \A n \in Nodes, f \in Fields : stored[n][f] \in Texts[f] \ {"bad"}
    /\ \A f \in Fields : draft[f] \in Texts[f]
    /\ setting.value = "v"

\* What the editor shows is what is stored, up to the spaces the fields drop, or the
\* field is shown as invalid and counts as unsaved text (draft_unapplied), so that Save
\* and sharing refuse.  Switching protocol or method, which changes what is mandatory,
\* the Advanced sheet and reloads keep this, and an open share sheet is that of the node
\* in the editor.
ShownIsStored ==
    /\ \A f \in Fields :
         \/ Trim(draft[f]) = Trim(stored[chosen][f])
         \/ f \in errors /\ Unapplied(draft, stored[chosen])
    /\ shared # Closed => shared.node = chosen
=============================================================================
