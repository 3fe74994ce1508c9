------------------------- MODULE DashboardSettings --------------------------
(***************************************************************************)
(* The dashboard's page Configurações in the tabs of one browser: the         *)
(* configuration each tab shows, the one localStorage keeps, the warehouse    *)
(* form and the toast.                                                      *)
(*                                                                         *)
(* Every control replaces the tab's configuration; save writes the one of the *)
(* render whose button was pressed, so the two buttons that change and save   *)
(* in one handler write the configuration before their change.               *)
(*                                                                         *)
(* Left out: the section shown (it restricts which buttons are there) and the *)
(* texts, all of one kind, of section Geral beyond one field.                *)
(***************************************************************************)
EXTENDS Integers, FiniteSets

CONSTANTS
    SettingsTabs,   \* tabs of the browser
    Galpoes,        \* warehouses of the configuration
    Usuarios,       \* users of the configuration
    Textos,         \* texts a field may hold
    Padrao,         \* the text of defaultConfig
    MaxEdits,       \* bound: controls used in one behaviour
    MaxToastTimers  \* bound: pending timeouts of a tab

ASSUME SettingsConstants ==
    Padrao \in Textos /\ MaxEdits \in Nat /\ MaxToastTimers \in Nat

Numeros == {"number", "other", "NaN", "null"}
Config == [geral : Textos, numero : Numeros, galpoes : [Galpoes -> [nome : Textos, cheio : BOOLEAN]],
           ativo : [Usuarios -> BOOLEAN]]
NoConfig == [geral |-> "absent"]
NoForm == [of |-> "none"]

VARIABLES
    config,    \* state of the page in each tab
    guardada,  \* localStorage.logoca_config
    form,      \* editGalpao: a copy of the warehouse being edited
    toast,     \* "none", "saved" (a message with a timeout) or "note" (one without)
    timeouts,  \* pending setToast(null)
    edits,
    last       \* history: the save localStorage holds, while its tab has not changed since

settingsVars == <<config, guardada, form, toast, timeouts, edits, last>>

---------------------------------------------------------------------------
\* JSON.stringify and JSON.parse: an emptied number field holds NaN.
Encoded(c) == [c EXCEPT !.numero = IF @ = "NaN" THEN "null" ELSE @]

defaultConfig ==
    [geral |-> Padrao, numero |-> "number",
     galpoes |-> [g \in Galpoes |-> [nome |-> Padrao, cheio |-> FALSE]],
     ativo |-> [u \in Usuarios |-> TRUE]]

NoSave == [tab |-> "none", plain |-> FALSE]

SettingsInit ==
    /\ config = [t \in SettingsTabs |-> defaultConfig]
    /\ guardada = NoConfig
    /\ form = [t \in SettingsTabs |-> NoForm]
    /\ toast = [t \in SettingsTabs |-> "none"]
    /\ timeouts = [t \in SettingsTabs |-> 0]
    /\ edits = 0 /\ last = NoSave

Timed(t) == timeouts[t] < MaxToastTimers
Edits == edits < MaxEdits /\ edits' = edits + 1

\* setConfig, from a control that saves nothing.
SetConfig(t, c) ==
    /\ Edits
    /\ config' = [config EXCEPT ![t] = c]
    /\ last' = IF last.tab = t THEN NoSave ELSE last
    /\ UNCHANGED <<guardada>>

\* Mutant of Written: a save that leaves the warehouses and users of defaultConfig.
WrittenInPart(c) == [Encoded(c) EXCEPT !.ativo = defaultConfig.ativo]

Written(c) == Encoded(c)

\* setToast(msg) and setTimeout(() => setToast(null)).
ToastFor(t) ==
    /\ Timed(t)
    /\ toast' = [toast EXCEPT ![t] = "saved"]
    /\ timeouts' = [timeouts EXCEPT ![t] = @ + 1]

\* save(): the configuration of the render, not the one just set.
SaveConfig(t, plain) ==
    /\ guardada' = Written(config[t])
    /\ last' = [tab |-> t, plain |-> plain]
    /\ ToastFor(t)

\* Section Geral.
EditGeral(t) ==
    /\ \E v \in Textos : SetConfig(t, [config[t] EXCEPT !.geral = v])
    /\ UNCHANGED <<form, toast, timeouts>>

\* The number fields of Frete and Estoque: parseFloat and parseInt of the text.
EditNumero(t) ==
    /\ \E n \in {"number", "other", "NaN"} : SetConfig(t, [config[t] EXCEPT !.numero = n])
    /\ UNCHANGED <<form, toast, timeouts>>

\* The button +5%: not saved, but announced by a toast.
RaiseOcupacao(t) ==
    \E g \in Galpoes :
       /\ SetConfig(t, [config[t] EXCEPT !.galpoes[g].cheio = TRUE])
       /\ ToastFor(t)
       /\ UNCHANGED form

\* Editar, the inputs of the form, and Cancelar.
OpenForm(t) ==
    /\ \E g \in Galpoes : form' = [form EXCEPT ![t] = [of |-> g, copy |-> config[t].galpoes[g]]]
    /\ UNCHANGED <<config, guardada, toast, timeouts, edits, last>>

TypeInForm(t) ==
    /\ form[t] # NoForm /\ Edits
    /\ \E v \in Textos \ {form[t].copy.nome} : form' = [form EXCEPT ![t].copy.nome = v]
    /\ UNCHANGED <<config, guardada, toast, timeouts, last>>

CancelForm(t) ==
    /\ form[t] # NoForm
    /\ form' = [form EXCEPT ![t] = NoForm]
    /\ UNCHANGED <<config, guardada, toast, timeouts, edits, last>>

\* Salvar of the form: setConfig, then save with the configuration before.
SaveForm(t) ==
    /\ form[t] # NoForm
    /\ config' = [config EXCEPT ![t].galpoes[form[t].of] = form[t].copy]
    /\ form' = [form EXCEPT ![t] = NoForm]
    /\ SaveConfig(t, FALSE)
    /\ UNCHANGED edits

\* Ativar / Desativar: the same.
ToggleUsuario(t) ==
    \E u \in Usuarios :
       /\ Edits
       /\ config' = [config EXCEPT ![t].ativo[u] = ~@]
       /\ SaveConfig(t, FALSE)
       /\ UNCHANGED form

\* Salvar tudo, and the save buttons of the sections.
SaveAll(t) ==
    /\ SaveConfig(t, TRUE)
    /\ UNCHANGED <<config, form, edits>>

\* Sincronizar, Convidar, Testar conexões, Exportar logs: a toast without timeout.
Announce(t) ==
    /\ toast' = [toast EXCEPT ![t] = "note"]
    /\ UNCHANGED <<config, guardada, form, timeouts, edits, last>>

\* clearCache touches no cache: a toast with a timeout.
ClearCache(t) == ToastFor(t) /\ UNCHANGED <<config, guardada, form, edits, last>>

ClearLocalStorage(t) ==
    /\ guardada' = NoConfig
    /\ last' = NoSave
    /\ toast' = [toast EXCEPT ![t] = "note"]
    /\ UNCHANGED <<config, form, timeouts, edits>>

\* Any of the pending timeouts takes away the toast there is.
ToastTimeout(t) ==
    /\ timeouts[t] > 0
    /\ timeouts' = [timeouts EXCEPT ![t] = @ - 1]
    /\ toast' = [toast EXCEPT ![t] = "none"]
    /\ UNCHANGED <<config, guardada, form, edits, last>>

\* Recarregar app, or coming back to the page: the load effect.
Reload(t) ==
    /\ config' = [config EXCEPT ![t] = IF guardada = NoConfig THEN defaultConfig ELSE guardada]
    /\ form' = [form EXCEPT ![t] = NoForm]
    /\ toast' = [toast EXCEPT ![t] = "none"]
    /\ timeouts' = [timeouts EXCEPT ![t] = 0]
    /\ last' = IF last.tab = t /\ ~last.plain THEN NoSave ELSE last
    /\ UNCHANGED <<guardada, edits>>

SettingsTab(t) ==
    \/ EditGeral(t) \/ EditNumero(t) \/ RaiseOcupacao(t)
    \/ OpenForm(t) \/ TypeInForm(t) \/ CancelForm(t) \/ SaveForm(t)
    \/ ToggleUsuario(t) \/ SaveAll(t)
    \/ Announce(t) \/ ClearCache(t) \/ ClearLocalStorage(t) \/ ToastTimeout(t) \/ Reload(t)

SettingsNext == \E t \in SettingsTabs : SettingsTab(t)

SettingsSpec == SettingsInit /\ [][SettingsNext]_settingsVars

---------------------------------------------------------------------------
(* Types; NaN never reaches localStorage. *)
SettingsTypeOK ==
    /\ config \in [SettingsTabs -> Config]
    /\ guardada \in {c \in Config : c.numero # "NaN"} \cup {NoConfig}
    /\ \A t \in SettingsTabs : form[t] = NoForm \/ form[t].of \in Galpoes
    /\ toast \in [SettingsTabs -> {"none", "saved", "note"}]
    /\ timeouts \in [SettingsTabs -> 0..MaxToastTimers]
    /\ edits \in 0..MaxEdits

(* Warehouses and users a configuration shows otherwise than another. *)
Differing(c, d) ==
    {g \in Galpoes : c.galpoes[g] # d.galpoes[g]} \cup {u \in Usuarios : c.ativo[u] # d.ativo[u]}

(* After a save, until its tab changes something or another tab saves,        *)
(* localStorage holds what the tab shows; after one of the buttons that        *)
(* change and save at once it may lack that one change, never more.          *)
LagsByOneChange ==
    last # NoSave =>
       LET shownNow == Encoded(config[last.tab]) IN
       /\ guardada # NoConfig
       /\ guardada.geral = shownNow.geral /\ guardada.numero = shownNow.numero
       /\ Cardinality(Differing(guardada, shownNow)) <= (IF last.plain THEN 0 ELSE 1)
===========================================================================
