------------------------------ MODULE MCServices ------------------------------
(* The services around the pipelines, one of them per behaviour.           *)
EXTENDS LiveSettings, PrContext, HostToken, ReviewPosting, HostListing, RateLimits,
        Intake, MemBus, ReviewPrompt, DiffLines

VARIABLE focus   \* the service this behaviour is about

Others(service) ==
  /\ focus = service /\ UNCHANGED focus
  /\ service # "settings" => UNCHANGED settingsVars
  /\ service # "context" => UNCHANGED contextVars
  /\ service # "token" => UNCHANGED tokenVars
  /\ service # "posting" => UNCHANGED postingVars
  /\ service # "listing" => UNCHANGED listingVars
  /\ service # "limits" => UNCHANGED limitVars
  /\ service # "intake" => UNCHANGED intakeVars
  /\ service # "membus" => UNCHANGED memVars
  /\ service # "prompt" => UNCHANGED promptVars
  /\ service # "diff" => UNCHANGED diffVars

ServicesInit ==
  /\ focus \in {"settings", "context", "token", "posting", "listing", "limits", "intake", "membus", "prompt", "diff"}
  /\ SettingsInit /\ ContextInit /\ TokenInit /\ LimitInit /\ IntakeInit /\ MemInit /\ PromptInit /\ DiffInit
  /\ PostingInit /\ (focus # "posting" => host = "github")
  /\ ListingInit /\ (focus # "listing" => there = <<>> /\ ~search)

ServicesNext ==
  \/ SettingsNext /\ Others("settings")
  \/ ContextNext /\ Others("context")
  \/ TokenNext /\ Others("token")
  \/ PostingNext /\ Others("posting")
  \/ ListingNext /\ Others("listing")
  \/ LimitNext /\ Others("limits")
  \/ IntakeNext /\ Others("intake")
  \/ MemNext /\ Others("membus")
  \/ PromptNext /\ Others("prompt")
  \/ DiffNext /\ Others("diff")

ServicesVars == <<focus, settingsVars, contextVars, tokenVars, postingVars, listingVars,
                  limitVars, intakeVars, memVars, promptVars, diffVars>>

(* SettingsFairness, where the settings are the subject.                   *)
ServicesFairness ==
  \A p \in Processes : /\ WF_settingsVars(focus = "settings" /\ StartProcess(p))
                       /\ WF_settingsVars(focus = "settings" /\ StartReloader(p))
                       /\ WF_settingsVars(focus = "settings" /\ Reload(p))

ServicesSpec == ServicesInit /\ [][ServicesNext]_ServicesVars /\ ServicesFairness

(* The type invariants of the services.                                    *)
ServicesTypeOK ==
  CASE focus = "settings" -> SettingsTypeOK
    [] focus = "context" -> ContextTypeOK
    [] focus = "token" -> TokenTypeOK
    [] focus = "posting" -> PostingTypeOK
    [] focus = "listing" -> ListingTypeOK
    [] focus = "limits" -> LimitTypeOK
    [] focus = "intake" -> IntakeTypeOK
    [] focus = "membus" -> MemTypeOK
    [] focus = "prompt" -> PromptTypeOK
    [] focus = "diff" -> DiffTypeOK

MCKeys == <<"k1", "k2">>
MCBootKeys == [p \in Processes |-> {"k1"}]
MCLiveKeys == [p \in Processes |-> {"k2"}]
MCProviders == <<"instructions", "jira", "github", "linear">>
=============================================================================
