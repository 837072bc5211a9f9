-------------------------------- MODULE Boot --------------------------------
(***************************************************************************)
(* The start of the device: app_main makes its calls one after the other,  *)
(* and while it goes on the application task registers the callbacks of    *)
(* the Bluetooth stack, a phone may ask to be paired, the ADC task sets up *)
(* its converter, and the tasks of HttpFetch wait for their first request. *)
(*                                                                         *)
(* A call of app_main fails in one of three ways: ESP_ERROR_CHECK aborts   *)
(* and the chip starts again, app_main returns early, or nobody notices.   *)
(***************************************************************************)
EXTENDS HttpFetch

VARIABLES
  main_pc,       (* the call app_main is about to make                      *)
  ready,         (* what its calls have set up, as far as it knows: nobody  *)
                 (* asks whether the driver of the UART is there            *)
  app,           (* where the application task stands in BT_APP_EVT_STACK_UP *)
  registered,    (* the callbacks the stack knows                           *)
  discoverable,  (* has the scan mode been set?                             *)
  rtc,           (* Task_RTCGetTime                                         *)
  adc,           (* Task_ADCGetVoltage; "blind" without a calibration       *)
  pairing        (* has a phone asked to confirm the numeric value?         *)

bootVars == <<main_pc, ready, app, registered, discoverable, rtc, adc,
              pairing>>
allVars == <<vars, bootVars>>

-----------------------------------------------------------------------------
(* The order of the calls.                                                 *)

(* Variant: the Wi-Fi calls follow the start of the task immediately.      *)
AfterNoDispatch ==
  [nvs |-> "release", erase |-> "nvs_again", nvs_again |-> "release",
   release |-> "controller", controller |-> "bluedroid",
   bluedroid |-> "start_up", start_up |-> "netif", dispatch |-> "netif",
   netif |-> "connect", connect |-> "uart", uart |-> "time",
   time |-> "weather", weather |-> "rtc", rtc |-> "adc",
   adc |-> "amplifier", amplifier |-> "returned"]

(* Variant: the UART is set up after the tasks that use it.                *)
AfterUartLast ==
  [nvs |-> "release", erase |-> "nvs_again", nvs_again |-> "release",
   release |-> "controller", controller |-> "bluedroid",
   bluedroid |-> "start_up", start_up |-> "dispatch", dispatch |-> "netif",
   netif |-> "connect", connect |-> "time", time |-> "weather",
   weather |-> "rtc", rtc |-> "adc", adc |-> "uart",
   uart |-> "amplifier", amplifier |-> "returned"]

(* The call that follows one that has succeeded.                           *)
After ==
  [nvs |-> "release", erase |-> "nvs_again", nvs_again |-> "release",
   release |-> "controller", controller |-> "bluedroid",
   bluedroid |-> "start_up", start_up |-> "dispatch", dispatch |-> "netif",
   netif |-> "connect", connect |-> "uart", uart |-> "time",
   time |-> "weather", weather |-> "rtc", rtc |-> "adc",
   adc |-> "amplifier", amplifier |-> "returned"]

Calls == DOMAIN After

(* The calls under ESP_ERROR_CHECK, and xQueueCreate, whose NULL the first *)
(* use of the queue panics on.                                             *)
Aborting == {"nvs", "erase", "nvs_again", "release", "start_up", "netif",
             "connect"}

(* The calls after which app_main returns if they fail.                    *)
Returning == {"controller", "bluedroid"}

(* What is there for the others after a call.                              *)
SetsUp(c) ==
  CASE c = "bluedroid" -> {"stack"}
    [] c = "start_up"  -> {"queue"}
    [] c = "dispatch"  -> {"message"}
    [] c = "connect"   -> {"network"}
    [] c = "uart"      -> {"uart"}
    [] c = "amplifier" -> {"amplifier"}
    [] OTHER           -> {}

Resources == UNION {SetsUp(c) : c \in Calls}

(* The stages of the handler of BT_APP_EVT_STACK_UP, and the callbacks     *)
(* each of them registers.                                                 *)
StageAfter == [gap |-> "ct", ct |-> "tg", tg |-> "caps", caps |-> "a2d",
               a2d |-> "scan", scan |-> "done"]
Stages == DOMAIN StageAfter

(* Variant: nobody is told of the events of pairing.                       *)
RegistersNoGap ==
  [gap |-> {"dev"}, ct |-> {"ct"}, tg |-> {"tg"}, caps |-> {},
   a2d |-> {"a2d", "data"}, scan |-> {}]

(* Variant: the audio data has nowhere to go.                              *)
RegistersNoData ==
  [gap |-> {"dev", "gap"}, ct |-> {"ct"}, tg |-> {"tg"}, caps |-> {},
   a2d |-> {"a2d"}, scan |-> {}]

Registers ==
  [gap |-> {"dev", "gap"}, ct |-> {"ct"}, tg |-> {"tg"}, caps |-> {},
   a2d |-> {"a2d", "data"}, scan |-> {}]

Callbacks == {"dev", "gap", "ct", "tg", "a2d", "data"}

-----------------------------------------------------------------------------
(* The range of every variable; the message waits for nobody but the task  *)
(* of its queue.                                                           *)
BootTypeOK ==
  /\ main_pc \in Calls \cup {"returned", "given_up"}
  /\ ready \subseteq Resources
  /\ app \in Stages \cup {"absent", "missing", "wait", "done"}
  /\ app # "absent" <=> "queue" \in ready
  /\ registered \subseteq Callbacks
  /\ discoverable \in BOOLEAN
  /\ rtc \in {"absent", "missing", "running"}
  /\ adc \in {"absent", "missing", "init", "running", "blind"}
  /\ pairing \in {"none", "asked"}

BootInit ==
  /\ Init
  /\ main_pc = "nvs" /\ ready = {}
  /\ app = "absent" /\ registered = {} /\ discoverable = FALSE
  /\ rtc = "absent" /\ adc = "absent"
  /\ pairing = "none"

(* abort(), a failed assertion or a panic.                                 *)
BootRestart ==
  /\ main_pc' = "nvs" /\ ready' = {}
  /\ app' = "absent" /\ registered' = {} /\ discoverable' = FALSE
  /\ rtc' = "absent" /\ adc' = "absent"
  /\ pairing' = "none"

Abort == ChipRestarts /\ BootRestart

-----------------------------------------------------------------------------
(* app_main.                                                               *)

MainGoesOn ==
  /\ main_pc' = After[main_pc]
  /\ ready' = ready \cup SetsUp(main_pc)

(* A call that succeeds, or whose result is not looked at.                 *)
MainCall ==
  /\ main_pc \in Calls \ {"start_up", "time", "weather", "rtc", "adc"}
  /\ MainGoesOn
  /\ UNCHANGED <<vars, app, registered, discoverable, rtc, adc, pairing>>

(* ESP_ERR_NVS_NO_FREE_PAGES or ESP_ERR_NVS_NEW_VERSION_FOUND: what is     *)
(* stored is erased, with the keys of the phones.                          *)
NvsUnusable ==
  /\ main_pc = "nvs"
  /\ main_pc' = "erase"
  /\ UNCHANGED <<vars, ready, app, registered, discoverable, rtc, adc, pairing>>

MainAborts == main_pc \in Aborting /\ Abort

MainGivesUp ==
  /\ main_pc \in Returning
  /\ main_pc' = "given_up"
  /\ UNCHANGED <<vars, ready, app, registered, discoverable, rtc, adc, pairing>>

(* Variant: the task is started without its queue.                         *)
AppStartUpNoQueue ==
  /\ main_pc = "start_up"
  /\ main_pc' = "dispatch"
  /\ app' \in {"wait", "missing"}
  /\ UNCHANGED <<vars, ready, registered, discoverable, rtc, adc, pairing>>

(* bt_app_task_start_up: whether xTaskCreate has succeeded is not asked.   *)
AppStartUp ==
  /\ main_pc = "start_up"
  /\ MainGoesOn
  /\ app' \in {"wait", "missing"}
  /\ UNCHANGED <<vars, registered, discoverable, rtc, adc, pairing>>

CreateHttp ==
  /\ main_pc \in Tasks
  /\ Create(main_pc)
  /\ MainGoesOn
  /\ UNCHANGED <<app, registered, discoverable, rtc, adc, pairing>>

CreateRtc ==
  /\ main_pc = "rtc"
  /\ rtc' \in {"running", "missing"}
  /\ MainGoesOn
  /\ UNCHANGED <<vars, app, registered, discoverable, adc, pairing>>

CreateAdc ==
  /\ main_pc = "adc"
  /\ adc' \in {"init", "missing"}
  /\ MainGoesOn
  /\ UNCHANGED <<vars, app, registered, discoverable, rtc, pairing>>

Main == \/ MainCall \/ NvsUnusable \/ MainAborts \/ MainGivesUp
        \/ AppStartUp \/ CreateHttp \/ CreateRtc \/ CreateAdc

-----------------------------------------------------------------------------
(* bt_av_hdl_stack_evt, in the application task.                           *)

AppReceives ==
  /\ app = "wait" /\ "message" \in ready
  /\ app' = "gap"
  /\ UNCHANGED <<vars, main_pc, ready, registered, discoverable, rtc, adc,
                 pairing>>

AppStage ==
  /\ app \in Stages
  /\ app' = StageAfter[app]
  /\ registered' = registered \cup Registers[app]
  /\ discoverable' = (app = "scan")
  /\ UNCHANGED <<vars, main_pc, ready, rtc, adc, pairing>>

(* assert(esp_avrc_ct_init() == ESP_OK) and the like.                      *)
AppAborts == app \in {"ct", "tg", "caps", "a2d"} /\ Abort

App == AppReceives \/ AppStage \/ AppAborts

-----------------------------------------------------------------------------
(* The phone, and bt_app_gap_cb.                                           *)

PhoneAsks ==
  /\ discoverable /\ pairing = "none"
  /\ pairing' = "asked"
  /\ UNCHANGED <<vars, main_pc, ready, app, registered, discoverable, rtc, adc>>

PairingEnds ==
  /\ pairing = "asked"
  /\ pairing' = "none"
  /\ UNCHANGED <<vars, main_pc, ready, app, registered, discoverable, rtc, adc>>

(* ESP_BT_GAP_CFM_REQ_EVT: confirmed, whatever the numeric value is.       *)
GapConfirms == "gap" \in registered /\ PairingEnds

PhoneGivesUp == PairingEnds

-----------------------------------------------------------------------------
(* Task_ADCGetVoltage.                                                     *)

(* example_adc_calibration_init: without a calibration in the eFuse there  *)
(* is no voltage, and nothing is ever sent.                                *)
AdcCalibrates ==
  /\ adc = "init"
  /\ adc' \in {"running", "blind"}
  /\ UNCHANGED <<vars, main_pc, ready, app, registered, discoverable, rtc,
                 pairing>>

(* Set-up, configuration, reading and conversion are under ESP_ERROR_CHECK. *)
AdcAborts == adc \in {"init", "running", "blind"} /\ Abort

-----------------------------------------------------------------------------
(* The requests. Bound: the first one begins when the set-up is over; it   *)
(* takes a fraction of the 5 seconds the task has been told to wait.       *)
SetUpOver ==
  /\ main_pc = "returned" /\ app \in {"done", "missing"}
  /\ adc # "init"

HttpTask(t) ==
  /\ \/ Begin(t) /\ SetUpOver
     \/ OnData(t) \/ OnDataCopy(t) \/ OnDataChunked(t) \/ OnDataStore(t)
     \/ OnFinish(t) \/ Fail(t) \/ Parse(t) \/ Cleanup(t)
  /\ UNCHANGED bootVars

HttpPanics(t) == (OnDataPanic(t) \/ ParsePanic(t)) /\ BootRestart

PowerFails == Abort

BootNext ==
  \/ MainCall \/ NvsUnusable \/ MainAborts \/ MainGivesUp
  \/ AppStartUp \/ CreateHttp \/ CreateRtc \/ CreateAdc
  \/ AppReceives \/ AppStage \/ AppAborts
  \/ PhoneAsks \/ GapConfirms \/ PhoneGivesUp
  \/ AdcCalibrates \/ AdcAborts
  \/ \E t \in Tasks : HttpTask(t) \/ HttpPanics(t)
  \/ PowerFails

(* example_connect waits for an address without a limit; every other call  *)
(* returns, every task runs when it can, and a request has a timeout.      *)
BootFairness ==
  /\ WF_allVars(main_pc # "connect" /\ Main)
  /\ WF_allVars(App)
  /\ WF_allVars(AdcCalibrates \/ (adc = "init" /\ AdcAborts))
  /\ WF_allVars(GapConfirms)
  /\ \A t \in Tasks : WF_allVars(HttpTask(t) \/ HttpPanics(t))

BootSpec == BootInit /\ [][BootNext]_allVars /\ BootFairness

-----------------------------------------------------------------------------
(* Properties.                                                             *)

(* "Set discoverable and connectable mode, wait to be connected": a phone  *)
(* that can find the device is heard with everything it does, because      *)
(* every callback has been registered before.                              *)
HeardFromTheFirst == discoverable => registered = Callbacks

(* Whatever starts again when, no task meets what it uses before it is set *)
(* up: the stack for the handler, the network for a request, the UART for  *)
(* every task that sends.                                                  *)
SetUpBeforeUse ==
  /\ app \in Stages \cup {"done"} => {"stack", "queue", "message"} \subseteq ready
  /\ \A t \in Tasks : pc[t] # "absent" => {"network", "uart"} \subseteq ready
  /\ rtc # "absent" \/ adc # "absent" => "uart" \in ready

(* The device is as far as it gets: it has given up before anything was    *)
(* started, or the phone can find it, and unless the network lets it wait, *)
(* every task there was memory for is at work or has done its work, with   *)
(* the amplifier on.                                                       *)
AsFarAsItGets ==
  \/ main_pc = "given_up" /\ app = "absent"
  \/ /\ main_pc \in {"connect", "returned"}
     /\ discoverable \/ app = "missing"
     /\ main_pc = "returned" =>
          /\ "amplifier" \in ready
          /\ rtc \in {"running", "missing"}
          /\ adc \in {"running", "blind", "missing"}
          /\ \A t \in Tasks : pc[t] \in {"done", "missing"}

Restarts == main_pc # "nvs" /\ main_pc' = "nvs"

(* The start ends: unless the chip restarts again and again - a network    *)
(* out of reach, a server that does not answer - the device gets as far as *)
(* it can and stays there. A network that lets it wait for ever costs it   *)
(* the clock, but not the music.                                           *)
BootCompletes == []<><<Restarts>>_allVars \/ <>[]AsFarAsItGets

(* A phone that asks to be paired is answered, without anybody at the      *)
(* device.                                                                 *)
PairingAnswered == pairing = "asked" ~> pairing = "none"
=============================================================================
