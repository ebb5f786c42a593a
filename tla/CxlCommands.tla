---------------------------- MODULE CxlCommands ----------------------------
(* The commands of cxl/src/cxl_cmd.c that are a single exchange with the      *)
(* device, without their prefix cxl_cmd_: the wrapper each calls, its         *)
(* parameters with their width in bytes, the parameter that each field of the *)
(* request is filled from, and the fields of the answer it displays.          *)
EXTENDS TLC, Integers, Sequences

Param(name, bytes) == [name |-> name, bytes |-> bytes]
U8(name)  == Param(name, 1)
U16(name) == Param(name, 2)
U32(name) == Param(name, 4)
U64(name) == Param(name, 8)

\* The parameter that a field is filled from, and the lowest byte of it that
\* the field gets.
From(param) == [param |-> param, low |-> 0]

\* cpu_to_be32 on a little-endian host, and then a byte or a half shifted out:
\* its bytes count from the top.
SwappedByte(param, shift) == [param |-> param, low |-> 3 - shift \div 8]
SwappedHalf(param, shift) == [param |-> param, low |-> 2 - shift \div 8]

\* Fields with the names of the parameters they are filled from, and fields
\* that are displayed with a label of their own.
SameNames(params) == [f \in {params[i].name : i \in DOMAIN params} |-> From(f)]
UnderTheirNames(fields) == [f \in fields |-> f]

\* atMost: parameters of one byte with the limit that is checked before sending;
\* onError: what is displayed of the answer when the exchange fails;
\* heap: a structure of the caller is allocated, and unless: but not when one
\* of these parameters is zero;
\* branch: of a function that branches on parameters each branch is an entry of
\* its own, and says of these parameters whether they are other than zero in it.
Command(calls, params, fills, shows) ==
  [calls |-> calls, params |-> params, fills |-> fills, shows |-> UnderTheirNames(shows),
   atMost |-> <<>>, onError |-> <<>>, heap |-> FALSE, unless |-> {}, branch |-> <<>>]

Fills(calls, params, fills) == Command(calls, params, fills, {})
Sends(calls, params) == Fills(calls, params, SameNames(params))
Asks(calls, params, shows) == Command(calls, params, SameNames(params), shows)
Shows(calls, shows) == Command(calls, <<>>, <<>>, shows)
Triggers(calls) == Shows(calls, {})
Allocates(command) == [command EXCEPT !.heap = TRUE]

-----------------------------------------------------------------------------
InfoCommands ==
  [identify           |-> Shows("memdev_identify", {"identify"}),
   get_supported_logs |-> Allocates(Shows("get_supported_logs",
                                          {"num_supported_log_entries", "entries"}))]

Thresholds == {"over_temperature", "under_temperature",
               "corrected_volatile", "corrected_persistent"}

AlertCommands ==
  [get_alert_config |->
     Shows("memdev_get_alert_config",
           {"valid_alerts", "programmable_alerts", "life_used_critical", "life_used_warning",
            "over_temperature_critical", "under_temperature_critical"} \cup Thresholds),
   set_alert_config |->
     Fills("memdev_set_alert_config",
           <<U32("alert_prog_threshold"), U32("device_temp_threshold"),
             U32("mem_error_threshold")>>,
           [valid_alert_actions  |-> SwappedByte("alert_prog_threshold", 8),
            enable_alert_actions |-> SwappedByte("alert_prog_threshold", 16),
            life_used_threshold  |-> SwappedByte("alert_prog_threshold", 24),
            over_temperature     |-> SwappedHalf("device_temp_threshold", 0),
            under_temperature    |-> SwappedHalf("device_temp_threshold", 16),
            corrected_volatile   |-> SwappedHalf("mem_error_threshold", 0),
            corrected_persistent |-> SwappedHalf("mem_error_threshold", 16)])]

FwInfo == {"slots_supported", "slot_info", "caps", "fw_rev1", "fw_rev2", "fw_rev3", "fw_rev4"}

FwInfoCommands ==
  [get_health_info |->
     Shows("memdev_get_health_info",
           {"health_status", "media_status", "additional_status", "life_used",
            "device_temperature", "dirty_shutdown_count", "corrected_volatile_error_count",
            "corrected_persistent_error_count"}),
   get_fw_info     |-> Shows("get_fw_info", FwInfo),
   get_os_fw_info  |-> Shows("get_os_fw_info", FwInfo)]

TimestampCommands ==
  [get_timestamp |-> Shows("get_timestamp", {"timestamp"}),
   set_timestamp |-> Sends("set_timestamp", <<U64("timestamp")>>)]

\* The two branches of cxl_cmd_clear_event_records: with a flag the handle is
\* left out, and without one it is the only handle.
ClearParams == <<U8("type"), U8("flags"), U16("handles")>>

ClearCommands ==
  [clear_event_record |->
     [Allocates(Fills("clear_event_record", ClearParams,
                      [event_log_type |-> From("type"),
                       event_record_handle |-> From("handles")]))
        EXCEPT !.branch = [flags |-> FALSE]],
   clear_all_event_records |->
     [Allocates(Fills("clear_all_event_records", ClearParams,
                      [event_log_type |-> From("type")]))
        EXCEPT !.branch = [flags |-> TRUE]]]

EventCommands ==
  [get_event_records |->
     Allocates(Command("get_event_records", <<U8("type")>>,
                       [event_log_type |-> From("type")],
                       {"flags", "overflow_err_count", "first_overflow_timestamp",
                        "last_overflow_timestamp", "record_count", "records"}))]

PolicyCommands ==
  [get_event_interrupt_policy |->
     [Shows("get_event_interrupt_policy", {}) EXCEPT !.shows =
        [informational_settings |-> "informational_settings",
         warning_settings |-> "warning_settings",
         failure_settings |-> "warning_settings",
         fatal_settings   |-> "fatal_settings"]],
   set_event_interrupt_policy |->
     Fills("set_event_interrupt_policy", <<U32("interrupt_policy")>>,
           [informational_settings |-> SwappedByte("interrupt_policy", 0),
            warning_settings |-> SwappedByte("interrupt_policy", 8),
            failure_settings |-> SwappedByte("interrupt_policy", 16),
            fatal_settings   |-> SwappedByte("interrupt_policy", 24)])]

\* A read of no bytes allocates nothing, and hands NULL to the wrapper.
SpdCommands ==
  [dimm_spd_read |-> [Allocates(Asks("dimm_spd_read",
                                     <<U32("spd_id"), U32("offset"), U32("num_bytes")>>,
                                     {"dimm_spd_data"}))
                        EXCEPT !.unless = {"num_bytes"}]]

SlotCommands ==
  [dimm_slot_info |-> Shows("dimm_slot_info", {"dimm_slot_info"}),
   read_ddr_temp  |-> Shows("read_ddr_temp", {"ddr_dimm_temp_info"})]

HealthCommands ==
  [health_counters_clear |-> Sends("health_counters_clear", <<U32("bitmask")>>),
   health_counters_get   |-> Shows("health_counters_get", {"health_counters"}),
   pmic_vtmon_info       |-> Shows("pmic_vtmon_info", {"pmic_data"})]

EyeCommands ==
  [read_ltssm_states |-> Shows("read_ltssm_states", {"ltssm_states"}),
   pcie_eye_run      |-> [Sends("pcie_eye_run", <<U8("lane"), U8("sw_scan"), U8("ber")>>)
                            EXCEPT !.onError = UnderTheirNames({"pcie_eye_run_status"})],
   pcie_eye_status   |-> Shows("pcie_eye_status", {"pcie_eye_status", "error"})]

EyeGetCommands ==
  [pcie_eye_get_hw |-> Shows("pcie_eye_get_hw", {"eyescope_request_status", "rx_settings",
                                                 "eyescope_results"})]

LinkCommands ==
  [get_cxl_link_status |-> Shows("get_cxl_link_status",
                                 {"cxl_link_status", "link_width", "link_speed", "ltssm_val"}),
   get_device_info     |-> Shows("get_device_info", {"device_id", "revision_id"}),
   get_ddr_bw          |-> Asks("get_ddr_bw", <<U32("timeout"), U32("iterations")>>,
                                {"peak_bw"})]

MarginCommands ==
  [ddr_margin_run    |-> Sends("ddr_margin_run",
                               <<U8("slice_num"), U8("rd_wr_margin"), U8("ddr_id")>>),
   ddr_margin_status |-> Shows("ddr_margin_status", {"run_status"}),
   ddr_margin_get    |-> Shows("ddr_margin_get", {"row_count", "ddr_margin_slice_data"}),
   reboot_mode_set   |-> Sends("reboot_mode_set", <<U8("reboot_mode")>>),
   curr_cxl_boot_mode_get |-> Shows("curr_cxl_boot_mode_get", {"curr_cxl_boot"}),
   get_ddr_ecc_err_info   |-> Shows("get_ddr_ecc_err_info", {"ddr_ctrl_err"})]

I2C_MAX_SIZE_NUM_BYTES == 128

I2cCommands ==
  [i2c_read  |-> [Asks("i2c_read", <<U16("slave_addr"), U8("reg_addr"), U8("num_bytes")>>,
                       {"buf", "num_bytes"})
                    EXCEPT !.atMost = [num_bytes |-> I2C_MAX_SIZE_NUM_BYTES]],
   i2c_write |-> Sends("i2c_write", <<U16("slave_addr"), U8("reg_addr"), U8("data")>>)]

MembridgeCommands ==
  [get_ddr_latency      |-> Asks("get_ddr_latency", <<U32("measure_time")>>, {"ddr_lat_op"}),
   get_membridge_errors |-> Shows("get_membridge_errors", {"membridge_errors"}),
   hpa_to_dpa           |-> Asks("hpa_to_dpa", <<U64("hpa_address")>>, {"dpa_address"})]

ScrubCommands ==
  [start_ddr_ecc_scrub  |-> Triggers("start_ddr_ecc_scrub"),
   ddr_ecc_scrub_status |-> Shows("ddr_ecc_scrub_status", {"ecc_scrub_status"}),
   ddr_init_status      |-> Shows("ddr_init_status", {"ddr_init_status", "failed_channel_id",
                                                      "failed_dimm_silk_screen"}),
   get_membridge_stats  |-> Shows("get_membridge_stats", {"membridge_stats"})]

\* Mutant: the mask of an error injection has 32 bits as a parameter.
NarrowMask ==
  [ddr_err_inj_en   |-> Sends("ddr_err_inj_en",
                              <<U32("ddr_id"), U32("err_type"), U32("ecc_fwc_mask")>>),
   trigger_coredump |-> Triggers("trigger_coredump"),
   ddr_stats_run    |-> Sends("ddr_stats_run",
                              <<U8("ddr_id"), U32("monitor_time"), U32("loop_count")>>)]

InjectionCommands ==
  [ddr_err_inj_en   |-> Sends("ddr_err_inj_en",
                              <<U32("ddr_id"), U32("err_type"), U64("ecc_fwc_mask")>>),
   trigger_coredump |-> Triggers("trigger_coredump"),
   ddr_stats_run    |-> Sends("ddr_stats_run",
                              <<U8("ddr_id"), U32("monitor_time"), U32("loop_count")>>)]

ParamCommands ==
  [ddr_param_set |-> Sends("ddr_param_set", <<U32("ddr_interleave_sz"),
                                              U32("ddr_interleave_ctrl_choice")>>),
   ddr_param_get |-> Shows("ddr_param_get",
                           {"ddr_interleave_sz", "ddr_interleave_ctrl_choice"}),
   ddr_dimm_level_training_status |-> Shows("dimm_level_training_status",
                                            {"dimm_training_status"})]

LinkErrorCommands ==
  [viral_inj_en      |-> Sends("viral_inj_en", <<U32("viral_type")>>),
   mem_ll_err_inj_en |-> Sends("mem_ll_err_inj_en", <<U32("en_dis"), U32("ll_err_type")>>),
   pci_err_inj_en    |-> Fills("pci_err_inj_en",
                               <<U32("en_dis"), U32("type"), U32("err"), U32("count"),
                                 U32("opt1"), U32("opt2")>>,
                               [en_dis |-> From("en_dis"), err_type |-> From("type"),
                                err_subtype |-> From("err"), count |-> From("count"),
                                opt_param1 |-> From("opt1"), opt_param2 |-> From("opt2")]),
   core_volt_set     |-> Sends("core_volt_set", <<U32("core_volt")>>),
   core_volt_get     |-> Shows("core_volt_get", {"core_volt"})]

PageCommands ==
  [ddr_cont_scrub_status |-> Shows("ddr_cont_scrub_status", {"cont_scrub_status"}),
   ddr_cont_scrub_set    |-> Sends("ddr_cont_scrub_set", <<U32("cont_scrub_status")>>),
   ddr_page_select_set   |-> Fills("ddr_page_select_set", <<U8("page_select_option")>>,
                                 [page_policy_reg_val |-> From("page_select_option")]),
   ddr_page_select_get   |-> Shows("ddr_page_select_get", {"page_policy_reg_val"}),
   ddr_hppr_set          |-> Fills("ddr_hppr_set", <<U64("hppr_enable_option")>>,
                                 [enable |-> From("hppr_enable_option")]),
   ddr_hppr_get          |-> Shows("ddr_hppr_get", {"hppr_enable"})]

RepairCommands ==
  [ddr_hppr_addr_info_set   |-> Sends("ddr_hppr_addr_info_set",
                                      <<U8("ddr_id"), U8("chip_select"), U8("bank_group"),
                                        U8("bank"), U32("row")>>),
   ddr_hppr_addr_info_get   |-> Shows("ddr_hppr_addr_info_get", {"hppr_addr_info"}),
   ddr_hppr_addr_info_clear |-> Sends("ddr_hppr_addr_info_clear",
                                      <<U8("ddr_id"), U8("channel_id")>>),
   ddr_ppr_get_status       |-> Shows("ddr_ppr_get_status", {"status"})]

StatusCommands ==
  [ddr_refresh_mode_set |-> Fills("ddr_refresh_mode_set", <<U8("refresh_mode")>>,
                                 [ddr_refresh_val |-> From("refresh_mode")]),
   ddr_refresh_mode_get |-> Shows("ddr_refresh_mode_get", {"ddr_refresh_val"}),
   cxl_err_cntr_get     |-> Shows("cxl_err_cntr_get", {"cxl_err_cntr"}),
   ddr_freq_get         |-> Shows("ddr_freq_get", {"ddr_freq"}),
   ddr_init_err_info_get |-> Shows("ddr_init_err_info_get", {"ddr_bist_err_info"})]

DeviceCommands ==
  InfoCommands @@ AlertCommands @@ FwInfoCommands @@ TimestampCommands @@ EventCommands
    @@ ClearCommands @@ PolicyCommands @@ SpdCommands @@ EyeGetCommands @@ SlotCommands
    @@ HealthCommands @@ EyeCommands @@ LinkCommands @@ MarginCommands
    @@ I2cCommands @@ MembridgeCommands @@ ScrubCommands @@ InjectionCommands
    @@ ParamCommands @@ LinkErrorCommands @@ PageCommands @@ RepairCommands
    @@ StatusCommands
=============================================================================
