--------------------------- MODULE CommandOptions ---------------------------
(* The commands of cxl/src/cmd_parser.c that are a single exchange: the       *)
(* function of cxl_cmd.c each calls, and the option variables it passes, in   *)
(* the order of the call, with their width in bytes.  An option variable has  *)
(* the name of its member in the parameter structure, and so has the field of *)
(* the request that it is meant for, unless the help names the fields.        *)
EXTENDS TLC, Integers, Sequences

\* fields: the lowest byte of the option that belongs to each field.
Holds(name, bytes, fields) == [name |-> name, bytes |-> bytes, fields |-> fields]
Option(name, bytes) == Holds(name, bytes, name :> 0)

\* An option that belongs to no field, and one that is not typed: its variable
\* is static and stays zero.
Unused(name, bytes) == Holds(name, bytes, <<>>)
Omitted(name) == Unused(name, 0)

INTEGER(name) == Option(name, 4)
UINTEGER(name) == Option(name, 4)
U64(name) == Option(name, 8)

\* "Fields: A (2B), B (2B)": typed as one number, the first field first.
InOrder(fields, width) ==
  [f \in {fields[k] : k \in DOMAIN fields} |->
     width * (Len(fields) - CHOOSE k \in DOMAIN fields : fields[k] = f)]
Packed(name, fields, width) == Holds(name, 4, InOrder(fields, width))

Runs(runs, args) == [runs |-> runs, args |-> args]
Plain(runs) == Runs(runs, <<>>)

-----------------------------------------------------------------------------
InfoOptions ==
  [identify           |-> Plain("identify"),
   get_supported_logs |-> Plain("get_supported_logs")]

AlertOptions ==
  [get_alert_config |-> Plain("get_alert_config"),
   set_alert_config |->
     Runs("set_alert_config",
          <<Packed("alert_prog_threshold", <<"valid_alert_actions", "enable_alert_actions",
                                             "life_used_threshold">>, 1),
            Packed("device_temp_threshold", <<"over_temperature", "under_temperature">>, 2),
            Packed("mem_error_threshold", <<"corrected_volatile", "corrected_persistent">>,
                   2)>>)]

\* get_fw_info runs another command when the option osimage is given.
FwInfoOptions ==
  [get_health_info |-> Plain("get_health_info"),
   get_fw_info     |-> Plain("get_fw_info"),
   get_fw_info_osimage |-> Plain("get_os_fw_info")]

TimestampOptions ==
  [get_timestamp |-> Plain("get_timestamp"),
   set_timestamp |-> Runs("set_timestamp", <<U64("timestamp")>>)]

\* clear_event_records without its option event_flag, and with one that is zero
\* for the parameter: "0 (default) - clear specific event record".
EventOptions ==
  [get_event_records |-> Runs("get_event_records", <<INTEGER("event_log_type")>>),
   clear_event_records |->
     Runs("clear_event_record", <<INTEGER("event_log_type"), Omitted("clear_event_flags"),
                                  UINTEGER("event_record_handle")>>),
   clear_event_records_flag_zero |->
     Runs("clear_event_record", <<INTEGER("event_log_type"), Unused("clear_event_flags", 4),
                                  UINTEGER("event_record_handle")>>)]

\* With another flag: "Clear Event Flags: 1 - clear all events".
ClearAllOptions ==
  [clear_all_event_records |->
     Runs("clear_all_event_records",
          <<INTEGER("event_log_type"), INTEGER("clear_event_flags"),
            Unused("event_record_handle", 4)>>)]

PolicyOptions ==
  [set_event_interrupt_policy |->
     Runs("set_event_interrupt_policy",
          <<Packed("policy", <<"informational_settings", "warning_settings",
                               "failure_settings", "fatal_settings">>, 1)>>)]

PolicyGetOptions ==
  [get_event_interrupt_policy |-> Plain("get_event_interrupt_policy")]

SpdOptions ==
  [dimm_spd_read |-> Runs("dimm_spd_read", <<UINTEGER("spd_id"), UINTEGER("offset"),
                                             UINTEGER("num_bytes")>>)]

DimmOptions ==
  [dimm_slot_info |-> Plain("dimm_slot_info"),
   read_ddr_temp  |-> Plain("read_ddr_temp"),
   health_counters_clear |-> Runs("health_counters_clear", <<UINTEGER("bitmask")>>),
   health_counters_get   |-> Plain("health_counters_get"),
   pmic_vtmon_info       |-> Plain("pmic_vtmon_info"),
   read_ltssm_states     |-> Plain("read_ltssm_states")]

\* Mutant: the lane and the kind of the scan are passed in the wrong order.
EyeArgsSwapped ==
  [pcie_eye_run    |-> Runs("pcie_eye_run", <<UINTEGER("sw_scan"), UINTEGER("lane"),
                                              UINTEGER("ber")>>),
   pcie_eye_status |-> Plain("pcie_eye_status")]

EyeOptions ==
  [pcie_eye_run    |-> Runs("pcie_eye_run", <<UINTEGER("lane"), UINTEGER("sw_scan"),
                                              UINTEGER("ber")>>),
   pcie_eye_status |-> Plain("pcie_eye_status")]

\* pcie_eye_get without its option sw_scan.
EyeGetOptions ==
  [pcie_eye_get |-> Plain("pcie_eye_get_hw")]

LinkOptions ==
  [get_cxl_link_status |-> Plain("get_cxl_link_status"),
   get_device_info     |-> Plain("get_device_info"),
   get_ddr_bw          |-> Runs("get_ddr_bw", <<UINTEGER("timeout"), UINTEGER("iterations")>>)]

MarginOptions ==
  [ddr_margin_run    |-> Runs("ddr_margin_run", <<UINTEGER("slice_num"),
                                                  UINTEGER("rd_wr_margin"),
                                                  UINTEGER("ddr_id")>>),
   ddr_margin_status |-> Plain("ddr_margin_status"),
   ddr_margin_get    |-> Plain("ddr_margin_get"),
   reboot_mode_set   |-> Runs("reboot_mode_set", <<UINTEGER("reboot_mode")>>),
   curr_cxl_boot_mode_get |-> Plain("curr_cxl_boot_mode_get"),
   get_ddr_ecc_err_info   |-> Plain("get_ddr_ecc_err_info")]

I2cOptions ==
  [i2c_read  |-> Runs("i2c_read", <<UINTEGER("slave_addr"), UINTEGER("reg_addr"),
                                    UINTEGER("num_bytes")>>),
   i2c_write |-> Runs("i2c_write", <<UINTEGER("slave_addr"), UINTEGER("reg_addr"),
                                     UINTEGER("data")>>),
   get_ddr_latency      |-> Runs("get_ddr_latency", <<UINTEGER("measure_time")>>),
   get_membridge_errors |-> Plain("get_membridge_errors"),
   hpa_to_dpa           |-> Runs("hpa_to_dpa", <<U64("hpa_address")>>)]

ScrubOptions ==
  [start_ddr_ecc_scrub  |-> Plain("start_ddr_ecc_scrub"),
   ddr_ecc_scrub_status |-> Plain("ddr_ecc_scrub_status"),
   ddr_init_status      |-> Plain("ddr_init_status"),
   get_membridge_stats  |-> Plain("get_membridge_stats")]

InjectionOptions ==
  [ddr_err_inj_en   |-> Runs("ddr_err_inj_en", <<UINTEGER("ddr_id"), UINTEGER("err_type"),
                                                 U64("ecc_fwc_mask")>>),
   trigger_coredump |-> Plain("trigger_coredump"),
   ddr_stats_run    |-> Runs("ddr_stats_run", <<UINTEGER("ddr_id"), UINTEGER("monitor_time"),
                                                UINTEGER("loop_count")>>)]

ParamOptions ==
  [ddr_param_set |-> Runs("ddr_param_set", <<UINTEGER("ddr_interleave_sz"),
                                             UINTEGER("ddr_interleave_ctrl_choice")>>),
   ddr_param_get |-> Plain("ddr_param_get"),
   dimm_level_training_status |-> Plain("ddr_dimm_level_training_status"),
   viral_inj_en      |-> Runs("viral_inj_en", <<UINTEGER("viral_type")>>),
   mem_ll_err_inj_en |-> Runs("mem_ll_err_inj_en", <<UINTEGER("en_dis"),
                                                     UINTEGER("ll_err_type")>>)]

PciOptions ==
  [pci_err_inj_en |-> Runs("pci_err_inj_en",
                           <<UINTEGER("en_dis"), UINTEGER("err_type"), UINTEGER("err_subtype"),
                             UINTEGER("count"), UINTEGER("opt_param1"),
                             UINTEGER("opt_param2")>>)]

\* The float that core_volt_set passes is computed from three options; it is
\* taken for a value of its own.
VoltOptions ==
  [core_volt_set |-> Runs("core_volt_set", <<Option("core_volt", 4)>>),
   core_volt_get |-> Plain("core_volt_get"),
   ddr_cont_scrub_status |-> Plain("ddr_cont_scrub_status"),
   ddr_cont_scrub_set    |-> Runs("ddr_cont_scrub_set", <<UINTEGER("cont_scrub_status")>>)]

PageOptions ==
  [ddr_page_select_set |-> Runs("ddr_page_select_set", <<INTEGER("page_policy_reg_val")>>),
   ddr_page_select_get |-> Plain("ddr_page_select_get"),
   ddr_hppr_set        |-> Runs("ddr_hppr_set", <<UINTEGER("enable")>>),
   ddr_hppr_get        |-> Plain("ddr_hppr_get")]

RepairOptions ==
  [ddr_hppr_addr_info_set   |-> Runs("ddr_hppr_addr_info_set",
                                     <<UINTEGER("ddr_id"), UINTEGER("chip_select"),
                                       UINTEGER("bank_group"), UINTEGER("bank"),
                                       UINTEGER("row")>>),
   ddr_hppr_addr_info_get   |-> Plain("ddr_hppr_addr_info_get"),
   ddr_hppr_addr_info_clear |-> Runs("ddr_hppr_addr_info_clear", <<UINTEGER("ddr_id"),
                                                                   UINTEGER("channel_id")>>),
   ddr_ppr_get_status       |-> Plain("ddr_ppr_get_status")]

StatusOptions ==
  [ddr_refresh_mode_set |-> Runs("ddr_refresh_mode_set", <<UINTEGER("ddr_refresh_val")>>),
   ddr_refresh_mode_get |-> Plain("ddr_refresh_mode_get"),
   cxl_err_cntr_get     |-> Plain("cxl_err_cntr_get"),
   ddr_freq_get         |-> Plain("ddr_freq_get"),
   ddr_init_err_info_get |-> Plain("ddr_init_err_info_get")]

\* All but two that exchange_clear and exchange_policy look at.
AllCommands ==
  InfoOptions @@ AlertOptions @@ FwInfoOptions @@ TimestampOptions @@ EventOptions
    @@ PolicyOptions @@ SpdOptions @@ EyeGetOptions @@ DimmOptions @@ EyeOptions
    @@ LinkOptions @@ MarginOptions @@ I2cOptions @@ ScrubOptions @@ InjectionOptions
    @@ ParamOptions @@ PciOptions @@ VoltOptions @@ PageOptions @@ RepairOptions @@ StatusOptions
=============================================================================
