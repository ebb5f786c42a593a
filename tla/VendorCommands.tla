--------------------------- MODULE VendorCommands ---------------------------
(* The wrappers of vendor_meta/src/vendor_commands.c, without their prefix    *)
(* cxlmi_cmd_: the opcode each sends, the fields it copies into the request   *)
(* and those it copies out of the answer.  All of them share one control      *)
(* flow, the module Exchange; only ddr_margin_get limits what it copies.      *)
EXTENDS TLC

\* limited: fields at the end of an answer that a payload limit may cut short.
Calls(op, puts, takes) == [op |-> op, puts |-> puts, takes |-> takes, limited |-> {}]
Puts(op, puts) == Calls(op, puts, {})
Takes(op, takes) == Calls(op, {}, takes)

-----------------------------------------------------------------------------
OsInfoWrappers ==
  [get_os_fw_info |-> Takes("GET_OS_INFO", {"slots_supported", "slot_info", "caps", "fw_rev1",
                                            "fw_rev2", "fw_rev3", "fw_rev4"})]

SpdWrappers ==
  [dimm_spd_read |-> Calls("DIMM_SPD_READ", {"spd_id", "offset", "num_bytes"},
                           {"dimm_spd_data"})]

DimmWrappers ==
  [dimm_slot_info        |-> Takes("DIMM_SLOT_INFO", {"dimm_slot_info"}),
   read_ddr_temp         |-> Takes("READ_DDR_TEMP", {"ddr_dimm_temp_info"}),
   health_counters_clear |-> Puts("HEALTH_COUNTERS_CLEAR", {"bitmask"}),
   health_counters_get   |-> Takes("HEALTH_COUNTERS_GET", {"health_counters"})]

\* Mutant: the error of the eye scan is not copied out of the answer.
EyeErrorLost ==
  [pmic_vtmon_info   |-> Takes("PMIC_VTMON_INFO", {"pmic_data"}),
   read_ltssm_states |-> Takes("READ_LTSSM_STATES", {"ltssm_states"}),
   pcie_eye_run      |-> Calls("PCIE_EYE_RUN", {"lane", "sw_scan", "ber"},
                               {"pcie_eye_run_status"}),
   pcie_eye_status   |-> Takes("PCIE_EYE_STATUS", {"pcie_eye_status"})]

EyeWrappers ==
  [pmic_vtmon_info   |-> Takes("PMIC_VTMON_INFO", {"pmic_data"}),
   read_ltssm_states |-> Takes("READ_LTSSM_STATES", {"ltssm_states"}),
   pcie_eye_run      |-> Calls("PCIE_EYE_RUN", {"lane", "sw_scan", "ber"},
                               {"pcie_eye_run_status"}),
   pcie_eye_status   |-> Takes("PCIE_EYE_STATUS", {"pcie_eye_status", "error"})]

EyeGetWrappers ==
  [pcie_eye_get_hw |-> Takes("PCIE_EYE_GET_HW", {"eyescope_results", "rx_settings",
                                                 "eyescope_request_status"})]

LinkWrappers ==
  [get_cxl_link_status |-> Takes("CXL_LINK_STATUS",
                                 {"cxl_link_status", "link_width", "link_speed", "ltssm_val"}),
   get_device_info     |-> Takes("DEVICE_INFO", {"device_id", "revision_id"})]

MarginWrappers ==
  [get_ddr_bw        |-> Calls("GET_DDR_BW", {"timeout", "iterations"}, {"peak_bw"}),
   ddr_margin_run    |-> Puts("DDR_MARGIN_RUN", {"slice_num", "rd_wr_margin", "ddr_id"}),
   ddr_margin_status |-> Takes("DDR_MARGIN_STATUS", {"run_status"}),
   ddr_margin_get    |-> [op |-> "DDR_MARGIN_GET", puts |-> {},
                          takes |-> {"row_count", "ddr_margin_slice_data"},
                          limited |-> {"ddr_margin_slice_data"}],
   reboot_mode_set   |-> Puts("REBOOT_MODE_SET", {"reboot_mode"})]

I2cWrappers ==
  [curr_cxl_boot_mode_get |-> Takes("CURR_CXL_BOOT_MODE_GET", {"curr_cxl_boot"}),
   get_ddr_ecc_err_info   |-> Takes("GET_DDR_ECC_ERR_INFO", {"ddr_ctrl_err"}),
   i2c_read  |-> Calls("I2C_READ", {"slave_addr", "reg_addr", "num_bytes"},
                       {"buf", "num_bytes"}),
   i2c_write |-> Puts("I2C_WRITE", {"slave_addr", "reg_addr", "data"})]

ScrubWrappers ==
  [get_ddr_latency      |-> Calls("GET_DDR_LATENCY", {"measure_time"}, {"ddr_lat_op"}),
   get_membridge_errors |-> Takes("GET_MEMBRIDGE_ERRORS", {"membridge_errors"}),
   hpa_to_dpa           |-> Calls("HPA_TO_DPA", {"hpa_address"}, {"dpa_address"}),
   start_ddr_ecc_scrub  |-> Puts("START_DDR_ECC_SCRUB", {}),
   ddr_ecc_scrub_status |-> Takes("DDR_ECC_SCRUB_STATUS", {"ecc_scrub_status"})]

InjectionWrappers ==
  [ddr_init_status     |-> Takes("DDR_INIT_STATUS", {"ddr_init_status", "failed_channel_id",
                                                     "failed_dimm_silk_screen"}),
   get_membridge_stats |-> Takes("GET_MEMBRIDGE_STATS", {"membridge_stats"}),
   ddr_err_inj_en      |-> Puts("DDR_ERR_INJ_EN", {"ddr_id", "err_type", "ecc_fwc_mask"}),
   trigger_coredump    |-> Puts("TRIGGER_COREDUMP", {}),
   ddr_stats_run       |-> Puts("DDR_STATS_RUN", {"ddr_id", "monitor_time", "loop_count"})]

ParamWrappers ==
  [ddr_param_set |-> Puts("DDR_PARAM_SET",
                          {"ddr_interleave_sz", "ddr_interleave_ctrl_choice"}),
   ddr_param_get |-> Takes("DDR_PARAM_GET",
                           {"ddr_interleave_sz", "ddr_interleave_ctrl_choice"}),
   dimm_level_training_status |-> Takes("DIMM_LEVEL_TRAINING_STATUS",
                                        {"dimm_training_status"})]

LinkErrorWrappers ==
  [viral_inj_en      |-> Puts("CXL_VIRAL_INJ_EN", {"viral_type"}),
   mem_ll_err_inj_en |-> Puts("CXL_MEM_LL_ERR_INJ_EN", {"en_dis", "ll_err_type"}),
   pci_err_inj_en    |-> Puts("PCI_RAS_DES_ERR_INJ_EN",
                              {"en_dis", "err_type", "err_subtype", "count",
                               "opt_param1", "opt_param2"}),
   core_volt_set     |-> Puts("CORE_VOLT_SET", {"core_volt"}),
   core_volt_get     |-> Takes("CORE_VOLT_GET", {"core_volt"})]

PageWrappers ==
  [ddr_cont_scrub_status |-> Takes("DDR_CONT_SCRUB_STATUS", {"cont_scrub_status"}),
   ddr_cont_scrub_set    |-> Puts("DDR_CONT_SCRUB_SET", {"cont_scrub_status"}),
   ddr_page_select_set   |-> Puts("DDR_PAGE_SELECT_SET", {"page_policy_reg_val"}),
   ddr_page_select_get   |-> Takes("DDR_PAGE_SELECT_GET", {"page_policy_reg_val"}),
   ddr_hppr_set          |-> Puts("DDR_HPPR_SET", {"enable"})]

RepairWrappers ==
  [ddr_hppr_get             |-> Takes("DDR_HPPR_GET", {"hppr_enable"}),
   ddr_hppr_addr_info_set   |-> Puts("DDR_HPPR_ADDR_INFO_SET",
                                     {"ddr_id", "chip_select", "bank", "bank_group", "row"}),
   ddr_hppr_addr_info_get   |-> Takes("DDR_HPPR_ADDR_INFO_GET", {"hppr_addr_info"}),
   ddr_hppr_addr_info_clear |-> Puts("DDR_HPPR_ADDR_INFO_CLEAR", {"ddr_id", "channel_id"}),
   ddr_ppr_get_status       |-> Takes("DDR_PPR_GET_STATUS", {"status"})]

StatusWrappers ==
  [ddr_refresh_mode_set  |-> Puts("DDR_REFRESH_MODE_SET", {"ddr_refresh_val"}),
   ddr_refresh_mode_get  |-> Takes("DDR_REFRESH_MODE_GET", {"ddr_refresh_val"}),
   cxl_err_cntr_get      |-> Takes("CXL_ERR_CNTR_GET", {"cxl_err_cntr"}),
   ddr_freq_get          |-> Takes("DDR_FREQUENCY_GET", {"ddr_freq"}),
   ddr_init_err_info_get |-> Takes("DDR_INIT_ERR_INFO_GET", {"ddr_bist_err_info"})]

VendorWrappers ==
  OsInfoWrappers @@ SpdWrappers @@ EyeGetWrappers @@ DimmWrappers @@ EyeWrappers
    @@ LinkWrappers @@ MarginWrappers @@ I2cWrappers @@ ScrubWrappers @@ InjectionWrappers @@ ParamWrappers @@ LinkErrorWrappers
    @@ PageWrappers @@ RepairWrappers @@ StatusWrappers
=============================================================================
