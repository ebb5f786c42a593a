---------------------------- MODULE VendorTypes ----------------------------
(* The messages of the vendor commands (vendor_meta/inc/vendor_types.h and    *)
(* ddr.h): for each opcode the fields of its request, with their width in     *)
(* bytes, and the fields of its answer.  An answer that is copied as a block  *)
(* and displayed as a whole is one field here.                                *)
EXTENDS TLC

NoFields == <<>>

Query(answer) == [request |-> NoFields, answer |-> answer]
Order(request) == [request |-> request, answer |-> {}]
Asks(request, answer) == [request |-> request, answer |-> answer]

-----------------------------------------------------------------------------
SpdLayouts ==
  [DIMM_SPD_READ |-> Asks([spd_id |-> 4, offset |-> 4, num_bytes |-> 4], {"dimm_spd_data"})]

DimmLayouts ==
  [DIMM_SLOT_INFO |-> Query({"dimm_slot_info"}),
   READ_DDR_TEMP  |-> Query({"ddr_dimm_temp_info"})]

HealthLayouts ==
  [HEALTH_COUNTERS_CLEAR |-> Order([bitmask |-> 4]),
   HEALTH_COUNTERS_GET   |-> Query({"health_counters"})]

LinkStateLayouts ==
  [PMIC_VTMON_INFO   |-> Query({"pmic_data"}),
   READ_LTSSM_STATES |-> Query({"ltssm_states"}),
   PCIE_EYE_RUN      |-> Asks([lane |-> 1, sw_scan |-> 1, ber |-> 1],
                                  {"pcie_eye_run_status"}),
   PCIE_EYE_STATUS   |-> Query({"pcie_eye_status", "error"})]

EyeGetLayouts ==
  [PCIE_EYE_GET_HW |-> Query({"eyescope_results", "rx_settings", "eyescope_request_status"})]

DeviceLayouts ==
  [CXL_LINK_STATUS |-> Query({"cxl_link_status", "link_width", "link_speed", "ltssm_val"}),
   DEVICE_INFO     |-> Query({"device_id", "revision_id"}),
   GET_DDR_BW      |-> Asks([timeout |-> 4, iterations |-> 4], {"peak_bw"})]

MarginLayouts ==
  [DDR_MARGIN_RUN         |-> Order([slice_num |-> 1, rd_wr_margin |-> 1, ddr_id |-> 1]),
   DDR_MARGIN_STATUS      |-> Query({"run_status"}),
   DDR_MARGIN_GET         |-> Query({"row_count", "ddr_margin_slice_data"}),
   REBOOT_MODE_SET        |-> Order([reboot_mode |-> 1]),
   CURR_CXL_BOOT_MODE_GET |-> Query({"curr_cxl_boot"})]

EccLayouts ==
  [GET_DDR_ECC_ERR_INFO |-> Query({"ddr_ctrl_err"})]

I2cLayouts ==
  [I2C_READ        |-> Asks([slave_addr |-> 2, reg_addr |-> 1, num_bytes |-> 1],
                                {"buf", "num_bytes"}),
   I2C_WRITE       |-> Order([slave_addr |-> 2, reg_addr |-> 1, data |-> 1]),
   GET_DDR_LATENCY |-> Asks([measure_time |-> 4], {"ddr_lat_op"})]

MembridgeLayouts ==
  [GET_MEMBRIDGE_ERRORS |-> Query({"membridge_errors"}),
   HPA_TO_DPA           |-> Asks([hpa_address |-> 8], {"dpa_address"}),
   START_DDR_ECC_SCRUB  |-> Order(NoFields),
   DDR_ECC_SCRUB_STATUS |-> Query({"ecc_scrub_status"}),
   DDR_INIT_STATUS      |-> Query({"ddr_init_status", "failed_channel_id",
                                   "failed_dimm_silk_screen"}),
   GET_MEMBRIDGE_STATS  |-> Query({"membridge_stats"})]

InjectionLayouts ==
  [DDR_ERR_INJ_EN   |-> Order([ddr_id |-> 4, err_type |-> 4, ecc_fwc_mask |-> 8]),
   TRIGGER_COREDUMP |-> Order(NoFields),
   DDR_STATS_RUN    |-> Order([ddr_id |-> 1, monitor_time |-> 4, loop_count |-> 4])]

ParamLayouts ==
  [DDR_PARAM_SET |-> Order([ddr_interleave_sz |-> 1, ddr_interleave_ctrl_choice |-> 1]),
   DDR_PARAM_GET |-> Query({"ddr_interleave_sz", "ddr_interleave_ctrl_choice"}),
   DIMM_LEVEL_TRAINING_STATUS |-> Query({"dimm_training_status"}),
   CXL_VIRAL_INJ_EN       |-> Order([viral_type |-> 4]),
   CXL_MEM_LL_ERR_INJ_EN  |-> Order([en_dis |-> 4, ll_err_type |-> 4]),
   PCI_RAS_DES_ERR_INJ_EN |-> Order([en_dis |-> 4, err_type |-> 4, err_subtype |-> 4,
                                     count |-> 4, opt_param1 |-> 4, opt_param2 |-> 4]),
   CORE_VOLT_SET |-> Order([core_volt |-> 4]),
   CORE_VOLT_GET |-> Query({"core_volt"}),
   DDR_CONT_SCRUB_STATUS |-> Query({"cont_scrub_status"}),
   DDR_CONT_SCRUB_SET    |-> Order([cont_scrub_status |-> 4])]

RepairLayouts ==
  [DDR_PAGE_SELECT_SET |-> Order([page_policy_reg_val |-> 1]),
   DDR_PAGE_SELECT_GET |-> Query({"page_policy_reg_val"}),
   DDR_HPPR_SET |-> Order([enable |-> 2]),
   DDR_HPPR_GET |-> Query({"hppr_enable"}),
   DDR_HPPR_ADDR_INFO_SET |-> Order([ddr_id |-> 1, chip_select |-> 1, bank |-> 1,
                                     bank_group |-> 1, row |-> 4]),
   DDR_HPPR_ADDR_INFO_GET   |-> Query({"hppr_addr_info"}),
   DDR_HPPR_ADDR_INFO_CLEAR |-> Order([ddr_id |-> 1, channel_id |-> 1]),
   DDR_PPR_GET_STATUS |-> Query({"status"})]

StatusLayouts ==
  [DDR_REFRESH_MODE_SET  |-> Order([ddr_refresh_val |-> 1]),
   DDR_REFRESH_MODE_GET  |-> Query({"ddr_refresh_val"}),
   CXL_ERR_CNTR_GET      |-> Query({"cxl_err_cntr"}),
   DDR_FREQUENCY_GET     |-> Query({"ddr_freq"}),
   DDR_INIT_ERR_INFO_GET |-> Query({"ddr_bist_err_info"})]

\* Every vendor message of a command that is a single exchange.
VendorLayouts ==
  SpdLayouts @@ EyeGetLayouts @@ DimmLayouts @@ HealthLayouts @@ LinkStateLayouts @@ DeviceLayouts @@ MarginLayouts
    @@ EccLayouts @@ I2cLayouts @@ MembridgeLayouts @@ InjectionLayouts
    @@ ParamLayouts @@ RepairLayouts @@ StatusLayouts
=============================================================================
